----------------------------- MODULE Lifecycle -----------------------------
(***************************************************************************)
(* The life of lisod processes that were given the same lock file and log  *)
(* file: startup in main, daemonize and its lock file, the signal handler, *)
(* teardown, the children that cgi_init forks, and a kill at any time.  The*)
(* select loop is the label "loop"; module Liso is what happens there.     *)
(***************************************************************************)
EXTENDS Logging

CONSTANTS
  Port,         \* pairs of an http and an https port a server may be given
  Pid,          \* the decimal digits of each server's pid
  Faults        \* "ssl": new_ssl_ctx fails; "log": the log cannot be opened;
                \* "kill": a server is killed; "exec": execve fails

Digit == 0..9
EOL == 10
ASSUME LifecycleAssumption == \A s \in Server : Pid[s] \in Seq(Digit)

Nobody == "nobody"
ASSUME NobodyAssumption == Nobody \notin Server

VARIABLES
  at,           \* where main or teardown is, by server
  port,         \* the ports it was given
  listening,    \* processes that hold a listener, by port and kind
  lock_file,    \* its characters
  holder,       \* the process that holds the lock on the lock file
  sigterm,      \* SIGTERM: "no", "pending", "handled"
  sigchld,      \* servers with SIGCHLD pending
  handling,     \* in the SIGCHLD handler: "yes", "no", "never" again; or
                \* the handlers are "unset", not installed yet
  kid           \* children of servers

lockVars == <<lock_file, holder>>
sigVars == <<sigterm, sigchld, handling>>
vars == <<at, port, listening, lockVars, sigVars, kid, logVars>>

Kinds == {"http", "https"}
Alive(s) == at[s] \notin {"off", "dead"}

NoKid == [st |-> "none", parent |-> Nobody, err |-> "no"]
Opener(p) == IF p \in Server THEN p ELSE kid[p].parent
Zombies(s) == {k \in Kid : kid[k].st = "zombie" /\ kid[k].parent = s}

(* It is not in the SIGCHLD handler.                                       *)
Runs(s) == handling[s] # "yes"

Goto(s, label) == at' = [at EXCEPT ![s] = label]

Init ==
  /\ at = [s \in Server |-> "off"]
  /\ port \in [Server -> Port]
  /\ listening = [l \in Port \X Kinds |-> {}]
  /\ lock_file = << >> /\ holder = Nobody
  /\ sigterm = [s \in Server |-> "no"] /\ sigchld = {}
  /\ handling = [s \in Server |-> "unset"]
  /\ kid = [k \in Kid |-> NoKid]
  /\ LogInitially

-----------------------------------------------------------------------------
(* The end of a process: the kernel closes what it has open and drops its  *)
(* locks; init adopts a server's children.                                 *)

Unheld(p) == [l \in Port \X Kinds |-> listening[l] \ {p}]

Exit(s) ==
  /\ Goto(s, "dead")
  /\ listening' = Unheld(s)
  /\ holder' = IF holder = s THEN Nobody ELSE holder
  /\ sigchld' = sigchld \ {s}
  /\ kid' = [k \in Kid |->
               IF k \in Zombies(s) THEN [kid[k] EXCEPT !.st = "gone"] ELSE kid[k]]
  /\ LogClosed(s)
  /\ UNCHANGED <<port, lock_file, sigterm, handling>>

-----------------------------------------------------------------------------
(* main, up to the loop                                                    *)

Start(s) ==
  /\ at[s] = "off"
  /\ Goto(s, "http")
  /\ UNCHANGED <<port, listening, lockVars, sigVars, kid, logVars>>

(* open_listener_socket, for either port; bind fails while any process has *)
(* a listener on the port, a child that inherited it included.             *)
OpenListener(s) ==
  /\ at[s] \in Kinds
  /\ LET l == <<port[s], at[s]>>
     IN IF listening[l] = {}
        THEN /\ listening' = [listening EXCEPT ![l] = {s}]
             /\ Goto(s, IF at[s] = "http" THEN "https" ELSE "lock")
        ELSE Goto(s, "close") /\ UNCHANGED listening
  /\ UNCHANGED <<port, lockVars, sigVars, kid, logVars>>

(* Bug: the result of lockf is ignored.                                    *)
Daemonize_AnyLock(s) ==
  /\ at[s] = "lock"
  /\ Goto(s, "pid")
  /\ holder' = IF holder = Nobody THEN s ELSE holder
  /\ UNCHANGED <<port, listening, lock_file, sigVars, kid, logVars>>

(* daemonize: the process that goes on is the one that gets the lock.      *)
Daemonize(s) ==
  /\ at[s] = "lock"
  /\ IF holder = Nobody
     THEN /\ Goto(s, "pid")
          /\ holder' = s
          /\ UNCHANGED <<port, listening, lock_file, sigVars, kid, logVars>>
     ELSE Exit(s)

(* Bug: the pid is written without an end of line.                         *)
PidLine_NoEnd(s) == Pid[s]
PidLine(s) == Append(Pid[s], EOL)

(* The file is not truncated: what is longer stays behind the new pid.     *)
WritePid(s) ==
  /\ at[s] = "pid"
  /\ lock_file' =
       PidLine(s) \o SubSeq(lock_file, Len(PidLine(s)) + 1, Len(lock_file))
  /\ Goto(s, "ssl")
  /\ UNCHANGED <<port, listening, holder, sigVars, kid, logVars>>

(* new_ssl_ctx, and the signal handlers.                                   *)
NewSslCtx(s) ==
  /\ at[s] = "ssl"
  /\ \/ Goto(s, "log") /\ handling' = [handling EXCEPT ![s] = "no"]
     \/ "ssl" \in Faults /\ Goto(s, "close") /\ UNCHANGED handling
  /\ UNCHANGED <<port, listening, lockVars, sigterm, sigchld, kid, logVars>>

(* log_init: the log is emptied before it is known to be another process's.*)
LogInit(s) ==
  /\ at[s] = "log" /\ Runs(s)
  /\ LogOpen(s)
  /\ IF LogTaken(s)
     THEN Goto(s, "close") /\ UNCHANGED job
     ELSE /\ Goto(s, "loop")
          /\ job' = [job EXCEPT ![s] =
                       [at |-> "lock", from |-> 0, calls |-> LogLine(s)]]
  /\ UNCHANGED <<port, listening, lockVars, sigVars, kid, locked>>

LogInitFail(s) ==
  /\ at[s] = "log" /\ Runs(s)
  /\ "log" \in Faults
  /\ Goto(s, "close")
  /\ UNCHANGED <<port, listening, lockVars, sigVars, kid, logVars>>

-----------------------------------------------------------------------------
(* The loop, and the log calls of any process.                             *)

Looping(s) == at[s] = "loop" /\ job[s] = Idle /\ Runs(s)

(* cgi_init: the child inherits the listeners and the log's descriptor, and*)
(* neither the lock file's lock nor locks on the log.                      *)
Fork(s, k) ==
  /\ Looping(s)
  /\ kid[k].st = "none"
  /\ kid' = [kid EXCEPT ![k] = [st |-> "child", parent |-> s, err |-> "no"]]
  /\ listening' = [l \in Port \X Kinds |->
                     IF s \in listening[l] THEN listening[l] \cup {k} ELSE listening[l]]
  /\ UNCHANGED <<at, port, lockVars, sigVars, logVars>>

(* cgi_logerr: what a program wrote to its stderr.                         *)
LogCgi(s, k) ==
  /\ Looping(s)
  /\ kid[k].parent = s /\ kid[k].err = "written"
  /\ kid' = [kid EXCEPT ![k].err = "logged"]
  /\ Log(s, s, LogLine(s) \o LogRaw(s))
  /\ UNCHANGED <<at, port, listening, lockVars, sigVars, text, opened, ofs, locked>>

(* A server in its SIGCHLD handler goes on with its log call after it.     *)
LogCall(p) ==
  /\ p \in Server => Runs(p)
  /\ Opener(p) # Nobody
  /\ LogStep(p, Opener(p))
  /\ UNCHANGED <<at, port, listening, lockVars, sigVars, kid>>

-----------------------------------------------------------------------------
(* Children                                                                *)

childUnchanged == <<at, port, lockVars, sigterm, handling>>

KidExec(k) ==
  /\ kid[k].st = "child"
  /\ kid' = [kid EXCEPT ![k].st = "program"]
  /\ UNCHANGED <<childUnchanged, listening, sigchld, logVars>>

(* execve fails: the child logs that, and exits.                           *)
KidExecFail(k) ==
  /\ kid[k].st = "child" /\ "exec" \in Faults
  /\ kid' = [kid EXCEPT ![k].st = "failed"]
  /\ Log(k, kid[k].parent, LogLine(k))
  /\ UNCHANGED <<childUnchanged, listening, sigchld, text, opened, ofs, locked>>

KidErr(k) ==
  /\ kid[k].st = "program" /\ kid[k].err = "no"
  /\ kid' = [kid EXCEPT ![k].err = "written"]
  /\ UNCHANGED <<childUnchanged, listening, sigchld, logVars>>

KidExit(k) ==
  /\ \/ kid[k].st = "program"
     \/ kid[k].st = "failed" /\ job[k] = Idle
  /\ kid' = [kid EXCEPT ![k].st = IF Alive(kid[k].parent) THEN "zombie" ELSE "gone"]
  /\ sigchld' = IF Alive(kid[k].parent) THEN sigchld \cup {kid[k].parent} ELSE sigchld
  /\ listening' = Unheld(k)
  /\ LogClosed(k)
  /\ UNCHANGED childUnchanged

-----------------------------------------------------------------------------
(* Signals                                                                 *)

(* kill sends one to a server, at any time.                                *)
SendTerm(s) ==
  /\ Alive(s)
  /\ sigterm[s] = "no"
  /\ sigterm' = [sigterm EXCEPT ![s] = "pending"]
  /\ UNCHANGED <<at, port, listening, lockVars, sigchld, handling, kid, logVars>>

(* Before the handlers are installed it ends the process.                  *)
DefaultTerm(s) ==
  Alive(s) /\ handling[s] = "unset" /\ sigterm[s] = "pending" /\ Exit(s)

(* The handler runs teardown, whatever it interrupts: the loop, a log call,*)
(* the SIGCHLD handler, or the teardown that follows a failed log_init.    *)
HandleTerm(s) ==
  /\ Alive(s) /\ handling[s] # "unset"
  /\ sigterm[s] = "pending"
  /\ Goto(s, "close")
  /\ sigterm' = [sigterm EXCEPT ![s] = "handled"]
  /\ handling' = [handling EXCEPT ![s] = IF @ = "yes" THEN "never" ELSE @]
  /\ job' = [job EXCEPT ![s] = Idle]
  /\ UNCHANGED <<port, listening, lockVars, sigchld, kid, text, opened, ofs, locked>>

(* In that last case pl_free meets a pool that was freed, and may abort.   *)
DoubleFree(s) ==
  /\ at[s] \in {"last_line", "stop"} /\ handling[s] # "unset"
  /\ sigterm[s] = "pending"
  /\ Exit(s)

HandleChld(s) ==
  /\ Alive(s)
  /\ s \in sigchld /\ handling[s] = "no"
  /\ sigchld' = sigchld \ {s}
  /\ handling' = [handling EXCEPT ![s] = "yes"]
  /\ UNCHANGED <<at, port, listening, lockVars, sigterm, kid, logVars>>

(* Bug: the handler reaps one child and returns.                           *)
Reap_One(s, k) ==
  /\ handling[s] = "yes" /\ k \in Zombies(s)
  /\ kid' = [kid EXCEPT ![k].st = "gone"]
  /\ handling' = [handling EXCEPT ![s] = "no"]
  /\ UNCHANGED <<at, port, listening, lockVars, sigterm, sigchld, logVars>>

(* waitpid, as long as there is a child to reap.                           *)
Reap(s, k) ==
  /\ handling[s] = "yes" /\ k \in Zombies(s)
  /\ kid' = [kid EXCEPT ![k].st = "gone"]
  /\ UNCHANGED <<at, port, listening, lockVars, sigVars, logVars>>

(* The handler returns.  A lock waited for is asked for again; select, if  *)
(* it was interrupted, fails, which is logged.                             *)
ReturnChld(s) ==
  /\ handling[s] = "yes" /\ Zombies(s) = {}
  /\ handling' = [handling EXCEPT ![s] = "no"]
  /\ \/ job' = [job EXCEPT ![s].from = IF job[s].at = "lock" THEN ofs[s] ELSE @]
     \/ at[s] = "loop" /\ job[s] = Idle /\ Log(s, s, LogLine(s))
  /\ UNCHANGED <<at, port, listening, lockVars, sigterm, sigchld, kid, text, opened,
                 ofs, locked>>

Kill(s) == Alive(s) /\ "kill" \in Faults /\ Exit(s)

-----------------------------------------------------------------------------
(* teardown                                                                *)

CloseListeners(s) ==
  /\ at[s] = "close" /\ Runs(s)
  /\ listening' = Unheld(s)
  /\ Goto(s, "release")
  /\ UNCHANGED <<port, lockVars, sigVars, kid, logVars>>

ReleaseLock(s) ==
  /\ at[s] = "release" /\ Runs(s)
  /\ holder' = IF holder = s THEN Nobody ELSE holder
  /\ Goto(s, "last_line")
  /\ UNCHANGED <<port, listening, lock_file, sigVars, kid, logVars>>

LastLine(s) ==
  /\ at[s] = "last_line" /\ Runs(s)
  /\ IF s \in opened
     THEN /\ Log(s, s, LogLine(s))
          /\ Goto(s, "stop")
          /\ UNCHANGED <<port, listening, lockVars, sigVars, kid, text, opened, ofs,
                         locked>>
     ELSE Exit(s)

Stop(s) == at[s] = "stop" /\ Runs(s) /\ job[s] = Idle /\ Exit(s)

-----------------------------------------------------------------------------

(* What a server does by itself; the rest comes from outside.              *)
ServerStep(s) ==
  \/ OpenListener(s) \/ Daemonize(s) \/ WritePid(s) \/ NewSslCtx(s)
  \/ LogInit(s) \/ LogInitFail(s) \/ LogCall(s)
  \/ \E k \in Kid : LogCgi(s, k) \/ Reap(s, k)
  \/ DefaultTerm(s) \/ HandleTerm(s) \/ DoubleFree(s)
  \/ HandleChld(s) \/ ReturnChld(s)
  \/ CloseListeners(s) \/ ReleaseLock(s) \/ LastLine(s) \/ Stop(s)

KidStep(k) == KidExec(k) \/ KidExecFail(k) \/ LogCall(k) \/ KidExit(k)

Outside ==
  \/ \E s \in Server : Start(s) \/ SendTerm(s) \/ Kill(s) \/ \E k \in Kid : Fork(s, k)
  \/ \E k \in Kid : KidErr(k)

Next ==
  \/ \E s \in Server : ServerStep(s)
  \/ \E k \in Kid : KidStep(k)
  \/ Outside

Spec == Init /\ [][Next]_vars
=============================================================================
