------------------------ MODULE LifecycleProperties ------------------------
(***************************************************************************)
(* What two servers with one lock file and one log owe their users.        *)
(***************************************************************************)
EXTENDS Lifecycle

-----------------------------------------------------------------------------
(* The lock file                                                           *)

(* Between daemonize and teardown's release_lock.                          *)
Locked(s) == at[s] \in {"pid", "ssl", "log", "loop"}

(* At most one server holds the lock file and gets to the loop, though any *)
(* number may start, be stopped or be killed at any moment (daemon.c: "only*)
(* first instance continues").                                             *)
OneServer == \A s, t \in Server : Locked(s) /\ Locked(t) => s = t

(* The first line of the lock file is the pid of the server that runs,     *)
(* although the file still holds what longer pids left behind (daemon.c:   *)
(* "record pid to lockfile"): whoever stops the server with it stops that. *)
Recorded(s) == at[s] \in {"ssl", "log", "loop"}
FirstLine ==
  LET ends == {i \in 1 .. Len(lock_file) : lock_file[i] = EOL}
  IN IF ends = {} THEN lock_file
     ELSE SubSeq(lock_file, 1, (CHOOSE i \in ends : \A j \in ends : i <= j) - 1)
LockNamesServer == \A s \in Server : Recorded(s) => FirstLine = Pid[s]

-----------------------------------------------------------------------------
(* The ports                                                               *)

(* When a server has ended, another one can bind its ports (lisod.c,       *)
(* teardown: "allow port reuse"): no child holds a listener it inherited.  *)
PortsFreed ==
  \A l \in Port \X Kinds, k \in Kid : k \in listening[l] => Alive(kid[k].parent)

-----------------------------------------------------------------------------
(* The log                                                                 *)

(* A line that log_raw writes in two parts stays whole: when a process is  *)
(* about to end it, the unit before is its own data, whatever other        *)
(* processes log meanwhile (logging.h: "Supports mutex").                  *)
LogWhole ==
  \A p \in Process :
    job[p].at = "write" /\ job[p].calls[1][1] = Write(p, "end") =>
      /\ ofs[Opener(p)] \in 1 .. Len(text)
      /\ text[ofs[Opener(p)]] = Write(p, "data")

-----------------------------------------------------------------------------
(* The children                                                            *)

(* No exit of a child goes unnoticed: as long as a server has a zombie, a  *)
(* SIGCHLD is pending, or the handler is at work, or SIGTERM has cut the   *)
(* handler short and the server is ending (lisod.c, signal_handler: "reap  *)
(* child to prevent zombie"), although SIGCHLDs coalesce, children exit    *)
(* while the handler runs, and SIGTERM may come inside it.                 *)
Ending(s) == at[s] \in {"close", "release", "last_line", "stop"}
ZombiesNoticed ==
  \A s \in Server :
    Alive(s) /\ Zombies(s) # {} =>
      \/ s \in sigchld
      \/ handling[s] = "yes"
      \/ handling[s] = "never" /\ Ending(s)

-----------------------------------------------------------------------------
(* Progress                                                                *)

(* Processes run when they can.  Nobody has to start, stop or kill one, nor*)
(* to ask for a CGI program.                                               *)
Fairness ==
  /\ \A s \in Server : WF_vars(ServerStep(s))
  /\ \A k \in Kid : WF_vars(KidStep(k))
FairSpec == Spec /\ Fairness

(* Every child that has exited is reaped, although the SIGCHLDs of several *)
(* children may come as one and a child may exit while the handler runs    *)
(* (lisod.c, signal_handler: "reap child to prevent zombie").              *)
Reaped == \A k \in Kid : kid[k].st = "zombie" ~> kid[k].st = "gone"

(* A server that was told to terminate ends, whatever it was doing, unless *)
(* another one may have the log that nobody told to: two servers of which  *)
(* one emptied the log of the other and both wait for its lock end as well *)
(* (lisod.c, signal_handler and teardown; logging.c log_init).             *)
TermEnds ==
  \A s \in Server :
    sigterm[s] # "no" ~>
      \/ at[s] = "dead"
      \/ \E t \in Server \ {s} : Alive(t) /\ sigterm[t] = "no"

(* Every call of log_line, log_errln and log_raw returns.                  *)
LogReturns == \A p \in Process : job[p].at = "lock" ~> job[p].at # "lock"
=============================================================================
