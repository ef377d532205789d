------------------------------ MODULE Logging ------------------------------
(***************************************************************************)
(* logging.c: the lines that servers and their forked children write to    *)
(* the log file, each call between lockf(F_LOCK) and lockf(F_ULOCK).  The  *)
(* kernel's part is modelled too: a record lock belongs to a process and   *)
(* covers the file from the offset at which it is asked for; a forked child*)
(* shares its parent's offset, and none of its locks.  Every action is a   *)
(* part of an action of Lifecycle.                                         *)
(***************************************************************************)
EXTENDS Integers, Sequences, FiniteSets

CONSTANTS
  Server,       \* processes that run lisod
  Kid,          \* processes that cgi_init forks
  LOGSZ         \* bound: units of the log file; stands for its end and beyond

ASSUME LoggingAssumption == Server \cap Kid = {} /\ LOGSZ \in Nat \ {0}

Process == Server \cup Kid

VARIABLES
  text,         \* the log file, a sequence of writes
  opened,       \* the servers whose descriptor of it is open
  ofs,          \* its offset, by the server that opened it
  locked,       \* the units of the file each process holds a lock on
  job           \* the log calls each process has to make, and how far it is

logVars == <<text, opened, ofs, locked, job>>

Write(p, what) == [by |-> p, what |-> what]
Hole == [what |-> "hole"]
Idle == [at |-> "idle", from |-> 0, calls |-> << >>]

(* A call is what it writes between lock and unlock: log_line and log_errln*)
(* a line at once, log_raw the data and then the end of the line.          *)
LogLine(p) == << << Write(p, "line") >> >>
(* Bug: each of log_raw's two writes has a lock of its own.                *)
LogRaw_TwoLocks(p) == << << Write(p, "data") >>, << Write(p, "end") >> >>
LogRaw(p) == << << Write(p, "data"), Write(p, "end") >> >>

Put(file, i, w) ==
  [j \in 1 .. (IF i > Len(file) THEN i ELSE Len(file)) |->
     IF j = i THEN w ELSE IF j <= Len(file) THEN file[j] ELSE Hole]

Beyond(from) == from + 1 .. LOGSZ

(* Process p, which writes at offset ofs[d], starts some calls.            *)
Log(p, d, calls) ==
  job' = [job EXCEPT ![p] = [at |-> "lock", from |-> ofs[d], calls |-> calls]]

(* Bug: a lock that its own holder waits for, as for a mutex.              *)
LogLock_Mutex(p) ==
  /\ job[p].at = "lock"
  /\ \A q \in Process : locked[q] \cap Beyond(job[p].from) = {}
  /\ locked' = [locked EXCEPT ![p] = @ \cup Beyond(job[p].from)]
  /\ job' = [job EXCEPT ![p].at = "write"]
  /\ UNCHANGED <<text, opened, ofs>>

(* lock: it waits for as long as another process holds a unit of the rest  *)
(* of the file.                                                            *)
LogLock(p) ==
  /\ job[p].at = "lock"
  /\ \A q \in Process \ {p} : locked[q] \cap Beyond(job[p].from) = {}
  /\ locked' = [locked EXCEPT ![p] = @ \cup Beyond(job[p].from)]
  /\ job' = [job EXCEPT ![p].at = "write"]
  /\ UNCHANGED <<text, opened, ofs>>

LogWrite(p, d) ==
  /\ job[p].at = "write"
  /\ ofs[d] + 1 < LOGSZ
  /\ text' = Put(text, ofs[d] + 1, job[p].calls[1][1])
  /\ ofs' = [ofs EXCEPT ![d] = @ + 1]
  /\ job' = [job EXCEPT ![p].calls[1] = Tail(@),
                        ![p].at = IF Len(job[p].calls[1]) = 1 THEN "unlock" ELSE @]
  /\ UNCHANGED <<opened, locked>>

(* unlock: the rest of the file from where the offset is now; what was     *)
(* written stays locked.                                                   *)
LogUnlock(p, d) ==
  /\ job[p].at = "unlock"
  /\ locked' = [locked EXCEPT ![p] = @ \ Beyond(ofs[d])]
  /\ job' = [job EXCEPT ![p] =
               IF Len(@.calls) = 1 THEN Idle
               ELSE [at |-> "lock", from |-> ofs[d], calls |-> Tail(@.calls)]]
  /\ UNCHANGED <<text, opened, ofs>>

LogStep(p, d) == LogLock(p) \/ LogWrite(p, d) \/ LogUnlock(p, d)

(* F_TEST: another process has a lock on the file.                         *)
LogTaken(s) == \E q \in Process \ {s} : locked[q] # {}

(* log_init opens the file empty; whether it is locked is tested after.    *)
LogOpen(s) ==
  /\ text' = << >>
  /\ opened' = opened \cup {s}
  /\ ofs' = [ofs EXCEPT ![s] = 0]

(* log_stop, or the end of the process.                                    *)
LogClosed(p) ==
  /\ locked' = [locked EXCEPT ![p] = {}]
  /\ opened' = opened \ {p}
  /\ job' = [job EXCEPT ![p] = Idle]
  /\ UNCHANGED <<text, ofs>>

LogInitially ==
  /\ text = << >> /\ opened = {}
  /\ ofs = [s \in Server |-> 0]
  /\ locked = [p \in Process |-> {}]
  /\ job = [p \in Process |-> Idle]
=============================================================================
