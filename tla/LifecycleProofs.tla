-------------------------- MODULE LifecycleProofs --------------------------
(***************************************************************************)
(* Proofs about Lifecycle, for any number of servers and children, any     *)
(* ports and pids and any faults: the lock file lets one server run and    *)
(* names it, and the log's lock keeps what log_raw writes in one piece.    *)
(***************************************************************************)
EXTENDS LifecycleProperties, TLAPS

-----------------------------------------------------------------------------
(* The inductive invariant of the lock file                                *)

Label == {"off", "http", "https", "lock", "pid", "ssl", "log", "loop",
          "close", "release", "last_line", "stop", "dead"}

LockTypeOK ==
  /\ at \in [Server -> Label]
  /\ lock_file \in Seq(Digit \cup {EOL})
  /\ holder \in Server \cup {Nobody}

(* Who is past daemonize holds the lock.                                   *)
HoldsLock == \A s \in Server : Locked(s) => holder = s

(* The file starts with the line of the server that runs.                  *)
Stamped(s) ==
  /\ Len(PidLine(s)) <= Len(lock_file)
  /\ \A i \in 1 .. Len(PidLine(s)) : lock_file[i] = PidLine(s)[i]

LockInv ==
  /\ LockTypeOK
  /\ HoldsLock
  /\ \A s \in Server : Recorded(s) => Stamped(s)

-----------------------------------------------------------------------------
(* The lock file                                                           *)

(* A pid and its end of line are characters of the file, and the end of    *)
(* line is the first one.                                                  *)
LEMMA PidLines ==
  ASSUME NEW s \in Server
  PROVE  /\ PidLine(s) \in Seq(Digit \cup {EOL})
         /\ Len(PidLine(s)) = Len(Pid[s]) + 1
         /\ PidLine(s)[Len(Pid[s]) + 1] = EOL
         /\ \A i \in 1 .. Len(Pid[s]) : /\ PidLine(s)[i] = Pid[s][i]
                                        /\ PidLine(s)[i] # EOL
<1>1. Pid[s] \in Seq(Digit)
  BY LifecycleAssumption
<1>2. \A i \in 1 .. Len(Pid[s]) : Pid[s][i] \in Digit
  BY <1>1
<1>3. EOL \notin Digit
  BY DEF EOL, Digit
<1> QED
  BY <1>1, <1>2, <1>3 DEF PidLine

(* A process that ends lets the other servers be.                          *)
LEMMA ExitKeepsLock ==
  ASSUME LockInv, NEW s \in Server, Exit(s)
  PROVE  LockInv'
<1> USE DEF LockInv, LockTypeOK, HoldsLock, Locked, Recorded, Stamped, PidLine
<1>1. /\ at' = [at EXCEPT ![s] = "dead"]
      /\ holder' = IF holder = s THEN Nobody ELSE holder
      /\ lock_file' = lock_file
  BY DEF Exit, Goto
<1>2. LockTypeOK'
  BY <1>1 DEF Label
<1>3. \A t \in Server : Locked(t)' => t # s /\ Locked(t)
  BY <1>1
<1>4. HoldsLock'
  BY <1>1, <1>3
<1>5. \A t \in Server : Recorded(t)' => Recorded(t)
  BY <1>1
<1> QED
  BY <1>1, <1>2, <1>4, <1>5

(* So does a step that keeps the file and its lock, and takes no server to *)
(* a place where it must have the lock.                                    *)
LEMMA GotoKeepsLock ==
  ASSUME LockInv, NEW s \in Server, NEW l \in Label,
         at' = [at EXCEPT ![s] = l] \/ at' = at,
         l \in {"log", "loop"} => at[s] \in {"ssl", "log"},
         l \notin {"pid", "ssl"},
         lock_file' = lock_file, holder' = holder
  PROVE  LockInv'
<1> USE DEF LockInv, LockTypeOK, HoldsLock, Locked, Recorded, Stamped, PidLine
<1>1. LockTypeOK'
  BY DEF Label
<1>2. \A t \in Server : Locked(t)' => Locked(t)
  OBVIOUS
<1>3. \A t \in Server : Recorded(t)' => Recorded(t)
  OBVIOUS
<1> QED
  BY <1>1, <1>2, <1>3

(* The pid written by the holder of the lock file becomes its first line,  *)
(* however long the one before.                                            *)
LEMMA WritePidKeepsLock ==
  ASSUME LockInv, NEW s \in Server, WritePid(s)
  PROVE  LockInv'
<1> DEFINE line == PidLine(s)
           rest == SubSeq(lock_file, Len(line) + 1, Len(lock_file))
<1>1. /\ at[s] = "pid"
      /\ at' = [at EXCEPT ![s] = "ssl"]
      /\ lock_file' = line \o rest
      /\ holder' = holder
  BY DEF WritePid, Goto
<1>2. line \in Seq(Digit \cup {EOL}) /\ lock_file \in Seq(Digit \cup {EOL})
  BY PidLines DEF LockInv, LockTypeOK
<1>3. rest \in Seq(Digit \cup {EOL})
  <2>1. \A i \in Len(line) + 1 .. Len(lock_file) : lock_file[i] \in Digit \cup {EOL}
    BY <1>2
  <2> QED
    BY <1>2, <2>1
<1> HIDE DEF line, rest
<1>4. LockTypeOK'
  BY <1>1, <1>2, <1>3 DEF LockInv, LockTypeOK, Label
<1>5. HoldsLock'
  BY <1>1 DEF LockInv, LockTypeOK, HoldsLock, Locked
<1>6. ASSUME NEW t \in Server, Recorded(t)' PROVE t = s
  BY <1>1, <1>5, <1>6 DEF LockInv, LockTypeOK, HoldsLock, Locked, Recorded
<1>7. Stamped(s)'
  <2>1. Len(line \o rest) = Len(line) + Len(rest) /\ Len(rest) \in Nat /\ Len(line) \in Nat
    BY <1>2, <1>3
  <2>2. \A i \in 1 .. Len(line) : (line \o rest)[i] = line[i]
    BY <1>2, <1>3
  <2>3. PidLine(s)' = line
    BY DEF PidLine, line
  <2> QED
    BY <1>1, <2>1, <2>2, <2>3 DEF Stamped
<1> QED
  BY <1>4, <1>5, <1>6, <1>7 DEF LockInv

(* F_TLOCK gives the lock to one server, or ends the server that asks.     *)
LEMMA DaemonizeKeepsLock ==
  ASSUME LockInv, NEW s \in Server, Daemonize(s)
  PROVE  LockInv'
<1>1. CASE holder = Nobody
  <2>1. /\ at' = [at EXCEPT ![s] = "pid"]
        /\ holder' = s
        /\ lock_file' = lock_file
    BY <1>1 DEF Daemonize, Goto
  <2>2. \A t \in Server : ~Locked(t)
    BY <1>1, NobodyAssumption DEF LockInv, HoldsLock
  <2>3. LockTypeOK'
    BY <2>1 DEF LockInv, LockTypeOK, Label
  <2>4. HoldsLock'
    BY <2>1, <2>2 DEF LockInv, LockTypeOK, HoldsLock, Locked
  <2>5. \A t \in Server : ~Recorded(t)'
    BY <2>1, <2>2 DEF LockInv, LockTypeOK, Locked, Recorded
  <2> QED
    BY <2>3, <2>4, <2>5 DEF LockInv
<1>2. CASE holder # Nobody
  BY <1>2, ExitKeepsLock DEF Daemonize
<1> QED
  BY <1>1, <1>2

(* teardown gives up the server's own lock only.                           *)
LEMMA ReleaseKeepsLock ==
  ASSUME LockInv, NEW s \in Server, ReleaseLock(s)
  PROVE  LockInv'
<1> USE DEF LockInv, LockTypeOK, HoldsLock, Locked, Recorded, Stamped, PidLine
<1>1. /\ at[s] = "release"
      /\ at' = [at EXCEPT ![s] = "last_line"]
      /\ holder' = IF holder = s THEN Nobody ELSE holder
      /\ lock_file' = lock_file
  BY DEF ReleaseLock, Goto
<1>2. LockTypeOK'
  BY <1>1 DEF Label
<1>3. \A t \in Server : Locked(t)' => t # s /\ Locked(t)
  BY <1>1
<1>4. \A t \in Server : Recorded(t)' => Recorded(t)
  BY <1>1
<1> QED
  BY <1>1, <1>2, <1>3, <1>4

(* Init, and every step.                                                   *)
LEMMA LockInitially == Init => LockInv
<1> SUFFICES ASSUME Init PROVE LockInv
  OBVIOUS
<1>1. at = [s \in Server |-> "off"] /\ lock_file = << >> /\ holder = Nobody
  BY DEF Init
<1> QED
  BY <1>1 DEF LockInv, LockTypeOK, HoldsLock, Locked, Recorded, Label

(* Every step of servers and children keeps LockInv.                       *)
LEMMA LockStep == LockInv /\ [Next]_vars => LockInv'
<1> SUFFICES ASSUME LockInv, [Next]_vars PROVE LockInv'
  OBVIOUS
<1> USE DEF Label
<1>1. CASE UNCHANGED vars
  BY <1>1 DEF vars, lockVars, LockInv, LockTypeOK, HoldsLock, Locked, Recorded, Stamped,
              PidLine
<1>2. ASSUME NEW s \in Server, ServerStep(s) PROVE LockInv'
  <2>1. CASE OpenListener(s)
    BY <2>1, GotoKeepsLock DEF OpenListener, Goto, lockVars, Kinds
  <2>2. CASE NewSslCtx(s)
    BY <2>2, GotoKeepsLock DEF NewSslCtx, Goto, lockVars
  <2>3. CASE LogInit(s)
    BY <2>3, GotoKeepsLock DEF LogInit, Goto, lockVars
  <2>4. CASE LogInitFail(s) \/ CloseListeners(s)
    BY <2>4, GotoKeepsLock DEF LogInitFail, CloseListeners, Goto, lockVars
  <2>5. CASE LogCall(s)
    BY <2>5, GotoKeepsLock DEF LogCall, lockVars
  <2>6. ASSUME NEW k \in Kid, LogCgi(s, k) \/ Reap(s, k) PROVE LockInv'
    BY <2>6, GotoKeepsLock DEF LogCgi, Reap, lockVars
  <2>7. CASE HandleTerm(s)
    BY <2>7, GotoKeepsLock DEF HandleTerm, Goto, lockVars
  <2>8. CASE HandleChld(s) \/ ReturnChld(s)
    BY <2>8, GotoKeepsLock DEF HandleChld, ReturnChld, lockVars
  <2>9. CASE LastLine(s)
    <3>1. CASE s \in opened
      BY <2>9, <3>1, GotoKeepsLock DEF LastLine, Goto, lockVars
    <3>2. CASE s \notin opened
      BY <2>9, <3>2, ExitKeepsLock DEF LastLine
    <3> QED
      BY <3>1, <3>2
  <2>10. CASE DefaultTerm(s) \/ DoubleFree(s) \/ Stop(s)
    BY <2>10, ExitKeepsLock DEF DefaultTerm, DoubleFree, Stop
  <2> QED
    BY <1>2, <2>1, <2>2, <2>3, <2>4, <2>5, <2>6, <2>7, <2>8, <2>9, <2>10,
       DaemonizeKeepsLock, WritePidKeepsLock, ReleaseKeepsLock DEF ServerStep
<1>3. ASSUME NEW k \in Kid, KidStep(k) \/ KidErr(k) PROVE LockInv'
  <2>1. at' = at /\ lock_file' = lock_file /\ holder' = holder
    BY <1>3 DEF KidStep, KidExec, KidExecFail, LogCall, KidExit, KidErr, childUnchanged,
                lockVars
  <2> QED
    BY <2>1 DEF LockInv, LockTypeOK, HoldsLock, Locked, Recorded, Stamped, PidLine
<1>4. ASSUME NEW s \in Server,
             Start(s) \/ SendTerm(s) \/ Kill(s) \/ \E k \in Kid : Fork(s, k)
      PROVE  LockInv'
  <2>1. CASE Start(s)
    BY <2>1, GotoKeepsLock DEF Start, Goto, lockVars
  <2>2. CASE SendTerm(s) \/ \E k \in Kid : Fork(s, k)
    BY <2>2, GotoKeepsLock DEF SendTerm, Fork, lockVars
  <2>3. CASE Kill(s)
    BY <2>3, ExitKeepsLock DEF Kill
  <2> QED
    BY <1>4, <2>1, <2>2, <2>3
<1> QED
  BY <1>1, <1>2, <1>3, <1>4 DEF Next, Outside

(* LockInv holds in every state: whoever is past daemonize holds the lock  *)
(* file and has written its pid to it (daemon.c, daemonize).               *)
THEOREM LockInvariant == Spec => []LockInv
  BY LockInitially, LockStep, PTL DEF Spec

(* At most one server is between daemonize and teardown: a start that finds*)
(* the lock file locked ends there (daemon.c, daemonize).                  *)
THEOREM OnlyOneServer == Spec => []OneServer
<1>1. LockInv => OneServer
  BY DEF LockInv, HoldsLock, OneServer
<1> QED
  BY <1>1, LockInvariant, PTL

(* The first line of the lock file is the pid of the server that runs      *)
(* (daemon.c: "record pid to lockfile"), although the file is not truncated*)
THEOREM LockFileNamesServer == Spec => []LockNamesServer
<1>1. ASSUME LockInv, NEW s \in Server, Recorded(s)
      PROVE  FirstLine = Pid[s]
  <2> DEFINE n == Len(Pid[s])
             ends == {i \in 1 .. Len(lock_file) : lock_file[i] = EOL}
  <2>1. /\ n \in Nat /\ n + 1 <= Len(lock_file) /\ lock_file[n + 1] = EOL
        /\ \A i \in 1 .. n : lock_file[i] = Pid[s][i] /\ lock_file[i] # EOL
    <3>1. Pid[s] \in Seq(Digit)
      BY LifecycleAssumption
    <3>2. Stamped(s)
      BY <1>1 DEF LockInv
    <3> QED
      BY <3>1, <3>2, PidLines DEF Stamped
  <2>2. lock_file \in Seq(Digit \cup {EOL}) /\ Len(lock_file) \in Nat
    BY <1>1 DEF LockInv, LockTypeOK
  <2>3. n + 1 \in ends /\ \A j \in ends : n + 1 <= j
    BY <2>1, <2>2
  <2>4. (CHOOSE i \in ends : \A j \in ends : i <= j) = n + 1
    <3>1. ASSUME NEW i \in ends, \A j \in ends : i <= j PROVE i = n + 1
      BY <2>1, <2>2, <2>3, <3>1
    <3> HIDE DEF ends, n
    <3> QED
      BY <2>3, <3>1
  <2>5. FirstLine = SubSeq(lock_file, 1, n)
    <3>1. ends # {} /\ (n + 1) - 1 = n
      BY <2>1, <2>3
    <3>2. FirstLine = IF ends = {} THEN lock_file
                      ELSE SubSeq(lock_file, 1,
                                  (CHOOSE i \in ends : \A j \in ends : i <= j) - 1)
      BY DEF FirstLine
    <3> HIDE DEF ends, n
    <3> QED
      BY <2>4, <3>1, <3>2
  <2>6. SubSeq(lock_file, 1, n) = Pid[s]
    <3>1. Pid[s] \in Seq(Digit)
      BY LifecycleAssumption
    <3>2. \A i \in 1 .. n : lock_file[i] = Pid[s][i]
      BY <2>1
    <3> QED
      BY <2>1, <2>2, <3>1, <3>2
  <2> QED
    BY <2>5, <2>6
<1>2. LockInv => LockNamesServer
  BY <1>1 DEF LockNamesServer
<1> QED
  BY <1>2, LockInvariant, PTL
=============================================================================
