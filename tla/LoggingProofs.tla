--------------------------- MODULE LoggingProofs ---------------------------
(***************************************************************************)
(* Proofs about the processes of Lifecycle, for any number of servers and  *)
(* children.  LogWhole: one process at a time has the end of the log       *)
(* locked, only it writes, and no server empties the log while another one *)
(* is in its loop.  ZombiesNoticed: no exit of a child is lost.            *)
(***************************************************************************)
EXTENDS LifecycleProofs

-----------------------------------------------------------------------------
(* The inductive invariant of the log                                      *)

Entry == [by : Process, what : {"line", "data", "end"}]
JobType == [at : {"idle", "lock", "write", "unlock"}, from : 0 .. LOGSZ - 1,
            calls : Seq(Seq(Entry))]

(* A call that has written nothing yet.                                    *)
Fresh(p, call) ==
  call = << Write(p, "line") >> \/ call = << Write(p, "data"), Write(p, "end") >>

Shape(p, j) ==
  /\ j.at # "idle" => Len(j.calls) >= 1
  /\ \A i \in 2 .. Len(j.calls) : Fresh(p, j.calls[i])
  /\ j.at = "lock" => Fresh(p, j.calls[1])
  /\ j.at = "write" => Fresh(p, j.calls[1]) \/ j.calls[1] = << Write(p, "end") >>

(* Children, and servers that are not in the loop, call log_line only.     *)
Plain(p, j) ==
  \A i \in 1 .. Len(j.calls) : j.calls[i] = << Write(p, "line") >> \/ j.calls[i] = << >>
Looped(p) == p \in Server /\ at[p] = "loop"

Whole(s) ==
  job[s].at = "write" /\ job[s].calls[1] = << Write(s, "end") >> =>
    ofs[s] \in 1 .. Len(text) /\ text[ofs[s]] = Write(s, "data")

KidTypeOK ==
  /\ kid \in [Kid -> [st : {"none", "child", "program", "failed", "zombie", "gone"},
                      parent : Server \cup {Nobody}, err : {"no", "written", "logged"}]]
  /\ \A k \in Kid : kid[k].st # "none" => kid[k].parent \in Server

LogTypeOK ==
  /\ job \in [Process -> JobType]
  /\ ofs \in [Server -> 0 .. LOGSZ - 1]
  /\ locked \in [Process -> SUBSET (1 .. LOGSZ)]
  /\ text \in Seq(Entry \cup {Hole})
  /\ KidTypeOK

Holds(p) == LOGSZ \in locked[p]

LogInv ==
  /\ LogTypeOK
  /\ \A p \in Process : Shape(p, job[p]) /\ (Looped(p) \/ Plain(p, job[p]))
  /\ \A s \in Server : Whole(s)
  /\ \A p \in Process : job[p].at \in {"write", "unlock"} => Holds(p)
  /\ \A p, q \in Process : Holds(p) /\ Holds(q) => p = q

-----------------------------------------------------------------------------
(* What a process may do to its own job and locks                          *)

LEMMA Tuples ==
  ASSUME NEW a, NEW b
  PROVE  /\ Len(<< a >>) = 1 /\ Tail(<< a >>) = << >> /\ << a >>[1] = a
         /\ Len(<< a, b >>) = 2 /\ Tail(<< a, b >>) = << b >> /\ << a, b >>[1] = a
         /\ Len(<< >>) = 0
OBVIOUS

(* The first write of a log call, and what is left after it.               *)
LEMMA SomeEntries ==
  ASSUME NEW c \in Seq(Entry), Len(c) = 1 \/ Len(c) = 2
  PROVE  c[1] \in Entry /\ Tail(c) \in Seq(Entry)
OBVIOUS

(* A call of log_line or log_errln never writes an end of line of its own. *)
LEMMA PlainCalls ==
  ASSUME NEW p \in Process, NEW j \in JobType, Shape(p, j), Plain(p, j), j.at = "write"
  PROVE  j.calls[1] # << Write(p, "end") >> /\ Fresh(p, j.calls[1])
<1>1. j.calls \in Seq(Seq(Entry)) /\ Len(j.calls) >= 1
  BY DEF JobType, Shape
<1>2. j.calls[1] = << Write(p, "line") >> \/ j.calls[1] = << >>
  BY <1>1 DEF Plain
<1>3. << Write(p, "end") >> # << Write(p, "line") >> /\ << Write(p, "end") >> # << >>
  BY DEF Write
<1> QED
  BY <1>2, <1>3 DEF Shape

(* What a step that changes one process's log call, the text, its offset and*)
(* its locks has to establish for LogInv.                                  *)
LEMMA JobChange ==
  ASSUME LogInv, NEW p \in Process, NEW j \in JobType, NEW held \in SUBSET (1 .. LOGSZ),
         job' = [job EXCEPT ![p] = j], locked' = [locked EXCEPT ![p] = held],
         text' \in Seq(Entry \cup {Hole}), ofs' \in [Server -> 0 .. LOGSZ - 1], KidTypeOK',
         \A s \in Server \ {p} : Looped(s) => text' = text /\ ofs'[s] = ofs[s],
         Shape(p, j), Looped(p)' \/ Plain(p, j),
         j.at = "write" => Fresh(p, j.calls[1]),
         j.at \in {"write", "unlock"} => LOGSZ \in held,
         LOGSZ \in held => \A q \in Process \ {p} : ~Holds(q),
         \A q \in Process \ {p} : Looped(q) => Looped(q)'
  PROVE  LogInv'
<1>1. LogTypeOK'
  BY DEF LogInv, LogTypeOK
<1>2. /\ job'[p] = j /\ locked'[p] = held
      /\ \A q \in Process \ {p} : job'[q] = job[q] /\ locked'[q] = locked[q]
  BY DEF LogInv, LogTypeOK
<1>3. \A q \in Process : Shape(q, job[q])' /\ (Looped(q) \/ Plain(q, job[q]))'
  <2> SUFFICES ASSUME NEW q \in Process
               PROVE  Shape(q, job'[q]) /\ (Looped(q)' \/ Plain(q, job'[q]))
    BY DEF Shape, Plain, Fresh, Write
  <2> QED
    BY <1>2 DEF LogInv
<1>4. \A s \in Server : Whole(s)'
  <2> SUFFICES ASSUME NEW s \in Server PROVE Whole(s)'
    OBVIOUS
  <2>1. CASE s = p
    BY <1>2, <2>1 DEF Whole, Fresh, Write
  <2>2. CASE s # p
    <3>1. job'[s] = job[s]
      BY <1>2, <2>2 DEF Process
    <3>2. CASE Looped(s)
      BY <2>2, <3>1, <3>2 DEF LogInv, Whole, Write
    <3>3. CASE ~Looped(s)
      <4>1. Plain(s, job[s]) /\ Shape(s, job[s]) /\ job[s] \in JobType
        BY <3>3 DEF LogInv, LogTypeOK, Process
      <4>2. job[s].at = "write" => job[s].calls[1] # << Write(s, "end") >>
        BY <4>1, PlainCalls DEF Process
      <4> QED
        BY <3>1, <4>2 DEF Whole, Write
    <3> QED
      BY <3>2, <3>3
  <2> QED
    BY <2>1, <2>2
<1>5. \A q \in Process : job'[q].at \in {"write", "unlock"} => Holds(q)'
  BY <1>2 DEF LogInv, Holds
<1>6. \A q, r \in Process : Holds(q)' /\ Holds(r)' => q = r
  BY <1>2 DEF LogInv, Holds
<1> QED
  BY <1>1, <1>3, <1>4, <1>5, <1>6 DEF LogInv

(* A step that leaves the log alone and takes no server out of its loop    *)
(* keeps LogInv.                                                           *)
LEMMA LogUnchanged ==
  ASSUME LogInv, UNCHANGED logVars, KidTypeOK',
         \A p \in Process : Looped(p) => Looped(p)'
  PROVE  LogInv'
<1>1. /\ job' = job /\ ofs' = ofs /\ locked' = locked /\ text' = text
  BY DEF logVars
<1>2. LogTypeOK'
  BY <1>1 DEF LogInv, LogTypeOK
<1>3. \A p \in Process : Shape(p, job[p])' /\ (Looped(p) \/ Plain(p, job[p]))'
  <2> SUFFICES ASSUME NEW p \in Process
               PROVE  Shape(p, job[p]) /\ (Looped(p)' \/ Plain(p, job[p]))
    BY <1>1 DEF Shape, Plain, Fresh, Write
  <2> QED
    BY DEF LogInv
<1> QED
  BY <1>1, <1>2, <1>3 DEF LogInv, Whole, Holds, Write

(* lock, write, unlock                                                     *)

LEMMA LogLockKeeps ==
  ASSUME LogInv, NEW p \in Process, LogLock(p), at' = at, kid' = kid
  PROVE  LogInv'
<1> DEFINE j == [job[p] EXCEPT !.at = "write"]
           held == locked[p] \cup Beyond(job[p].from)
<1>1. /\ job[p] \in JobType /\ job[p].at = "lock" /\ Shape(p, job[p])
      /\ Looped(p) \/ Plain(p, job[p])
      /\ job[p].from \in 0 .. LOGSZ - 1
  BY DEF LogLock, LogInv, LogTypeOK, JobType
<1>2. j \in JobType /\ job' = [job EXCEPT ![p] = j]
  BY <1>1 DEF LogLock, JobType, LogInv, LogTypeOK
<1>3. held \in SUBSET (1 .. LOGSZ) /\ locked' = [locked EXCEPT ![p] = held]
  BY <1>1 DEF LogLock, LogInv, LogTypeOK, Beyond
<1>4. LOGSZ \in Beyond(job[p].from)
  BY <1>1, LoggingAssumption DEF Beyond
<1>5. \A q \in Process \ {p} : ~Holds(q)
  BY <1>4 DEF LogLock, Holds
<1>6. Shape(p, j) /\ Fresh(p, j.calls[1]) /\ (Looped(p)' \/ Plain(p, j))
  BY <1>1 DEF Shape, Plain, Looped, JobType
<1>7. /\ KidTypeOK' /\ text' = text /\ ofs' = ofs
      /\ text' \in Seq(Entry \cup {Hole}) /\ ofs' \in [Server -> 0 .. LOGSZ - 1]
  BY DEF LogInv, LogTypeOK, KidTypeOK, LogLock
<1>8. \A q \in Process \ {p} : Looped(q) => Looped(q)'
  BY DEF Looped
<1> HIDE DEF j, held
<1> QED
  <2>1. LOGSZ \in held
    BY <1>4 DEF held
  <2> QED
    BY <1>2, <1>3, <1>5, <1>6, <1>7, <1>8, <2>1, JobChange

(* unlock frees the end of the log, wherever the offset is by now.         *)
LEMMA LogUnlockKeeps ==
  ASSUME LogInv, NEW p \in Process, NEW d \in Server, LogUnlock(p, d), at' = at, kid' = kid
  PROVE  LogInv'
<1> DEFINE calls == job[p].calls
           j == IF Len(calls) = 1 THEN Idle
                ELSE [at |-> "lock", from |-> ofs[d], calls |-> Tail(calls)]
           held == locked[p] \ Beyond(ofs[d])
<1>1. /\ job[p] \in JobType /\ job[p].at = "unlock" /\ Shape(p, job[p])
      /\ Looped(p) \/ Plain(p, job[p])
      /\ ofs[d] \in 0 .. LOGSZ - 1
  BY DEF LogUnlock, LogInv, LogTypeOK, JobType
<1>2. calls \in Seq(Seq(Entry)) /\ Len(calls) >= 1
  BY <1>1 DEF JobType, Shape
<1>3. job' = [job EXCEPT ![p] = j]
  BY DEF LogUnlock, LogInv, LogTypeOK
<1>4. held \in SUBSET (1 .. LOGSZ) /\ locked' = [locked EXCEPT ![p] = held]
  BY <1>1 DEF LogUnlock, LogInv, LogTypeOK
<1>5. LOGSZ \notin held
  BY <1>1, LoggingAssumption DEF Beyond
<1>6. /\ KidTypeOK' /\ text' = text /\ ofs' = ofs
      /\ text' \in Seq(Entry \cup {Hole}) /\ ofs' \in [Server -> 0 .. LOGSZ - 1]
  BY DEF LogInv, LogTypeOK, KidTypeOK, LogUnlock
<1>7. \A q \in Process \ {p} : Looped(q) => Looped(q)'
  BY DEF Looped
<1>8. j \in JobType /\ Shape(p, j) /\ (Looped(p)' \/ Plain(p, j)) /\ j.at \in {"idle", "lock"}
  <2>1. CASE Len(calls) = 1
    <3>1. j = Idle
      BY <2>1
    <3>2. << >> \in Seq(Seq(Entry)) /\ Len(<< >>) = 0
      OBVIOUS
    <3> HIDE DEF j
    <3> QED
      BY <3>1, <3>2, LoggingAssumption DEF Idle, JobType, Shape, Plain
  <2>2. CASE Len(calls) # 1
    <3>1. j = [at |-> "lock", from |-> ofs[d], calls |-> Tail(calls)]
      BY <2>2
    <3>2. /\ Tail(calls) \in Seq(Seq(Entry))
          /\ Len(Tail(calls)) = Len(calls) - 1
          /\ \A i \in 1 .. Len(calls) - 1 : Tail(calls)[i] = calls[i + 1]
          /\ Len(calls) \in Nat
      BY <1>2, <2>2
    <3>3. \A i \in 1 .. Len(Tail(calls)) : Fresh(p, Tail(calls)[i])
      BY <1>1, <3>2 DEF Shape
    <3>4. Plain(p, job[p]) => \A i \in 1 .. Len(Tail(calls)) :
             Tail(calls)[i] = << Write(p, "line") >> \/ Tail(calls)[i] = << >>
      <4> SUFFICES ASSUME Plain(p, job[p]), NEW i \in 1 .. Len(Tail(calls))
                   PROVE  Tail(calls)[i] = << Write(p, "line") >> \/ Tail(calls)[i] = << >>
        OBVIOUS
      <4>1. i \in 1 .. Len(calls) - 1 /\ i + 1 \in 1 .. Len(calls)
        BY <3>2
      <4>2. calls[i + 1] = << Write(p, "line") >> \/ calls[i + 1] = << >>
        BY <4>1 DEF Plain
      <4> QED
        BY <3>2, <4>1, <4>2
    <3> DEFINE t == Tail(calls)
    <3>5. Len(t) >= 1
      <4> HIDE DEF calls, t
      <4>1. Len(t) = Len(calls) - 1
        BY <3>2 DEF t
      <4> QED
        BY <1>2, <2>2, <4>1
    <3>6. j.at = "lock" /\ j.calls = t /\ j \in JobType
      <4> HIDE DEF j, t
      <4>1. t \in Seq(Seq(Entry)) /\ j = [at |-> "lock", from |-> ofs[d], calls |-> t]
        BY <3>1, <3>2 DEF t
      <4> QED
        BY <1>1, <4>1 DEF JobType
    <3>7. Shape(p, j)
      <4> HIDE DEF j, t
      <4>1. t \in Seq(Seq(Entry)) /\ Len(t) \in Nat
        BY <3>2 DEF t
      <4>2. Len(t) >= 1 /\ \A i \in 1 .. Len(t) : Fresh(p, t[i])
        BY <3>3, <3>5 DEF t
      <4> QED
        BY <3>6, <4>1, <4>2 DEF Shape
    <3>8. Plain(p, job[p]) => Plain(p, j)
      BY <3>4, <3>6 DEF Plain
    <3> HIDE DEF j
    <3> QED
      BY <1>1, <3>6, <3>7, <3>8 DEF Looped
  <2> QED
    BY <2>1, <2>2
<1> HIDE DEF j, held, calls
<1> QED
  BY <1>3, <1>4, <1>5, <1>6, <1>7, <1>8, JobChange

(* A write goes to the end of the log: its process has that unit locked.   *)
LEMMA LogWriteKeeps ==
  ASSUME LogInv, NEW p \in Process, NEW d \in Server, LogWrite(p, d), at' = at, kid' = kid,
         p \in Server => d = p
  PROVE  LogInv'
<1> DEFINE calls == job[p].calls
           n == ofs[d] + 1
           w == calls[1][1]
<1>1. /\ job[p] \in JobType /\ job[p].at = "write" /\ Shape(p, job[p])
      /\ Looped(p) \/ Plain(p, job[p])
      /\ ofs[d] \in 0 .. LOGSZ - 1 /\ n < LOGSZ
      /\ locked' = locked
      /\ text' = Put(text, n, w)
      /\ ofs' = [ofs EXCEPT ![d] = n]
  BY DEF LogWrite, LogInv, LogTypeOK
<1>2. calls \in Seq(Seq(Entry)) /\ Len(calls) >= 1 /\ Len(calls) \in Nat
      /\ (Fresh(p, calls[1]) \/ calls[1] = << Write(p, "end") >>)
  BY <1>1 DEF JobType, Shape
<1>3. job' = [job EXCEPT ![p] =
                [job[p] EXCEPT !.calls = [calls EXCEPT ![1] = Tail(calls[1])],
                               !.at = IF Len(calls[1]) = 1 THEN "unlock" ELSE "write"]]
  BY <1>1 DEF LogWrite, LogInv, LogTypeOK, JobType
<1>4. \/ Len(calls[1]) = 1 /\ Tail(calls[1]) = << >>
      \/ /\ Len(calls[1]) = 2 /\ Tail(calls[1]) = << Write(p, "end") >>
         /\ w = Write(p, "data")
  <2> HIDE DEF calls
  <2>1. CASE calls[1] = << Write(p, "line") >> \/ calls[1] = << Write(p, "end") >>
    BY <2>1, Tuples
  <2>2. CASE calls[1] = << Write(p, "data"), Write(p, "end") >>
    BY <2>2, Tuples
  <2> QED
    BY <1>2, <2>1, <2>2 DEF Fresh
<1>5. w \in Entry
  <2> HIDE DEF calls
  <2>1. calls[1] \in Seq(Entry)
    BY <1>2
  <2>2. Len(calls[1]) = 1 \/ Len(calls[1]) = 2
    BY <1>4
  <2> QED
    BY <2>1, <2>2, SomeEntries
<1>6. /\ text' \in Seq(Entry \cup {Hole})
      /\ n \in 1 .. Len(text') /\ text'[n] = w
  <2>1. text \in Seq(Entry \cup {Hole}) /\ Len(text) \in Nat /\ n \in Nat /\ n >= 1
    BY <1>1 DEF LogInv, LogTypeOK
  <2>2. \A i \in 1 .. Len(text) : text[i] \in Entry \cup {Hole}
    BY <2>1
  <2> DEFINE m == IF n > Len(text) THEN n ELSE Len(text)
             f == [i \in 1 .. m |-> IF i = n THEN w
                                    ELSE IF i <= Len(text) THEN text[i] ELSE Hole]
  <2>3. m \in Nat /\ n \in 1 .. m
    BY <2>1
  <2>4. \A i \in 1 .. m : f[i] \in Entry \cup {Hole}
    BY <2>1, <2>2, <1>5
  <2>5. text' = f
    BY <1>1 DEF Put
  <2>6. f \in [1 .. m -> Entry \cup {Hole}] /\ f[n] = w
    BY <2>3, <2>4
  <2>7. f \in Seq(Entry \cup {Hole}) /\ Len(f) = m
    <3> HIDE DEF f, m
    <3> QED
      BY <2>3, <2>6
  <2> HIDE DEF f, m
  <2> QED
    BY <2>3, <2>5, <2>6, <2>7
<1> DEFINE cs == [calls EXCEPT ![1] = Tail(calls[1])]
<1>7. /\ cs \in Seq(Seq(Entry)) /\ Len(cs) = Len(calls) /\ cs[1] = Tail(calls[1])
      /\ \A i \in 2 .. Len(calls) : cs[i] = calls[i]
  <2> HIDE DEF calls
  <2>1. calls[1] \in Seq(Entry)
    BY <1>2
  <2>2. Len(calls[1]) = 1 \/ Len(calls[1]) = 2
    BY <1>4
  <2>3. Tail(calls[1]) \in Seq(Entry)
    BY <2>1, <2>2, SomeEntries
  <2> QED
    BY <1>2, <2>3
<1>8. /\ job'[p] = [job[p] EXCEPT !.calls = cs,
                      !.at = IF Len(calls[1]) = 1 THEN "unlock" ELSE "write"]
      /\ \A q \in Process \ {p} : job'[q] = job[q]
  BY <1>3 DEF LogInv, LogTypeOK
<1>9. /\ job'[p].calls = cs
      /\ job'[p].at = IF Len(calls[1]) = 1 THEN "unlock" ELSE "write"
      /\ job'[p] \in JobType
  BY <1>1, <1>7, <1>8 DEF JobType
<1> HIDE DEF cs
<1>10. Shape(p, job'[p]) /\ (Looped(p)' \/ Plain(p, job'[p]))
  <2>1. Len(cs) >= 1 /\ \A i \in 2 .. Len(cs) : Fresh(p, cs[i])
    BY <1>1, <1>2, <1>7 DEF Shape
  <2>2. Len(calls[1]) # 1 => cs[1] = << Write(p, "end") >>
    BY <1>4, <1>7
  <2>3. Shape(p, job'[p])
    BY <1>9, <2>1, <2>2 DEF Shape
  <2>4. Plain(p, job[p]) => Plain(p, job'[p])
    <3> SUFFICES ASSUME Plain(p, job[p]), NEW i \in 1 .. Len(cs)
                 PROVE  cs[i] = << Write(p, "line") >> \/ cs[i] = << >>
      BY <1>9 DEF Plain
    <3>1. CASE i = 1
      <4>1. calls[1] = << Write(p, "line") >> \/ calls[1] = << >>
        BY <1>2 DEF Plain
      <4>2. Len(calls[1]) # 2
        <5> HIDE DEF calls
        <5>1. CASE calls[1] = << Write(p, "line") >>
          BY <5>1, Tuples
        <5>2. CASE calls[1] = << >>
          BY <5>2, Tuples
        <5> QED
          BY <4>1, <5>1, <5>2
      <4> QED
        BY <1>4, <1>7, <3>1, <4>2
    <3>2. CASE i # 1
      BY <1>2, <1>7, <3>2 DEF Plain
    <3> QED
      BY <3>1, <3>2
  <2> QED
    BY <1>1, <2>3, <2>4 DEF Looped
<1>11. LogTypeOK'
  <2>1. job' \in [Process -> JobType]
    BY <1>3, <1>8, <1>9 DEF LogInv, LogTypeOK
  <2>2. ofs' \in [Server -> 0 .. LOGSZ - 1]
    <3>1. n \in 0 .. LOGSZ - 1 /\ ofs \in [Server -> 0 .. LOGSZ - 1]
      BY <1>1, LoggingAssumption DEF LogInv, LogTypeOK
    <3> HIDE DEF n
    <3> QED
      BY <1>1, <3>1
  <2> QED
    BY <1>1, <1>6, <2>1, <2>2 DEF LogInv, LogTypeOK, KidTypeOK
<1>12. \A q \in Process : Shape(q, job[q])' /\ (Looped(q) \/ Plain(q, job[q]))'
  <2> SUFFICES ASSUME NEW q \in Process
               PROVE  Shape(q, job'[q]) /\ (Looped(q)' \/ Plain(q, job'[q]))
    BY DEF Shape, Plain, Fresh, Write
  <2>1. CASE q = p
    BY <1>10, <2>1
  <2>2. CASE q # p
    BY <1>8, <2>2 DEF LogInv, Looped
  <2> QED
    BY <2>1, <2>2
<1>13. Holds(p) /\ \A q \in Process \ {p} : job[q].at \notin {"write", "unlock"}
  BY <1>1 DEF LogInv
<1>14. \A s \in Server : Whole(s)'
  <2> SUFFICES ASSUME NEW s \in Server, job'[s].at = "write",
                      job'[s].calls[1] = << Write(s, "end") >>
               PROVE  ofs'[s] \in 1 .. Len(text') /\ text'[ofs'[s]] = Write(s, "data")
    BY DEF Whole, Write
  <2>1. s = p
    BY <1>8, <1>13 DEF Process
  <2>2. Len(calls[1]) # 1
    BY <1>9, <2>1
  <2>3. w = Write(s, "data")
    BY <1>4, <2>1, <2>2
  <2>4. ofs'[s] = n
    BY <1>1, <2>1 DEF LogInv, LogTypeOK
  <2> QED
    BY <1>6, <2>3, <2>4
<1>15. \A q \in Process : job'[q].at \in {"write", "unlock"} => Holds(q)'
  BY <1>1, <1>8, <1>13 DEF Holds
<1>16. \A q, r \in Process : Holds(q)' /\ Holds(r)' => q = r
  BY <1>1 DEF LogInv, Holds
<1> QED
  BY <1>11, <1>12, <1>14, <1>15, <1>16 DEF LogInv

-----------------------------------------------------------------------------
(* The actions                                                             *)

(* A process closes the log, or starts to log lines.                       *)
LEMMA IdleJob ==
  /\ Idle \in JobType
  /\ \A p \in Process : Shape(p, Idle) /\ Plain(p, Idle)
<1>1. << >> \in Seq(Seq(Entry)) /\ Len(<< >>) = 0
  OBVIOUS
<1> QED
  BY <1>1, LoggingAssumption DEF Idle, JobType, Shape, Plain

(* A call of log_line begins in a well-formed state.                       *)
LEMMA LineJob ==
  ASSUME NEW p \in Process, NEW n \in 0 .. LOGSZ - 1
  PROVE  LET j == [at |-> "lock", from |-> n, calls |-> LogLine(p)]
         IN  j \in JobType /\ Shape(p, j) /\ Plain(p, j)
<1> DEFINE calls == LogLine(p)
<1>1. calls \in Seq(Seq(Entry)) /\ Len(calls) = 1 /\ calls[1] = << Write(p, "line") >>
  <2>1. Write(p, "line") \in Entry
    BY DEF Write, Entry
  <2>2. << Write(p, "line") >> \in Seq(Entry)
    BY <2>1
  <2> QED
    BY <2>2 DEF LogLine
<1> HIDE DEF calls
<1>2. LET j == [at |-> "lock", from |-> n, calls |-> calls]
      IN  j \in JobType /\ Shape(p, j) /\ Plain(p, j)
  <2> DEFINE j == [at |-> "lock", from |-> n, calls |-> calls]
  <2>1. j \in JobType /\ j.at = "lock" /\ j.calls = calls
    BY <1>1 DEF JobType
  <2>2. \A i \in 1 .. Len(calls) : i = 1
    BY <1>1
  <2>3. \A i \in 2 .. Len(calls) : FALSE
    BY <1>1
  <2> HIDE DEF j
  <2>4. Shape(p, j)
    <3>1. Fresh(p, j.calls[1])
      BY <1>1, <2>1 DEF Fresh
    <3>2. Len(j.calls) >= 1
      BY <1>1, <2>1
    <3>3. \A i \in 2 .. Len(j.calls) : Fresh(p, j.calls[i])
      BY <2>1, <2>3
    <3> QED
      BY <2>1, <3>1, <3>2, <3>3 DEF Shape
  <2>5. Plain(p, j)
    BY <1>1, <2>1, <2>2 DEF Plain
  <2> QED
    BY <2>1, <2>4, <2>5 DEF j
<1> QED
  BY <1>2 DEF calls

(* So does a call of log_raw behind one of log_line (cgi_logerr).          *)
LEMMA RawJob ==
  ASSUME NEW p \in Process, NEW n \in 0 .. LOGSZ - 1
  PROVE  LET j == [at |-> "lock", from |-> n, calls |-> LogLine(p) \o LogRaw(p)]
         IN  j \in JobType /\ Shape(p, j)
<1> DEFINE calls == LogLine(p) \o LogRaw(p)
           l == << Write(p, "line") >>
           raw == << Write(p, "data"), Write(p, "end") >>
<1>1. l \in Seq(Entry) /\ raw \in Seq(Entry)
  <2>1. \A what \in {"line", "data", "end"} : Write(p, what) \in Entry
    BY DEF Write, Entry
  <2> QED
    BY <2>1
<1>2. LogLine(p) = << l >> /\ LogRaw(p) = << raw >>
  BY DEF LogLine, LogRaw
<1> HIDE DEF l, raw
<1>3. calls \in Seq(Seq(Entry)) /\ Len(calls) = 2 /\ calls[1] = l /\ calls[2] = raw
  BY <1>1, <1>2
<1>4. Fresh(p, l) /\ Fresh(p, raw)
  BY DEF Fresh, l, raw
<1> HIDE DEF calls
<1>5. LET j == [at |-> "lock", from |-> n, calls |-> calls]
      IN  j \in JobType /\ Shape(p, j)
  <2>1. \A i \in 2 .. Len(calls) : i = 2
    BY <1>3
  <2> QED
    <3> DEFINE j == [at |-> "lock", from |-> n, calls |-> calls]
    <3>1. j \in JobType /\ j.at = "lock" /\ j.calls = calls
      BY <1>3 DEF JobType
    <3> HIDE DEF j
    <3>2. Shape(p, j)
      <4>1. Fresh(p, j.calls[1])
        BY <1>3, <1>4, <3>1
      <4>2. Len(j.calls) >= 1
        BY <1>3, <3>1
      <4>3. \A i \in 2 .. Len(j.calls) : Fresh(p, j.calls[i])
        BY <1>3, <1>4, <2>1, <3>1
      <4> QED
        BY <3>1, <4>1, <4>2, <4>3 DEF Shape
    <3> QED
      BY <3>1, <3>2 DEF j
<1> QED
  BY <1>5 DEF calls

(* A process that closes the log loses its locks and keeps LogInv.         *)
LEMMA LogClosedKeeps ==
  ASSUME LogInv, NEW p \in Process, LogClosed(p), KidTypeOK',
         \A q \in Process \ {p} : Looped(q) => Looped(q)'
  PROVE  LogInv'
<1>1. /\ job' = [job EXCEPT ![p] = Idle] /\ locked' = [locked EXCEPT ![p] = {}]
      /\ text' = text /\ ofs' = ofs
  BY DEF LogClosed
<1>2. text' \in Seq(Entry \cup {Hole}) /\ ofs' \in [Server -> 0 .. LOGSZ - 1]
  BY <1>1 DEF LogInv, LogTypeOK
<1>3. Idle.at = "idle"
  BY DEF Idle
<1>4. {} \in SUBSET (1 .. LOGSZ)
  OBVIOUS
<1> QED
  BY <1>1, <1>2, <1>3, <1>4, IdleJob, JobChange

(* A process that begins a log call, and asks for the lock, keeps LogInv.  *)
LEMMA NewJobKeeps ==
  ASSUME LogInv, NEW p \in Process, NEW j \in JobType, job' = [job EXCEPT ![p] = j],
         UNCHANGED <<text, ofs, locked>>, KidTypeOK',
         Shape(p, j), Looped(p)' \/ Plain(p, j), j.at \in {"idle", "lock"},
         \A q \in Process \ {p} : Looped(q) => Looped(q)'
  PROVE  LogInv'
<1>1. /\ text' \in Seq(Entry \cup {Hole}) /\ ofs' \in [Server -> 0 .. LOGSZ - 1]
      /\ locked[p] \in SUBSET (1 .. LOGSZ) /\ locked' = [locked EXCEPT ![p] = locked[p]]
  BY DEF LogInv, LogTypeOK
<1>2. LOGSZ \in locked[p] => \A q \in Process \ {p} : ~Holds(q)
  BY DEF LogInv, Holds
<1> QED
  BY <1>1, <1>2, JobChange

(* A server that exits closes its log.                                     *)
LEMMA ExitKeepsLog ==
  ASSUME LogInv, LockInv, NEW s \in Server, Exit(s)
  PROVE  LogInv'
<1>1. KidTypeOK'
  <2>1. \A k \in Kid : \/ kid'[k] = kid[k]
                       \/ kid'[k] = [kid[k] EXCEPT !.st = "gone"] /\ kid[k].st = "zombie"
    BY DEF Exit, Zombies
  <2>2. kid' = [k \in Kid |-> kid'[k]]
    BY DEF Exit
  <2>3. KidTypeOK
    BY DEF LogInv, LogTypeOK
  <2>4. ASSUME NEW k \in Kid
        PROVE  /\ kid'[k] \in [st : {"none", "child", "program", "failed", "zombie", "gone"},
                               parent : Server \cup {Nobody}, err : {"no", "written", "logged"}]
               /\ kid'[k].st # "none" => kid'[k].parent \in Server
    BY <2>1, <2>3 DEF KidTypeOK
  <2> QED
    BY <2>2, <2>4 DEF KidTypeOK
<1>2. \A q \in Process \ {s} : Looped(q) => Looped(q)'
  BY DEF Exit, Goto, Looped, LockInv, LockTypeOK
<1> QED
  BY <1>1, <1>2, LogClosedKeeps DEF Exit, Process

(* log_init empties the log; no other server is in its loop then.          *)
LEMMA LogInitKeeps ==
  ASSUME LogInv, LockInv, NEW s \in Server, LogInit(s)
  PROVE  LogInv'
<1>1. /\ at[s] = "log"
      /\ text' = << >> /\ ofs' = [ofs EXCEPT ![s] = 0]
      /\ locked' = locked /\ kid' = kid /\ s \in Process
  BY DEF LogInit, LogOpen, Process
<1>2. /\ text' \in Seq(Entry \cup {Hole}) /\ ofs' \in [Server -> 0 .. LOGSZ - 1]
      /\ locked[s] \in SUBSET (1 .. LOGSZ) /\ locked' = [locked EXCEPT ![s] = locked[s]]
      /\ KidTypeOK'
  BY <1>1, LoggingAssumption DEF LogInv, LogTypeOK, KidTypeOK
<1>3. \A t \in Server \ {s} : ~Looped(t)
  BY <1>1 DEF LockInv, HoldsLock, Locked, Looped
<1>4. LOGSZ \in locked[s] => \A q \in Process \ {s} : ~Holds(q)
  BY <1>1 DEF LogInv, Holds
<1>5. \A q \in Process \ {s} : ~Looped(q)
  BY <1>3 DEF Looped
<1>6. CASE LogTaken(s)
  <2>1. job' = job /\ job' = [job EXCEPT ![s] = job[s]]
    BY <1>6 DEF LogInit, LogInv, LogTypeOK
  <2>2. Plain(s, job[s]) /\ Shape(s, job[s]) /\ job[s] \in JobType
    BY <1>1 DEF LogInv, LogTypeOK, Looped
  <2>3. job[s].at = "write" => Fresh(s, job[s].calls[1])
    BY <1>1, <2>2, PlainCalls
  <2>4. job[s].at \in {"write", "unlock"} => LOGSZ \in locked[s]
    BY <1>1 DEF LogInv, Holds
  <2> QED
    BY <1>1, <1>2, <1>3, <1>4, <1>5, <2>1, <2>2, <2>3, <2>4, JobChange
<1>7. CASE ~LogTaken(s)
  <2> DEFINE j == [at |-> "lock", from |-> 0, calls |-> LogLine(s)]
  <2>1. job' = [job EXCEPT ![s] = j]
    BY <1>7 DEF LogInit
  <2>2. j \in JobType /\ Shape(s, j) /\ Plain(s, j)
    BY <1>1, LineJob, LoggingAssumption
  <2>3. j.at = "lock"
    OBVIOUS
  <2> HIDE DEF j
  <2> QED
    BY <1>1, <1>2, <1>3, <1>4, <1>5, <2>1, <2>2, <2>3, JobChange
<1> QED
  BY <1>6, <1>7

(* Types of the children after one of them has changed.                    *)
LEMMA KidChange ==
  ASSUME KidTypeOK, NEW k \in Kid, NEW child, kid' = [kid EXCEPT ![k] = child],
         child \in [st : {"none", "child", "program", "failed", "zombie", "gone"},
                    parent : Server \cup {Nobody}, err : {"no", "written", "logged"}],
         child.parent \in Server
  PROVE  KidTypeOK'
BY DEF KidTypeOK

(* Types of the children after one has gone on to its next state.          *)
LEMMA ChildGoesOn ==
  ASSUME KidTypeOK, NEW k \in Kid, kid[k].st # "none",
         NEW st \in {"child", "program", "failed", "zombie", "gone"},
         kid' = [kid EXCEPT ![k].st = st]
  PROVE  KidTypeOK'
<1> DEFINE child == [kid[k] EXCEPT !.st = st]
<1>1. kid' = [kid EXCEPT ![k] = child]
  OBVIOUS
<1>2. /\ child \in [st : {"none", "child", "program", "failed", "zombie", "gone"},
                    parent : Server \cup {Nobody}, err : {"no", "written", "logged"}]
      /\ child.parent \in Server
  BY DEF KidTypeOK
<1> HIDE DEF child
<1> QED
  BY <1>1, <1>2, KidChange

(* A child that exits closes the log.                                      *)
LEMMA KidExitKeeps ==
  ASSUME LogInv, NEW k \in Kid, KidExit(k)
  PROVE  LogInv'
<1>1. KidTypeOK'
  <2>1. \E st \in {"zombie", "gone"} : kid' = [kid EXCEPT ![k].st = st]
    BY DEF KidExit
  <2>2. kid[k].st # "none"
    BY DEF KidExit
  <2> QED
    BY <2>1, <2>2, ChildGoesOn DEF LogInv, LogTypeOK
<1>2. \A q \in Process : Looped(q) => Looped(q)'
  BY DEF KidExit, childUnchanged, Looped
<1> QED
  BY <1>1, <1>2, LogClosedKeeps DEF KidExit, Process

(* A child whose execve fails begins a call of log_errln.                  *)
LEMMA KidExecFailKeeps ==
  ASSUME LogInv, NEW k \in Kid, KidExecFail(k)
  PROVE  LogInv'
<1> DEFINE n == ofs[kid[k].parent]
           j == [at |-> "lock", from |-> n, calls |-> LogLine(k)]
<1>1. kid[k].parent \in Server /\ k \in Process /\ n \in 0 .. LOGSZ - 1
  BY DEF KidExecFail, LogInv, LogTypeOK, KidTypeOK, Process
<1>2. KidTypeOK'
  BY ChildGoesOn DEF KidExecFail, LogInv, LogTypeOK
<1>3. job' = [job EXCEPT ![k] = j] /\ UNCHANGED <<text, ofs, locked, at>>
  BY DEF KidExecFail, Log, childUnchanged
<1>4. j.at = "lock"
  OBVIOUS
<1>5. j \in JobType /\ Shape(k, j) /\ Plain(k, j)
  BY <1>1, LineJob
<1>6. \A q \in Process : Looped(q) => Looped(q)'
  BY <1>3 DEF Looped
<1> HIDE DEF j
<1> QED
  BY <1>1, <1>2, <1>3, <1>4, <1>5, <1>6, NewJobKeeps

(* Each system call of a log call keeps LogInv.                            *)
LEMMA LogCallKeeps ==
  ASSUME LogInv, NEW p \in Process, LogCall(p)
  PROVE  LogInv'
<1> DEFINE d == Opener(p)
<1>1. LogStep(p, d) /\ at' = at /\ kid' = kid
  BY DEF LogCall
<1>2. d \in Server /\ (p \in Server => d = p)
  BY DEF LogCall, Opener, Process, LogInv, LogTypeOK, KidTypeOK
<1> HIDE DEF d
<1> QED
  BY <1>1, <1>2, LogLockKeeps, LogUnlockKeeps, LogWriteKeeps DEF LogStep

(* A server starts a log call, or gives one up.                            *)
LEMMA ServerLogKeeps ==
  ASSUME LogInv, LockInv, NEW s \in Server,
         (\E k \in Kid : LogCgi(s, k)) \/ ReturnChld(s) \/ HandleTerm(s) \/ LastLine(s)
  PROVE  LogInv'
<1>1. s \in Process /\ ofs[s] \in 0 .. LOGSZ - 1 /\ KidTypeOK
  BY DEF Process, LogInv, LogTypeOK
<1> DEFINE line == [at |-> "lock", from |-> ofs[s], calls |-> LogLine(s)]
           raw == [at |-> "lock", from |-> ofs[s], calls |-> LogLine(s) \o LogRaw(s)]
<1>2. line \in JobType /\ Shape(s, line) /\ Plain(s, line) /\ line.at = "lock"
  BY <1>1, LineJob
<1>3. raw \in JobType /\ Shape(s, raw) /\ raw.at = "lock"
  BY <1>1, RawJob
<1>4. ASSUME NEW k \in Kid, LogCgi(s, k) PROVE LogInv'
  <2>1. /\ job' = [job EXCEPT ![s] = raw] /\ UNCHANGED <<text, ofs, locked, at>>
        /\ at[s] = "loop"
    BY <1>4 DEF LogCgi, Log, Looping
  <2>2. KidTypeOK'
    BY <1>1, <1>4 DEF LogCgi, KidTypeOK
  <2>3. \A q \in Process : Looped(q) => Looped(q)'
    BY <2>1 DEF Looped
  <2>4. Looped(s)'
    BY <2>1 DEF Looped
  <2> HIDE DEF raw
  <2> QED
    BY <1>1, <1>3, <2>1, <2>2, <2>3, <2>4, NewJobKeeps
<1>5. CASE HandleTerm(s)
  <2>1. /\ job' = [job EXCEPT ![s] = Idle] /\ UNCHANGED <<text, ofs, locked, kid>>
        /\ at' = [at EXCEPT ![s] = "close"]
    BY <1>5 DEF HandleTerm, Goto
  <2>2. KidTypeOK'
    BY <1>1, <2>1 DEF KidTypeOK
  <2>3. \A q \in Process \ {s} : Looped(q) => Looped(q)'
    BY <2>1 DEF Looped, LockInv, LockTypeOK
  <2>4. Idle.at = "idle"
    BY DEF Idle
  <2> QED
    BY <1>1, <2>1, <2>2, <2>3, <2>4, IdleJob, NewJobKeeps
<1>6. CASE LastLine(s)
  <2>1. CASE s \in opened
    <3>1. /\ job' = [job EXCEPT ![s] = line] /\ UNCHANGED <<text, ofs, locked, kid>>
          /\ at' = [at EXCEPT ![s] = "stop"]
      BY <1>6, <2>1 DEF LastLine, Log, Goto
    <3>2. KidTypeOK'
      BY <1>1, <3>1 DEF KidTypeOK
    <3>3. \A q \in Process \ {s} : Looped(q) => Looped(q)'
      BY <3>1 DEF Looped, LockInv, LockTypeOK
    <3> HIDE DEF line
    <3> QED
      BY <1>1, <1>2, <3>1, <3>2, <3>3, NewJobKeeps
  <2>2. CASE s \notin opened
    BY <1>6, <2>2, ExitKeepsLog DEF LastLine
  <2> QED
    BY <2>1, <2>2
<1>7. CASE ReturnChld(s)
  <2>1. UNCHANGED <<text, ofs, locked, kid, at>>
    BY <1>7 DEF ReturnChld
  <2>2. KidTypeOK' /\ \A q \in Process : Looped(q) => Looped(q)'
    BY <1>1, <2>1 DEF KidTypeOK, Looped
  <2>3. CASE Log(s, s, LogLine(s))
    <3>1. job' = [job EXCEPT ![s] = line]
      BY <2>3 DEF Log
    <3> HIDE DEF line
    <3> QED
      BY <1>1, <1>2, <2>1, <2>2, <3>1, NewJobKeeps
  <2>4. CASE job' = [job EXCEPT ![s].from = IF job[s].at = "lock" THEN ofs[s] ELSE @]
    <3>1. CASE job[s].at = "lock"
      <4> DEFINE j == [job[s] EXCEPT !.from = ofs[s]]
      <4>1. job[s] \in JobType /\ Shape(s, job[s]) /\ (Looped(s) \/ Plain(s, job[s]))
        BY <1>1 DEF LogInv, LogTypeOK
      <4>2. job' = [job EXCEPT ![s] = j]
        BY <2>4, <3>1
      <4>3. j \in JobType /\ j.at = "lock" /\ j.calls = job[s].calls
        BY <1>1, <3>1, <4>1 DEF JobType
      <4>4. Shape(s, j) /\ (Looped(s)' \/ Plain(s, j))
        BY <2>2, <3>1, <4>1, <4>3, <1>1 DEF Shape, Plain
      <4> HIDE DEF j
      <4> QED
        BY <1>1, <2>1, <2>2, <4>2, <4>3, <4>4, NewJobKeeps
    <3>2. CASE job[s].at # "lock"
      <4>1. job' = job
        BY <1>1, <2>4, <3>2 DEF LogInv, LogTypeOK, JobType
      <4> QED
        BY <1>7, <2>1, <2>2, <4>1, LogUnchanged DEF ReturnChld, logVars
    <3> QED
      BY <3>1, <3>2
  <2> QED
    BY <1>7, <2>3, <2>4 DEF ReturnChld
<1> QED
  BY <1>4, <1>5, <1>6, <1>7

-----------------------------------------------------------------------------
(* Init, and every step                                                    *)

LEMMA LogInitiallyOK == Init => LogInv
<1> SUFFICES ASSUME Init PROVE LogInv
  OBVIOUS
<1>1. /\ text = << >> /\ ofs = [s \in Server |-> 0]
      /\ locked = [p \in Process |-> {}] /\ job = [p \in Process |-> Idle]
      /\ kid = [k \in Kid |-> NoKid]
  BY DEF Init, LogInitially
<1>2. KidTypeOK
  BY <1>1 DEF KidTypeOK, NoKid
<1>3. LogTypeOK
  BY <1>1, <1>2, IdleJob, LoggingAssumption DEF LogTypeOK
<1>4. Idle.at = "idle"
  BY DEF Idle
<1>5. \A p \in Process : job[p] = Idle /\ locked[p] = {}
  BY <1>1
<1>6. \A s \in Server : s \in Process
  BY DEF Process
<1> QED
  BY <1>3, <1>4, <1>5, <1>6, IdleJob DEF LogInv, Holds, Whole

(* Steps that leave the log alone.                                         *)
LEMMA QuietKeeps ==
  ASSUME LogInv, LockInv, NEW s \in Server,
         \/ OpenListener(s) \/ WritePid(s) \/ NewSslCtx(s) \/ LogInitFail(s)
         \/ HandleChld(s) \/ CloseListeners(s) \/ ReleaseLock(s)
         \/ Start(s) \/ SendTerm(s)
  PROVE  LogInv'
<1>1. UNCHANGED logVars /\ kid' = kid
  BY DEF OpenListener, WritePid, NewSslCtx, LogInitFail, HandleChld, CloseListeners,
         ReleaseLock, Start, SendTerm
<1>2. at' = at \/ (at[s] # "loop" /\ \E l : at' = [at EXCEPT ![s] = l])
  BY DEF OpenListener, WritePid, NewSslCtx, LogInitFail, HandleChld, CloseListeners,
         ReleaseLock, Start, SendTerm, Goto, Kinds
<1>3. \A p \in Process : Looped(p) => Looped(p)'
  BY <1>2 DEF Looped, LockInv, LockTypeOK
<1>4. KidTypeOK'
  BY <1>1 DEF LogInv, LogTypeOK, KidTypeOK
<1> QED
  BY <1>1, <1>3, <1>4, LogUnchanged

(* Steps that change a child and leave the log alone.                      *)
LEMMA QuietChildKeeps ==
  ASSUME LogInv, NEW s \in Server, NEW k \in Kid,
         Reap(s, k) \/ Fork(s, k) \/ KidExec(k) \/ KidErr(k)
  PROVE  LogInv'
<1>1. UNCHANGED logVars /\ at' = at
  BY DEF Reap, Fork, KidExec, KidErr, childUnchanged
<1>2. KidTypeOK
  BY DEF LogInv, LogTypeOK
<1>3. KidTypeOK'
  <2>1. CASE Reap(s, k)
    BY <1>2, <2>1, ChildGoesOn DEF Reap, Zombies
  <2>2. CASE Fork(s, k)
    <3> DEFINE child == [st |-> "child", parent |-> s, err |-> "no"]
    <3>1. kid' = [kid EXCEPT ![k] = child]
      BY <2>2 DEF Fork
    <3>2. /\ child \in [st : {"none", "child", "program", "failed", "zombie", "gone"},
                        parent : Server \cup {Nobody}, err : {"no", "written", "logged"}]
          /\ child.parent \in Server
      OBVIOUS
    <3> HIDE DEF child
    <3> QED
      BY <1>2, <3>1, <3>2, KidChange
  <2>3. CASE KidExec(k)
    BY <1>2, <2>3, ChildGoesOn DEF KidExec
  <2>4. CASE KidErr(k)
    <3> DEFINE child == [kid[k] EXCEPT !.err = "written"]
    <3>1. kid' = [kid EXCEPT ![k] = child]
      BY <2>4 DEF KidErr
    <3>2. /\ child \in [st : {"none", "child", "program", "failed", "zombie", "gone"},
                        parent : Server \cup {Nobody}, err : {"no", "written", "logged"}]
          /\ child.parent \in Server
      BY <1>2, <2>4 DEF KidErr, KidTypeOK
    <3> HIDE DEF child
    <3> QED
      BY <1>2, <3>1, <3>2, KidChange
  <2> QED
    BY <2>1, <2>2, <2>3, <2>4
<1>4. \A p \in Process : Looped(p) => Looped(p)'
  BY <1>1 DEF Looped
<1> QED
  BY <1>1, <1>3, <1>4, LogUnchanged

(* Every step of servers and children keeps LogInv.                        *)
LEMMA LogStepKeeps == LogInv /\ LockInv /\ [Next]_vars => LogInv'
<1> SUFFICES ASSUME LogInv, LockInv, [Next]_vars PROVE LogInv'
  OBVIOUS
<1>1. CASE UNCHANGED vars
  <2>1. UNCHANGED logVars /\ kid' = kid /\ at' = at
    BY <1>1 DEF vars
  <2> QED
    BY <2>1, LogUnchanged DEF LogInv, LogTypeOK, KidTypeOK, Looped
<1>2. ASSUME NEW s \in Server, ServerStep(s) PROVE LogInv'
  <2>1. CASE Daemonize(s)
    <3>1. CASE holder = Nobody
      <4>1. /\ UNCHANGED logVars /\ kid' = kid
            /\ at[s] = "lock" /\ at' = [at EXCEPT ![s] = "pid"]
        BY <2>1, <3>1 DEF Daemonize, Goto
      <4>2. \A p \in Process : Looped(p) => Looped(p)'
        BY <4>1 DEF Looped, LockInv, LockTypeOK
      <4> QED
        BY <4>1, <4>2, LogUnchanged DEF LogInv, LogTypeOK, KidTypeOK
    <3>2. CASE holder # Nobody
      BY <2>1, <3>2, ExitKeepsLog DEF Daemonize
    <3> QED
      BY <3>1, <3>2
  <2>2. CASE DefaultTerm(s) \/ DoubleFree(s) \/ Stop(s)
    BY <2>2, ExitKeepsLog DEF DefaultTerm, DoubleFree, Stop
  <2>3. CASE LogCall(s)
    BY <2>3, LogCallKeeps DEF Process
  <2> QED
    BY <1>2, <2>1, <2>2, <2>3, QuietKeeps, QuietChildKeeps, ServerLogKeeps, LogInitKeeps
       DEF ServerStep
<1>3. ASSUME NEW k \in Kid, KidStep(k) \/ KidErr(k) PROVE LogInv'
  <2>1. CASE KidExec(k) \/ KidErr(k)
    <3>1. kid[k].st # "none"
      BY <2>1 DEF KidExec, KidErr
    <3>2. kid[k].parent \in Server
      BY <3>1 DEF LogInv, LogTypeOK, KidTypeOK
    <3> QED
      BY <2>1, <3>2, QuietChildKeeps
  <2>2. CASE LogCall(k)
    BY <2>2, LogCallKeeps DEF Process
  <2> QED
    BY <1>3, <2>1, <2>2, KidExecFailKeeps, KidExitKeeps DEF KidStep
<1>4. ASSUME NEW s \in Server,
             Start(s) \/ SendTerm(s) \/ Kill(s) \/ \E k \in Kid : Fork(s, k)
      PROVE  LogInv'
  BY <1>4, QuietKeeps, QuietChildKeeps, ExitKeepsLog DEF Kill
<1> QED
  BY <1>1, <1>2, <1>3, <1>4 DEF Next, Outside

(* LogInv holds in every state: whoever writes to the log has its end      *)
(* locked, and nobody else has (logging.c, lock and unlock).               *)
THEOREM LogInvariant == Spec => []LogInv
<1>1. Init => LockInv /\ LogInv
  BY LockInitially, LogInitiallyOK
<1>2. LockInv /\ LogInv /\ [Next]_vars => (LockInv /\ LogInv)'
  BY LockStep, LogStepKeeps
<1> QED
  BY <1>1, <1>2, PTL DEF Spec

(* What log_raw writes stays in one piece (logging.h: "Supports mutex"),   *)
(* for any number of servers and children that log at the same time.       *)
THEOREM LogStaysWhole == Spec => []LogWhole
<1>1. ASSUME LogInv, NEW p \in Process, job[p].at = "write",
             job[p].calls[1][1] = Write(p, "end")
      PROVE  /\ ofs[Opener(p)] \in 1 .. Len(text)
             /\ text[ofs[Opener(p)]] = Write(p, "data")
  <2>1. job[p] \in JobType /\ Shape(p, job[p]) /\ (Looped(p) \/ Plain(p, job[p]))
    BY <1>1 DEF LogInv, LogTypeOK
  <2>2. job[p].calls[1] = << Write(p, "end") >>
    BY <1>1, <2>1 DEF Shape, Fresh, Write
  <2>3. Looped(p)
    BY <1>1, <2>1, <2>2, PlainCalls
  <2> QED
    BY <1>1, <2>2, <2>3 DEF LogInv, Whole, Looped, Opener
<1>2. LogInv => LogWhole
  BY <1>1 DEF LogWhole
<1> QED
  BY <1>2, LogInvariant, PTL

-----------------------------------------------------------------------------
(* The children                                                            *)

Handling == {"unset", "no", "yes", "never"}
Before(s) == at[s] \in {"off", "http", "https", "lock", "pid", "ssl"}

(* A handler is installed behind new_ssl_ctx, and cut short by teardown    *)
(* only; who is a zombie has a parent that runs.                           *)
ChldInv ==
  /\ at \in [Server -> Label]
  /\ handling \in [Server -> Handling]
  /\ sigchld \subseteq Server
  /\ \A s \in Server : Before(s) => handling[s] = "unset"
  /\ \A s \in Server : handling[s] = "never" => Ending(s) \/ at[s] = "dead"
  /\ \A k \in Kid : kid[k].st = "zombie" => Alive(kid[k].parent)
  /\ ZombiesNoticed

(* Nobody has children at the start.                                       *)
LEMMA ChldInitially == Init => ChldInv
<1> SUFFICES ASSUME Init PROVE ChldInv
  OBVIOUS
<1>1. \A k \in Kid : kid[k].st # "zombie"
  BY DEF Init, NoKid
<1> QED
  BY <1>1 DEF Init, ChldInv, ZombiesNoticed, Zombies, Label, Handling, Before

(* A server that goes on without touching signals or children: it does not *)
(* leave teardown, and has its handlers once it is past new_ssl_ctx.       *)
LEMMA GotoKeepsChld ==
  ASSUME KidTypeOK, ChldInv, NEW s \in Server, NEW l \in Label,
         at' = [at EXCEPT ![s] = l], UNCHANGED <<handling, sigchld, kid>>,
         l \in {"off", "http", "https", "lock", "pid", "ssl"} => Before(s),
         Ending(s) => l \in {"close", "release", "last_line", "stop"},
         l \notin {"off", "dead"}, at[s] # "dead"
  PROVE  ChldInv'
<1>1. \A t \in Server \ {s} : at'[t] = at[t]
  BY DEF ChldInv
<1>2. at'[s] = l /\ at' \in [Server -> Label]
  BY DEF ChldInv
<1>3. \A t \in Server : Zombies(t)' = Zombies(t)
  BY DEF Zombies
<1>4. \A t \in Server : Zombies(t) # {} => Alive(t)
  BY DEF Zombies, ChldInv
<1>5. ASSUME NEW k \in Kid, kid'[k].st = "zombie" PROVE (Alive(kid[k].parent))'
  <2>1. Alive(kid[k].parent) /\ kid[k].parent \in Server
    BY <1>5 DEF ChldInv, KidTypeOK
  <2> QED
    BY <1>1, <1>2, <2>1 DEF Alive
<1>6. \A t \in Server : Before(t)' => handling'[t] = "unset"
  BY <1>1, <1>2 DEF Before, ChldInv
<1>7. \A t \in Server : handling'[t] = "never" => Ending(t)' \/ at'[t] = "dead"
  BY <1>1, <1>2 DEF Ending, ChldInv
<1>8. ZombiesNoticed'
  BY <1>1, <1>2, <1>3, <1>4 DEF ZombiesNoticed, Ending, ChldInv
<1> QED
  BY <1>2, <1>5, <1>6, <1>7, <1>8 DEF ChldInv

(* init reaps the children of a server that ends.                          *)
LEMMA ExitKeepsChld ==
  ASSUME KidTypeOK, ChldInv, NEW s \in Server, Exit(s)
  PROVE  ChldInv'
<1>1. /\ at' = [at EXCEPT ![s] = "dead"] /\ handling' = handling
      /\ sigchld' = sigchld \ {s}
      /\ kid' = [k \in Kid |-> IF k \in Zombies(s) THEN [kid[k] EXCEPT !.st = "gone"]
                               ELSE kid[k]]
  BY DEF Exit, Goto
<1>2. at' \in [Server -> Label] /\ at'[s] = "dead" /\ \A t \in Server \ {s} : at'[t] = at[t]
  BY <1>1 DEF ChldInv, Label
<1>3. \A k \in Kid : kid'[k].st = "zombie" =>
        kid'[k] = kid[k] /\ kid[k].parent # s
  <2> SUFFICES ASSUME NEW k \in Kid, kid'[k].st = "zombie"
               PROVE  kid'[k] = kid[k] /\ kid[k].parent # s
    OBVIOUS
  <2>1. k \notin Zombies(s)
    BY <1>1 DEF KidTypeOK
  <2> QED
    BY <1>1, <2>1 DEF Zombies
<1>4. ASSUME NEW k \in Kid, kid'[k].st = "zombie" PROVE (Alive(kid[k].parent))'
  <2>1. /\ kid'[k] = kid[k] /\ kid[k].parent # s
        /\ Alive(kid[k].parent) /\ kid[k].parent \in Server
    BY <1>3, <1>4 DEF ChldInv, KidTypeOK
  <2> QED
    BY <1>2, <2>1 DEF Alive
<1>5. \A t \in Server \ {s} : Zombies(t)' \subseteq Zombies(t)
  BY <1>3 DEF Zombies
<1>6. ZombiesNoticed'
  BY <1>1, <1>2, <1>5 DEF ZombiesNoticed, Ending, Alive, ChldInv
<1>7. \A t \in Server : Before(t)' => handling'[t] = "unset"
  BY <1>1, <1>2 DEF Before, ChldInv
<1>8. \A t \in Server : handling'[t] = "never" => Ending(t)' \/ at'[t] = "dead"
  BY <1>1, <1>2 DEF Ending, ChldInv
<1> QED
  BY <1>1, <1>2, <1>4, <1>6, <1>7, <1>8 DEF ChldInv

(* A step that leaves the servers where they are, and the handlers and     *)
(* their signals alone, makes no zombie.                                   *)
LEMMA StillKeepsChld ==
  ASSUME KidTypeOK, KidTypeOK', ChldInv, UNCHANGED <<at, handling, sigchld>>,
         \A k \in Kid : kid'[k].st = "zombie" =>
           kid[k].st = "zombie" /\ kid[k].parent = kid'[k].parent
  PROVE  ChldInv'
<1>1. \A s \in Server : Zombies(s)' \subseteq Zombies(s)
  BY DEF Zombies
<1>2. ASSUME NEW k \in Kid, kid'[k].st = "zombie" PROVE (Alive(kid[k].parent))'
  <2>1. kid'[k].parent = kid[k].parent /\ Alive(kid[k].parent)
    BY <1>2 DEF ChldInv
  <2> QED
    BY <2>1 DEF Alive
<1>3. ZombiesNoticed'
  BY <1>1 DEF ZombiesNoticed, ChldInv, Alive, Ending
<1> QED
  BY <1>2, <1>3 DEF ChldInv, Before, Ending

(* A child that exits leaves a SIGCHLD with a server that is there.        *)
LEMMA KidExitKeepsChld ==
  ASSUME KidTypeOK, KidTypeOK', ChldInv, NEW k \in Kid, KidExit(k)
  PROVE  ChldInv'
<1> DEFINE p == kid[k].parent
           st == IF Alive(p) THEN "zombie" ELSE "gone"
<1>1. /\ at' = at /\ handling' = handling /\ p \in Server
      /\ kid' = [kid EXCEPT ![k].st = st]
      /\ sigchld' = IF Alive(p) THEN sigchld \cup {p} ELSE sigchld
  BY DEF KidExit, childUnchanged, KidTypeOK
<1>2. /\ kid'[k].st = st /\ kid'[k].parent = p
      /\ \A j \in Kid \ {k} : kid'[j] = kid[j]
  BY <1>1 DEF KidTypeOK
<1>3. \A s \in Server : s # p \/ ~Alive(p) => Zombies(s)' \subseteq Zombies(s)
  BY <1>2 DEF Zombies
<1>4. ASSUME NEW j \in Kid, kid'[j].st = "zombie" PROVE (Alive(kid[j].parent))'
  <2>1. kid'[j].parent = kid[j].parent /\ Alive(kid[j].parent)
    BY <1>2, <1>4 DEF ChldInv
  <2> QED
    BY <1>1, <2>1 DEF Alive
<1>5. ZombiesNoticed'
  <2> SUFFICES ASSUME NEW s \in Server, Alive(s), Zombies(s)' # {}
               PROVE  \/ s \in sigchld' \/ handling[s] = "yes"
                      \/ handling[s] = "never" /\ Ending(s)
    BY <1>1 DEF ZombiesNoticed, Alive, Ending
  <2>1. CASE s = p
    BY <1>1, <2>1
  <2>2. CASE s # p
    BY <1>1, <1>3, <2>2 DEF ChldInv, ZombiesNoticed
  <2> QED
    BY <2>1, <2>2
<1> QED
  BY <1>1, <1>4, <1>5 DEF ChldInv, Before, Ending

(* SIGTERM: teardown takes the place of what the server was doing.         *)
LEMMA HandleTermKeepsChld ==
  ASSUME KidTypeOK, ChldInv, NEW s \in Server, HandleTerm(s)
  PROVE  ChldInv'
<1> DEFINE h == IF handling[s] = "yes" THEN "never" ELSE handling[s]
<1>1. /\ at' = [at EXCEPT ![s] = "close"] /\ handling' = [handling EXCEPT ![s] = h]
      /\ sigchld' = sigchld /\ kid' = kid /\ Alive(s) /\ handling[s] # "unset"
  BY DEF HandleTerm, Goto
<1>2. /\ at'[s] = "close" /\ at' \in [Server -> Label]
      /\ handling'[s] = h /\ handling' \in [Server -> Handling]
      /\ \A t \in Server \ {s} : at'[t] = at[t] /\ handling'[t] = handling[t]
  BY <1>1 DEF ChldInv, Label, Handling
<1>3. ASSUME NEW k \in Kid, kid'[k].st = "zombie" PROVE (Alive(kid[k].parent))'
  <2>1. Alive(kid[k].parent) /\ kid[k].parent \in Server
    BY <1>1, <1>3 DEF ChldInv, KidTypeOK
  <2> QED
    BY <1>1, <1>2, <2>1 DEF Alive
<1>4. \A t \in Server : Before(t)' => handling'[t] = "unset"
  BY <1>2 DEF Before, ChldInv
<1>5. \A t \in Server : handling'[t] = "never" => Ending(t)' \/ at'[t] = "dead"
  BY <1>2 DEF Ending, ChldInv
<1>6. ZombiesNoticed'
  <2> SUFFICES ASSUME NEW t \in Server, Alive(t)', Zombies(t) # {}
               PROVE  \/ t \in sigchld \/ handling'[t] = "yes"
                      \/ handling'[t] = "never" /\ Ending(t)'
    BY <1>1 DEF ZombiesNoticed, Zombies
  <2>1. CASE t = s
    BY <1>1, <1>2, <2>1 DEF ChldInv, ZombiesNoticed, Ending
  <2>2. CASE t # s
    BY <1>2, <2>2 DEF ChldInv, ZombiesNoticed, Ending, Alive
  <2> QED
    BY <2>1, <2>2
<1> QED
  BY <1>1, <1>2, <1>3, <1>4, <1>5, <1>6 DEF ChldInv

(* The handler begins when a SIGCHLD is taken, returns when no zombie is   *)
(* left, and is installed by a server that has no child yet.               *)
LEMMA HandlerKeepsChld ==
  ASSUME KidTypeOK, ChldInv, NEW s \in Server,
         HandleChld(s) \/ ReturnChld(s) \/ NewSslCtx(s)
  PROVE  ChldInv'
<1>1. CASE HandleChld(s) \/ ReturnChld(s)
  <2>1. /\ at' = at /\ kid' = kid /\ sigchld' \subseteq sigchld
        /\ \A t \in Server \ {s} : t \in sigchld => t \in sigchld'
        /\ \E h \in {"yes", "no"} : handling' = [handling EXCEPT ![s] = h]
    BY <1>1 DEF HandleChld, ReturnChld
  <2>2. /\ handling' \in [Server -> Handling] /\ handling'[s] \in {"yes", "no"}
        /\ \A t \in Server \ {s} : handling'[t] = handling[t]
    BY <2>1 DEF ChldInv, Handling
  <2>3. ~Before(s)
    BY <1>1 DEF HandleChld, ReturnChld, ChldInv
  <2>4. Zombies(s) # {} => handling'[s] = "yes"
    BY <1>1, <2>2 DEF HandleChld, ReturnChld, ChldInv
  <2>5. ASSUME NEW k \in Kid, kid'[k].st = "zombie" PROVE (Alive(kid[k].parent))'
    <3>1. Alive(kid[k].parent)
      BY <2>1, <2>5 DEF ChldInv
    <3> QED
      BY <2>1, <3>1 DEF Alive
  <2>6. ZombiesNoticed'
    BY <2>1, <2>2, <2>4 DEF ZombiesNoticed, Zombies, Alive, Ending, ChldInv
  <2> QED
    BY <2>1, <2>2, <2>3, <2>5, <2>6 DEF ChldInv, Before, Ending
<1>2. CASE NewSslCtx(s)
  <2>1. handling[s] = "unset" /\ at[s] = "ssl"
    BY <1>2 DEF NewSslCtx, ChldInv, Before
  <2>2. CASE at' = [at EXCEPT ![s] = "close"] /\ handling' = handling
    BY <1>2, <2>1, <2>2, GotoKeepsChld DEF NewSslCtx, Ending, Label
  <2>3. CASE at' = [at EXCEPT ![s] = "log"] /\ handling' = [handling EXCEPT ![s] = "no"]
    <3>1. sigchld' = sigchld /\ kid' = kid
      BY <1>2 DEF NewSslCtx
    <3>2. /\ at'[s] = "log" /\ at' \in [Server -> Label]
          /\ handling'[s] = "no" /\ handling' \in [Server -> Handling]
          /\ \A t \in Server \ {s} : at'[t] = at[t] /\ handling'[t] = handling[t]
      BY <2>3 DEF ChldInv, Label, Handling
    <3>3. ASSUME NEW k \in Kid, kid'[k].st = "zombie" PROVE (Alive(kid[k].parent))'
      <4>1. Alive(kid[k].parent) /\ kid[k].parent \in Server
        BY <3>1, <3>3 DEF ChldInv, KidTypeOK
      <4> QED
        BY <3>1, <3>2, <4>1 DEF Alive
    <3>4. \A t \in Server : Before(t)' => handling'[t] = "unset"
      BY <3>2 DEF Before, ChldInv
    <3>5. \A t \in Server : handling'[t] = "never" => Ending(t)' \/ at'[t] = "dead"
      BY <3>2 DEF Ending, ChldInv
    <3>6. ZombiesNoticed'
      <4>1. Alive(s) /\ ~Ending(s)
        BY <2>1 DEF Alive, Ending
      <4> QED
        BY <2>1, <3>1, <3>2, <4>1 DEF ZombiesNoticed, Zombies, Alive, Ending, ChldInv
    <3> QED
      BY <3>1, <3>2, <3>3, <3>4, <3>5, <3>6 DEF ChldInv
  <2> QED
    BY <1>2, <2>2, <2>3 DEF NewSslCtx, Goto
<1> QED
  BY <1>1, <1>2

(* Every step of servers and children keeps ChldInv.                       *)
LEMMA ChldStep ==
  ASSUME KidTypeOK, KidTypeOK', ChldInv, [Next]_vars
  PROVE  ChldInv'
<1> USE DEF Label
<1>1. CASE UNCHANGED vars
  BY <1>1, StillKeepsChld DEF vars, sigVars
<1>2. ASSUME NEW s \in Server, ServerStep(s) PROVE ChldInv'
  <2>1. CASE OpenListener(s) \/ WritePid(s) \/ CloseListeners(s) \/ ReleaseLock(s)
    BY <2>1, GotoKeepsChld DEF OpenListener, WritePid, CloseListeners, ReleaseLock, Goto,
                               sigVars, Kinds, Before, Ending
  <2>2. CASE LogInit(s) \/ LogInitFail(s)
    BY <2>2, GotoKeepsChld DEF LogInit, LogInitFail, Goto, sigVars, Before, Ending
  <2>3. CASE Daemonize(s)
    <3>1. CASE holder = Nobody
      BY <2>3, <3>1, GotoKeepsChld DEF Daemonize, Goto, sigVars, Before, Ending
    <3>2. CASE holder # Nobody
      BY <2>3, <3>2, ExitKeepsChld DEF Daemonize
    <3> QED
      BY <3>1, <3>2
  <2>4. CASE LogCall(s)
    BY <2>4, StillKeepsChld DEF LogCall, sigVars
  <2>5. ASSUME NEW k \in Kid, LogCgi(s, k) \/ Reap(s, k) PROVE ChldInv'
    <3>1. UNCHANGED <<at, handling, sigchld>>
      BY <2>5 DEF LogCgi, Reap, sigVars
    <3>2. \A j \in Kid : kid'[j].st = "zombie" =>
            kid[j].st = "zombie" /\ kid[j].parent = kid'[j].parent
      BY <2>5 DEF LogCgi, Reap, KidTypeOK
    <3> QED
      BY <3>1, <3>2, StillKeepsChld
  <2>6. CASE DefaultTerm(s) \/ DoubleFree(s) \/ Stop(s)
    BY <2>6, ExitKeepsChld DEF DefaultTerm, DoubleFree, Stop
  <2>7. CASE LastLine(s)
    <3>1. CASE s \in opened
      BY <2>7, <3>1, GotoKeepsChld DEF LastLine, Goto, sigVars, Before, Ending
    <3>2. CASE s \notin opened
      BY <2>7, <3>2, ExitKeepsChld DEF LastLine
    <3> QED
      BY <3>1, <3>2
  <2> QED
    BY <1>2, <2>1, <2>2, <2>3, <2>4, <2>5, <2>6, <2>7, HandleTermKeepsChld,
       HandlerKeepsChld DEF ServerStep
<1>3. ASSUME NEW k \in Kid, KidStep(k) \/ KidErr(k) PROVE ChldInv'
  <2>1. CASE KidExec(k) \/ KidExecFail(k) \/ LogCall(k) \/ KidErr(k)
    <3>1. UNCHANGED <<at, handling, sigchld>>
      BY <2>1 DEF KidExec, KidExecFail, LogCall, KidErr, childUnchanged, sigVars
    <3>2. \A j \in Kid : kid'[j].st = "zombie" =>
            kid[j].st = "zombie" /\ kid[j].parent = kid'[j].parent
      BY <2>1 DEF KidExec, KidExecFail, LogCall, KidErr, KidTypeOK
    <3> QED
      BY <3>1, <3>2, StillKeepsChld
  <2>2. CASE KidExit(k)
    BY <2>2, KidExitKeepsChld
  <2> QED
    BY <1>3, <2>1, <2>2 DEF KidStep
<1>4. ASSUME NEW s \in Server, Start(s) \/ SendTerm(s) \/ Kill(s) PROVE ChldInv'
  <2>1. CASE Start(s)
    BY <2>1, GotoKeepsChld DEF Start, Goto, sigVars, Before, Ending
  <2>2. CASE SendTerm(s)
    BY <2>2, StillKeepsChld DEF SendTerm
  <2>3. CASE Kill(s)
    BY <2>3, ExitKeepsChld DEF Kill
  <2> QED
    BY <1>4, <2>1, <2>2, <2>3
<1>5. ASSUME NEW s \in Server, NEW k \in Kid, Fork(s, k) PROVE ChldInv'
  <2>1. UNCHANGED <<at, handling, sigchld>>
    BY <1>5 DEF Fork, sigVars
  <2>2. \A j \in Kid : kid'[j].st = "zombie" =>
          kid[j].st = "zombie" /\ kid[j].parent = kid'[j].parent
    BY <1>5 DEF Fork, KidTypeOK
  <2> QED
    BY <2>1, <2>2, StillKeepsChld
<1> QED
  BY <1>1, <1>2, <1>3, <1>4, <1>5 DEF Next, Outside

(* However many children exit, together or while the handler runs, and     *)
(* whenever SIGTERM comes: a zombie of a running server has a SIGCHLD or   *)
(* the handler still to come, until teardown (lisod.c, signal_handler).    *)
THEOREM NoZombieIsForgotten == Spec => []ZombiesNoticed
<1>1. Init => LockInv /\ LogInv /\ ChldInv
  BY LockInitially, LogInitiallyOK, ChldInitially
<1>2. ASSUME LockInv, LogInv, ChldInv, [Next]_vars
      PROVE  LockInv' /\ LogInv' /\ ChldInv'
  <2>1. LockInv' /\ LogInv'
    BY <1>2, LockStep, LogStepKeeps
  <2>2. KidTypeOK /\ KidTypeOK'
    BY <1>2, <2>1 DEF LogInv, LogTypeOK
  <2> QED
    BY <1>2, <2>1, <2>2, ChldStep
<1>3. ChldInv => ZombiesNoticed
  BY DEF ChldInv
<1> QED
  BY <1>1, <1>2, <1>3, PTL DEF Spec
=============================================================================
