------------------------------ MODULE PoolProofs ------------------------------
(***************************************************************************)
(* The loop of main over the pool implements PoolRounds, for every set of  *)
(* clients and every value of the bounds: under the refinement mapping of  *)
(* LisoProperties each step of the server, of a client or of a program is  *)
(* a step of the abstract rounds or leaves them as they are.               *)
(***************************************************************************)
EXTENDS LisoProofs, FiniteSetTheorems

-----------------------------------------------------------------------------
(* The array and the set of its members                                    *)

(* n_conns counts the members: the array holds each of them once.          *)
LEMMA MembersCounted ==
  ASSUME CoreType, PoolIndexed
  PROVE  Cardinality(Members) = Len(conns)
<1> DEFINE n == Len(conns)
<1>1. conns \in Seq(Client) /\ n \in Nat /\ conns \in [1 .. n -> Client]
  BY DEF CoreType, PoolTypeOK
<1>2. \A i \in 1 .. n : conns[i] \in Members
  BY <1>1 DEF PoolIndexed, Members
<1>3. conns \in [1 .. n -> Members]
  BY <1>1, <1>2
<1>4. \A i, j \in 1 .. n : conns[i] = conns[j] => i = j
  BY DEF PoolIndexed
<1>5. \A c \in Members : \E i \in 1 .. n : conns[i] = c
  BY DEF PoolIndexed, Members
<1> HIDE DEF n
<1>6. conns \in Bijection(1 .. n, Members)
  BY <1>3, <1>4, <1>5 DEF Bijection, Injection, Surjection, IsInjective
<1>7. ExistsBijection(1 .. n, Members)
  BY <1>6 DEF ExistsBijection
<1> QED
  BY <1>1, <1>7, FS_CountingElements DEF n

(* The array from place k on.                                              *)
From(k) == {conns[i] : i \in k .. Len(conns)}

(* The connection at cur is not among those behind it.                     *)
LEMMA FromFacts ==
  ASSUME CoreType, PoolIndexed, cur <= Len(conns)
  PROVE  /\ conn \in Client /\ conn \in Members
         /\ From(cur + 1) = From(cur) \ {conn} /\ conn \in From(cur)
<1>1. cur \in Nat \ {0} /\ Len(conns) \in Nat /\ conns \in Seq(Client)
  BY DEF CoreType, PoolTypeOK
<1>2. conn \in Client /\ fd[conn] # NoFd
  BY ConnFacts DEF NoFd
<1>3. \A i \in cur .. Len(conns) : conns[i] = conn => i = cur
  BY <1>1 DEF PoolIndexed, conn
<1>4. \A i : i \in cur .. Len(conns) <=> i = cur \/ i \in cur + 1 .. Len(conns)
  BY <1>1
<1>5. cur \notin cur + 1 .. Len(conns)
  BY <1>1
<1> QED
  BY <1>2, <1>3, <1>4, <1>5 DEF From, Members, conn

(* Those who are visited in this pass, by pc.                              *)
LEMMA TodoFrom ==
  /\ ~Serving => Todo = {} /\ Turn = {}
  /\ pc = "recv" => Serving /\ Todo = From(cur) /\ Turn = {}
  /\ Serving /\ pc # "recv" => Todo = From(cur + 1) /\ Turn = {conn}
BY DEF Todo, Turn, From, Serving, conn

(* The variables of the rounds depend on nothing else.                     *)
LEMMA RoundsKept ==
  ASSUME UNCHANGED <<pc, cur, conns, fd>>
  PROVE  UNCHANGED Rounds!vars
BY DEF Rounds!vars, RoundPhase, Members, Todo, Turn, Serving

-----------------------------------------------------------------------------
(* The steps of the loop                                                   *)

(* A handler goes on with the connection it visits.                        *)
StayStep ==
  /\ Serving /\ cur <= Len(conns)
  /\ pc' \in Labels \ {"select", "accept", "accept_ssl", "recv"}
  /\ UNCHANGED <<conns, cur, fd>>

(* A handler that neither ends its turn nor drops its connection is a      *)
(* stutter of the rounds, or the call of the connection whose turn it is.  *)
LEMMA StayRounds ==
  ASSUME CoreType, PoolIndexed, StayStep
  PROVE  [Rounds!Next]_Rounds!vars
<1>1. /\ Serving /\ Serving' /\ pc' # "recv" /\ UNCHANGED Members
      /\ conn' = conn /\ From(cur + 1)' = From(cur + 1)
  BY DEF StayStep, Serving, Members, conn, From
<1>2. RoundPhase = "serve" /\ RoundPhase' = "serve"
  BY <1>1 DEF RoundPhase, Serving
<1>3. Todo' = From(cur + 1) /\ Turn' = {conn}
  BY <1>1 DEF Todo, Turn, From, conn
<1>4. CASE pc = "recv"
  <2>1. conn \in Client /\ conn \in Todo /\ Turn = {} /\ Todo' = Todo \ {conn}
    BY <1>3, <1>4, FromFacts, TodoFrom DEF StayStep
  <2>2. Rounds!Call(conn)
    BY <1>1, <1>2, <1>3, <2>1 DEF Rounds!Call
  <2> QED
    BY <2>1, <2>2 DEF Rounds!Next
<1>5. CASE pc # "recv"
  BY <1>1, <1>2, <1>3, <1>5, TodoFrom DEF Rounds!vars
<1> QED
  BY <1>4, <1>5

(* The connection visited is dropped: the last of the array takes its      *)
(* place, and it is this place that is visited next.                       *)
LEMMA DropRounds ==
  ASSUME CoreType, PoolIndexed, DropStep
  PROVE  [Rounds!Next]_Rounds!vars
<1>1. /\ Serving /\ cur <= Len(conns) /\ cur \in Nat \ {0} /\ Len(conns) \in Nat
      /\ pc' = "recv" /\ cur' = cur
      /\ conns' = DelConns(conn) /\ idx' = DelIdx(conn) /\ fd' = [fd EXCEPT ![conn] = NoFd]
  BY DEF DropStep, DropConn, Revisit, loopVars, Serving, CoreType, PoolTypeOK
<1>2. conn \in Client /\ idx[conn] = cur /\ fd[conn] # NoFd /\ fd \in [Client -> Fd \cup {NoFd}]
  BY <1>1, ConnFacts DEF CoreType, PoolTypeOK
<1>3. /\ Len(conns') = Len(conns) - 1
      /\ \A j \in 1 .. Len(conns) - 1 :
           conns'[j] = IF j = cur THEN conns[Len(conns)] ELSE conns[j]
  BY <1>1, <1>2, SwapFacts DEF DelConns
<1>4. Members' = Members \ {conn}
  BY <1>1, <1>2 DEF Members
<1>5. From(cur)' = From(cur + 1)
  <2>1. ASSUME NEW i \in cur .. Len(conns) - 1 PROVE conns'[i] \in From(cur + 1)
    <3>1. i \in 1 .. Len(conns) - 1
      BY <1>1
    <3>2. CASE i = cur
      <4>1. Len(conns) \in cur + 1 .. Len(conns)
        BY <1>1, <2>1, <3>2
      <4> QED
        BY <1>3, <3>1, <3>2, <4>1 DEF From
    <3>3. CASE i # cur
      <4>1. i \in cur + 1 .. Len(conns)
        BY <1>1, <3>3
      <4> QED
        BY <1>3, <3>1, <3>3, <4>1 DEF From
    <3> QED
      BY <3>2, <3>3
  <2>2. ASSUME NEW i \in cur + 1 .. Len(conns)
        PROVE  \E j \in cur .. Len(conns) - 1 : conns'[j] = conns[i]
    <3>1. CASE i = Len(conns)
      <4>1. cur \in 1 .. Len(conns) - 1 /\ cur \in cur .. Len(conns) - 1
        BY <1>1, <2>2, <3>1
      <4> QED
        BY <1>3, <3>1, <4>1
    <3>2. CASE i # Len(conns)
      <4>1. i \in 1 .. Len(conns) - 1 /\ i \in cur .. Len(conns) - 1 /\ i # cur
        BY <1>1, <3>2
      <4> QED
        BY <1>3, <4>1
    <3> QED
      BY <3>1, <3>2
  <2>3. From(cur)' = {conns'[i] : i \in cur .. Len(conns) - 1}
    BY <1>1, <1>3 DEF From
  <2> QED
    BY <2>1, <2>2, <2>3 DEF From
<1>6. Serving' /\ Todo' = From(cur + 1) /\ Turn' = {}
  BY <1>1, <1>5 DEF Serving, Todo, Turn, From
<1>7. RoundPhase = "serve" /\ RoundPhase' = "serve"
  BY <1>1, <1>6 DEF RoundPhase, Serving
<1>8. conn \notin From(cur + 1) /\ conn \in From(cur) /\ From(cur + 1) = From(cur) \ {conn}
  BY <1>1, FromFacts
<1>9. Rounds!Leave(conn)
  <2>1. CASE pc = "recv"
    BY <1>4, <1>6, <1>7, <1>8, <2>1, TodoFrom DEF Rounds!Leave
  <2>2. CASE pc # "recv"
    BY <1>1, <1>4, <1>6, <1>7, <1>8, <2>2, TodoFrom DEF Rounds!Leave
  <2> QED
    BY <2>1, <2>2
<1> QED
  BY <1>2, <1>9 DEF Rounds!Next

(* Who is accepted joins the pool; after the second listener the visits    *)
(* begin with all those in the array.                                      *)
LEMMA AcceptRounds ==
  ASSUME CoreType, PoolIndexed, CoreType', PoolIndexed',
         AcceptSkip \/ AcceptRefuse \/ AcceptConn
  PROVE  [Rounds!Next]_Rounds!vars
<1> USE DEF loopVars, poolVars, fdVars
<1>1. pc \in {"accept", "accept_ssl"} /\ AfterAccept
  BY DEF AcceptSkip, AcceptRefuse, AcceptConn, Accepting
<1>2. ~Serving /\ RoundPhase = "join" /\ Todo = {} /\ Turn = {}
  BY <1>1 DEF Serving, RoundPhase, Todo, Turn
<1>3. Rounds!Admit
  <2>1. CASE AcceptSkip \/ AcceptRefuse
    BY <2>1 DEF AcceptSkip, AcceptRefuse, Members, Rounds!Admit
  <2>2. CASE AcceptConn
    <3>1. PICK c \in Waiting(Listener), f \in FreeFds :
            /\ Len(conns) < MAX_CONNS
            /\ conns' = Append(conns, c)
            /\ fd' = [fd EXCEPT ![c] = f]
      BY <2>2 DEF AcceptConn
    <3>2. conns \in Seq(Client) /\ fd \in [Client -> Fd \cup {NoFd}] /\ f \in Fd /\ f # NoFd
      BY <3>1 DEF CoreType, PoolTypeOK, FreeFds, Fd, NoFd
    <3>3. c \in Client
      BY DEF Waiting, CoreType
    <3>4. c \notin Members
      <4>1. ASSUME c \in Members PROVE FALSE
        <5>1. PICK i \in 1 .. Len(conns) : conns[i] = c
          BY <4>1 DEF PoolIndexed, Members
        <5>2. /\ Len(conns') = Len(conns) + 1 /\ Len(conns) \in Nat
              /\ conns'[i] = c /\ conns'[Len(conns) + 1] = c
          BY <3>1, <3>2, <3>3, <5>1
        <5>3. i \in 1 .. Len(conns') /\ Len(conns) + 1 \in 1 .. Len(conns')
          BY <5>2
        <5>4. idx'[c] = i /\ idx'[c] = Len(conns) + 1
          BY <5>2, <5>3 DEF PoolIndexed
        <5> QED
          BY <5>2, <5>4
      <4> QED
        BY <4>1
    <3>5. Members' = Members \cup {c}
      BY <3>1, <3>2, <3>3 DEF Members
    <3>6. Cardinality(Members) < MAX_CONNS
      BY <3>1, MembersCounted
    <3>7. \E d \in Client \ Members : Members' = Members \cup {d}
      BY <3>3, <3>4, <3>5
    <3>8. Rounds!Cardinality(Members) = Cardinality(Members)
      BY DEF Cardinality, Rounds!Cardinality
    <3> QED
      BY <3>6, <3>7, <3>8 DEF Rounds!Admit
  <2> QED
    BY <2>1, <2>2
<1>4. CASE pc = "accept"
  <2>1. pc' = "accept_ssl"
    BY <1>1, <1>4 DEF AfterAccept
  <2>2. RoundPhase' = "join" /\ Todo' = {} /\ Turn' = {}
    BY <2>1 DEF Serving, RoundPhase, Todo, Turn
  <2>3. Rounds!Join
    BY <1>2, <1>3, <2>2 DEF Rounds!Join
  <2> QED
    BY <2>3 DEF Rounds!Next
<1>5. CASE pc = "accept_ssl"
  <2>1. pc' = "recv" /\ cur' = 1
    BY <1>1, <1>5 DEF AfterAccept
  <2>2. RoundPhase' = "serve" /\ Turn' = {} /\ Todo' = {conns'[i] : i \in 1 .. Len(conns')}
    BY <2>1 DEF Serving, RoundPhase, Todo, Turn
  <2>3. Members' = {conns'[i] : i \in 1 .. Len(conns')}
    <3>1. conns' \in Seq(Client) /\ \A i \in 1 .. Len(conns') : conns'[i] \in Client
      BY DEF CoreType, PoolTypeOK
    <3> QED
      BY <3>1 DEF PoolIndexed, Members
  <2>4. Rounds!Begin
    BY <1>2, <1>3, <2>2, <2>3 DEF Rounds!Begin
  <2> QED
    BY <2>4 DEF Rounds!Next
<1> QED
  BY <1>1, <1>4, <1>5

(* select wakes the server; a visit ends, and so does the loop.            *)
LEMMA TurnRounds ==
  ASSUME CoreType, PoolIndexed, Select \/ MaxFd \/ LoopEnd
  PROVE  [Rounds!Next]_Rounds!vars
<1> USE DEF loopVars, poolVars, fdVars
<1>1. UNCHANGED Members
  BY DEF Select, MaxFd, LoopEnd, Members
<1>2. CASE Select
  <2>1. RoundPhase = "wait" /\ Todo = {} /\ Turn = {}
    BY <1>2 DEF Select, Serving, RoundPhase, Todo, Turn
  <2>2. RoundPhase' = "join" /\ Todo' = {} /\ Turn' = {}
    BY <1>2 DEF Select, Serving, RoundPhase, Todo, Turn
  <2> QED
    BY <1>1, <2>1, <2>2 DEF Rounds!Wake, Rounds!Next
<1>3. CASE MaxFd
  <2>1. /\ pc = "max_fd" /\ pc' = "recv" /\ Serving /\ Serving'
        /\ conns' = conns /\ cur' = cur + 1
    BY <1>3 DEF MaxFd, At, Serving
  <2>2. RoundPhase = "serve" /\ RoundPhase' = "serve"
    BY <2>1 DEF RoundPhase, Serving
  <2>3. Todo = From(cur + 1) /\ Todo' = From(cur + 1) /\ Turn' = {}
    BY <2>1, TodoFrom DEF Todo, Turn, From
  <2> QED
    BY <1>1, <2>2, <2>3 DEF Rounds!Done, Rounds!Next
<1>4. CASE LoopEnd
  <2>1. pc = "recv" /\ pc' = "select" /\ cur > Len(conns)
    BY <1>4 DEF LoopEnd
  <2>2. cur \in Nat /\ Len(conns) \in Nat
    BY DEF CoreType, PoolTypeOK
  <2>3. Serving /\ Todo = From(cur) /\ Turn = {} /\ From(cur) = {}
    BY <2>1, <2>2, TodoFrom DEF From
  <2>4. RoundPhase = "serve" /\ RoundPhase' = "wait" /\ Todo' = {} /\ Turn' = {}
    BY <2>1, <2>3 DEF RoundPhase, Serving, Todo, Turn
  <2> QED
    BY <1>1, <2>3, <2>4 DEF Rounds!End, Rounds!Next
<1> QED
  BY <1>2, <1>3, <1>4

(* Each handler of a visit goes on with it or drops the connection.        *)
LEMMA VisitRounds ==
  ASSUME \/ RecvSkip \/ Handshake \/ HandshakeFail \/ RecvIgnore \/ RecvData
         \/ LogErr \/ Prepare
         \/ InitCgiSkip \/ InitCgiNoPipe \/ InitCgiFail \/ InitCgi \/ ForSelect
         \/ ToCgi \/ WriteSome \/ WriteShort \/ WriteFail \/ WriteDone
         \/ FromCgiSkip \/ FromCgi \/ FromCgiEof \/ FromCgiFail
         \/ DynamicSkip \/ DynamicEnd \/ ServeDynamic
         \/ StaticSkip \/ SendErrorPage \/ SendHeader \/ SendBody
  PROVE  StayStep \/ DropStep
<1> USE DEF loopVars, poolVars, setVars, fdVars, At, Serving, Labels
<1>1. CASE RecvSkip \/ Handshake \/ LogErr \/ Prepare
  BY <1>1 DEF RecvSkip, Handshake, Receiving, LogErr, Prepare, StayStep
<1>2. CASE HandshakeFail \/ RecvIgnore \/ RecvData
  BY <1>2 DEF HandshakeFail, RecvIgnore, RecvData, Receiving, StayStep, DropStep
<1>3. CASE InitCgiSkip \/ InitCgi \/ ForSelect
  BY <1>3 DEF InitCgiSkip, InitCgi, ForSelect, StayStep
<1>4. CASE InitCgiNoPipe \/ InitCgiFail
  <2>1. CgiFailed /\ At("init_cgi")
    BY <1>4 DEF InitCgiNoPipe, InitCgiFail
  <2> QED
    BY <2>1 DEF CgiFailed, StayStep
<1>5. CASE ToCgi \/ WriteSome \/ WriteShort \/ WriteFail \/ WriteDone
  BY <1>5 DEF ToCgi, WriteSome, WriteShort, WriteFail, WriteDone, writeUnchanged, StayStep
<1>6. CASE FromCgiSkip \/ FromCgi \/ FromCgiEof \/ FromCgiFail
  BY <1>6 DEF FromCgiSkip, FromCgi, FromCgiEof, FromCgiFail, Streaming, StayStep
<1>7. CASE DynamicSkip \/ DynamicEnd \/ ServeDynamic
  BY <1>7 DEF DynamicSkip, DynamicEnd, ServeDynamic, ServingDynamic, Finish, StayStep,
              DropStep
<1>8. CASE StaticSkip \/ SendErrorPage \/ SendHeader \/ SendBody
  BY <1>8 DEF StaticSkip, SendErrorPage, SendHeader, SendBody, ServingStatic, Finish,
              staticUnchanged, StayStep, DropStep
<1> QED
  BY <1>1, <1>2, <1>3, <1>4, <1>5, <1>6, <1>7, <1>8

-----------------------------------------------------------------------------
(* The refinement                                                          *)

LEMMA InitRounds == Init => Rounds!Init
<1> SUFFICES ASSUME Init PROVE Rounds!Init
  OBVIOUS
<1>1. ~Serving /\ RoundPhase = "wait" /\ Members = {}
  BY DEF Init, Serving, RoundPhase, Members
<1> QED
  BY <1>1, TodoFrom DEF Rounds!Init

(* Every step of the server, of a client or of a program is a step of the  *)
(* rounds or a stutter.                                                    *)
LEMMA NextRounds ==
  ASSUME IInv, IInv', [Next]_vars
  PROVE  [Rounds!Next]_Rounds!vars
<1>1. CoreType /\ PoolIndexed /\ CoreType' /\ PoolIndexed'
  BY DEF IInv
<1>2. CASE Clients \/ Programs \/ UNCHANGED vars
  <2>1. UNCHANGED <<pc, cur, conns, fd>>
    BY <1>2 DEF Clients, Connect, ClientSend, ClientRead, ClientHalfClose, ClientLeave,
         Programs, CgiRead, CgiEof, CgiWrite, CgiErr, CgiExit, cgiUnchanged,
         serverUnchanged, vars, loopVars, poolVars, fdVars
  <2> QED
    BY <2>1, RoundsKept
<1>3. CASE Server
  BY <1>1, <1>3, AcceptRounds, TurnRounds, VisitRounds, StayRounds, DropRounds DEF Server
<1> QED
  BY <1>2, <1>3 DEF Next

(* Whatever is accepted, dropped, forked or sent in the meantime, every    *)
(* connection of the pool is visited exactly once between two calls of     *)
(* select, and the pool never has more than MAX_CONNS of them: the array,  *)
(* the swap of pl_del_conn and i -= 1 implement PoolRounds.                *)
THEOREM LoopVisitsAll == Spec => VisitsAll
<1>1. Init => Rounds!Init
  BY InitRounds
<1>2. IInv /\ IInv' /\ [Next]_vars => [Rounds!Next]_Rounds!vars
  BY NextRounds
<1> QED
  BY <1>1, <1>2, Invariant, PTL DEF Spec, VisitsAll, Rounds!Spec
=============================================================================
