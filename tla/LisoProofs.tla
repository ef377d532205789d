------------------------------ MODULE LisoProofs ------------------------------
(***************************************************************************)
(* Theorems about the descriptors, the pool and the sets of Liso, for every*)
(* set of clients and every value of the bounds.  The inductive invariant  *)
(* IInv joins the properties of LisoProperties with what the handlers rely *)
(* on between them: which phases of a connection have pipes, and what the  *)
(* loop has covered so far.                                                *)
(***************************************************************************)
EXTENDS LisoProperties, SequenceTheorems, TLAPS

-----------------------------------------------------------------------------
(* The inductive invariant                                                 *)

CoreType ==
  /\ PoolTypeOK
  /\ cgi \in [Client -> CgiType]
  /\ link \in [Client -> {"off", "open", "half", "gone"}]
  /\ backlog \subseteq Client

(* A client is in the pool only after it connected and was accepted.       *)
Newcomers ==
  \A c \in Client :
    /\ c \in backlog => fd[c] = NoFd
    /\ link[c] = "off" => fd[c] = NoFd /\ c \notin backlog

(* Only connections of the pool have pipes, and none before cgi_init; while*)
(* a request is streamed to its program, the program's output is open.     *)
CgiPipes ==
  \A c \in Client :
    /\ fd[c] = NoFd \/ cgi[c].phase \in {"IDLE", "READY"} =>
         \A e \in Ends : pipe[c][e] = NoFd
    /\ cgi[c].phase = "SRV_TO_CGI" => pipe[c]["srv_in"] # NoFd

Writing ==
  pc = "write" => cur <= Len(conns) /\ cgi[conns[cur]].phase = "SRV_TO_CGI"

Listeners == \A f \in Fd : fdt[f].what = "listen" => f <= SslSock

(* During a pass of the loop, top covers the connections visited so far.   *)
TopCovers ==
  pc \notin {"select", "accept", "accept_ssl"} =>
    /\ SslSock <= top
    /\ \A i \in 1 .. cur - 1 : i <= Len(conns) /\ ConnMaxFd(conns[i]) <= top

(* The inductive invariant.                                                *)
IInv ==
  /\ CoreType
  /\ FdsOwned /\ PoolIndexed /\ SelectSetsOpen /\ MaxFdCovers
  /\ Newcomers /\ CgiPipes /\ Writing /\ Listeners /\ TopCovers

-----------------------------------------------------------------------------
(* Numbers, descriptors and records                                        *)

(* Most is the larger of two numbers, whichever comes first.               *)
LEMMA MostFacts ==
  ASSUME NEW a \in Int, NEW b \in Int
  PROVE  Most(a, b) \in {a, b} /\ a <= Most(a, b) /\ b <= Most(a, b)
BY DEF Most

(* A connection's largest selected descriptor bounds each of them.         *)
LEMMA ConnMaxFdFacts ==
  ASSUME CoreType, NEW c \in Client
  PROVE  /\ ConnMaxFd(c) \in Fd \cup {NoFd}
         /\ fd[c] <= ConnMaxFd(c)
         /\ pipe[c]["srv_in"] <= ConnMaxFd(c)
         /\ pipe[c]["srv_err"] <= ConnMaxFd(c)
<1> DEFINE a == fd[c]
           b == pipe[c]["srv_in"]
           d == pipe[c]["srv_err"]
<1>1. {a, b, d} \subseteq Fd \cup {NoFd} /\ Fd \cup {NoFd} \subseteq Int
  BY LisoAssumption DEF CoreType, PoolTypeOK, Fd, NoFd, Ends
<1>2. ConnMaxFd(c) = Most(a, Most(b, d))
  BY DEF ConnMaxFd
<1> HIDE DEF a, b, d
<1>3. /\ Most(a, Most(b, d)) \in {a, b, d} /\ a <= Most(a, Most(b, d))
      /\ b <= Most(a, Most(b, d)) /\ d <= Most(a, Most(b, d))
  BY <1>1, SMT DEF Most
<1> QED
  BY <1>1, <1>2, <1>3 DEF a, b, d

(* The connection being visited is a client's, with a socket, in its place.*)
LEMMA ConnFacts ==
  ASSUME CoreType, PoolIndexed, cur <= Len(conns)
  PROVE  /\ conn \in Client /\ idx[conn] = cur
         /\ fd[conn] \in Fd /\ fd[conn] # NoFd
<1>1. cur \in 1 .. Len(conns) /\ conns \in Seq(Client)
  BY DEF CoreType, PoolTypeOK
<1>2. conns[cur] \in Client
  BY <1>1
<1> QED
  BY <1>1, <1>2 DEF CoreType, PoolTypeOK, PoolIndexed, conn

(* Descriptors of different owners, or of different kinds, differ.         *)
LEMMA OwnFacts ==
  /\ \A c, d, x, y : Own(c, x) = Own(d, y) => c = d /\ x = y
  /\ \A c, x : Own(c, x).what = x
  /\ Free.what = "free"
  /\ \A c, x : Own(c, x) # Free
BY DEF Own, Free

-----------------------------------------------------------------------------
(* What a step may do to the invariant's variables.  Most handlers do no   *)
(* more than SocketStep: at the connection visited they set or clear its   *)
(* socket in the two sets and move its CGI on, without opening or closing. *)

CgiMoves ==
  /\ cgi' \in [Client -> CgiType]
  /\ \A c \in Client :
       /\ cgi'[c].phase \in {"IDLE", "READY"} => cgi[c].phase \in {"IDLE", "READY"}
       /\ cgi'[c].phase = "SRV_TO_CGI" => cgi[c].phase = "SRV_TO_CGI"

(* A new label of the same visit.                                          *)
SameVisit ==
  /\ cur <= Len(conns)
  /\ pc \notin {"select", "accept", "accept_ssl"}
  /\ pc' \in Labels \ {"select", "accept", "accept_ssl"}
  /\ pc' = "write" => cgi'[conn].phase = "SRV_TO_CGI"
  /\ UNCHANGED <<cur, top>>

Watched ==
  /\ read_set' \subseteq read_set \cup {fd[conn]}
  /\ write_set' \subseteq write_set \cup {fd[conn]}

Leaked ==
  \A f \in Fd :
    \/ fdt'[f] = fdt[f]
    \/ fdt[f] = Free /\ fdt'[f] = Own(conn, "leak")

SocketStep ==
  /\ SameVisit /\ Watched /\ CgiMoves
  /\ fdt' \in [Fd -> Desc] /\ Leaked
  /\ UNCHANGED <<poolVars, fd, pipe, readyVars, netVars>>

(* A descriptor that is opened but stored in no field takes a free number. *)
LEMMA LeakFacts ==
  ASSUME CoreType, FdsOwned, Leaked
  PROVE  /\ \A f \in Fd : fdt[f] # Free => fdt'[f] = fdt[f]
         /\ \A f \in Fd, c \in Client, e \in Ends \cup {"sock"} :
              fdt'[f] = Own(c, e) => fdt[f] = Own(c, e)
         /\ \A f \in Fd : fdt'[f].what = "listen" => fdt[f].what = "listen"
<1>1. "leak" \notin Ends \cup {"sock"} /\ "leak" # "listen"
  BY DEF Ends
<1> QED
  BY <1>1, OwnFacts DEF Leaked

(* A step that only watches the socket of the connection visited.          *)
LEMMA SocketStepInv == IInv /\ SocketStep => IInv'
<1> SUFFICES ASSUME IInv, SocketStep PROVE IInv'
  OBVIOUS
<1> USE DEF SocketStep, SameVisit
<1>1. conn \in Client /\ fd[conn] \in Fd /\ fd[conn] # NoFd /\ fdt[fd[conn]] = Own(conn, "sock")
  BY ConnFacts DEF IInv, FdsOwned
<1>2. UNCHANGED <<conns, idx, max_fd, fd, pipe, read_ready, write_ready, backlog, link>>
  BY DEF poolVars, readyVars, netVars
<1>3. /\ \A f \in Fd : fdt[f] # Free => fdt'[f] = fdt[f]
      /\ \A f \in Fd, c \in Client, e \in Ends \cup {"sock"} :
           fdt'[f] = Own(c, e) => fdt[f] = Own(c, e)
      /\ \A f \in Fd : fdt'[f].what = "listen" => fdt[f].what = "listen"
  BY LeakFacts DEF IInv
<1>4. CoreType'
  BY <1>1, <1>2 DEF IInv, CoreType, PoolTypeOK, Watched, CgiMoves
<1>5. FdsOwned'
  <2>1. \A c \in Client : fd[c] # NoFd => fdt'[fd[c]] = Own(c, "sock")
    BY <1>3, OwnFacts DEF IInv, FdsOwned, CoreType, PoolTypeOK
  <2>2. \A c \in Client, e \in Ends : pipe[c][e] # NoFd => fdt'[pipe[c][e]] = Own(c, e)
    BY <1>3, OwnFacts DEF IInv, FdsOwned, CoreType, PoolTypeOK
  <2> QED
    BY <1>2, <1>3, <2>1, <2>2 DEF IInv, FdsOwned
<1>6. PoolIndexed'
  BY <1>2 DEF IInv, PoolIndexed
<1>7. SelectSetsOpen'
  <2>1. \A f \in read_set \cup write_set \cup {fd[conn]} : f \in Fd
    BY <1>1 DEF IInv, CoreType, PoolTypeOK
  <2>2. \A f \in read_set \cup write_set : fdt[f].what # "free"
    BY DEF IInv, SelectSetsOpen
  <2>3. \A f \in read_set \cup write_set \cup {fd[conn]} : fdt[f] # Free
    BY <1>1, <2>2, OwnFacts
  <2> QED
    BY <1>1, <1>3, <2>1, <2>3, OwnFacts DEF IInv, SelectSetsOpen, Watched
<1>8. MaxFdCovers'
  BY DEF MaxFdCovers
<1>9. Newcomers' /\ Listeners'
  BY <1>2, <1>3 DEF IInv, Newcomers, Listeners
<1>10. CgiPipes'
  BY <1>2 DEF IInv, CgiPipes, CgiMoves
<1>11. Writing'
  BY <1>2 DEF Writing, conn
<1>12. TopCovers'
  BY <1>2 DEF IInv, TopCovers, ConnMaxFd
<1> QED
  BY <1>4, <1>5, <1>6, <1>7, <1>8, <1>9, <1>10, <1>11, <1>12 DEF IInv

-----------------------------------------------------------------------------
(* Steps that close descriptors                                            *)

(* What Closed leaves: the descriptors of S are free, the others as before.*)
LEMMA ClosedFacts ==
  ASSUME CoreType, NEW S \in SUBSET Fd
  PROVE  /\ Closed(S) \in [Fd -> Desc]
         /\ \A f \in Fd : f \in S => Closed(S)[f] = Free
         /\ \A f \in Fd : f \notin S => Closed(S)[f] = fdt[f]
BY DEF Closed, Desc, CoreType, PoolTypeOK

(* What c holds: its socket and its ends, which no other field names.      *)
LEMMA HeldFacts ==
  ASSUME CoreType, FdsOwned, NEW c \in Client
  PROVE  /\ PipeFds(c) \in SUBSET Fd
         /\ \A f \in PipeFds(c) : \E e \in Ends : f = pipe[c][e] /\ fdt[f] = Own(c, e)
         /\ \A e \in Ends : pipe[c][e] # NoFd => pipe[c][e] \in PipeFds(c)
         /\ \A d \in Client : fd[d] # NoFd => fd[d] \notin PipeFds(c)
         /\ \A d \in Client, e \in Ends :
              d # c /\ pipe[d][e] # NoFd => pipe[d][e] \notin PipeFds(c)
<1>1. \A e \in Ends : pipe[c][e] \in Fd \cup {NoFd}
  BY DEF CoreType, PoolTypeOK
<1>2. PipeFds(c) = {pipe[c][e] : e \in Ends} \ {NoFd}
  BY DEF PipeFds, Fds
<1>3. \A f \in PipeFds(c) : \E e \in Ends : f = pipe[c][e] /\ fdt[f] = Own(c, e)
  BY <1>1, <1>2 DEF FdsOwned
<1>4. PipeFds(c) \in SUBSET Fd
  BY <1>1, <1>2
<1>5. \A d \in Client : fd[d] # NoFd => fd[d] \notin PipeFds(c)
  <2>1. "sock" \notin Ends
    BY DEF Ends
  <2> QED
    BY <1>3, <2>1, OwnFacts DEF FdsOwned
<1>6. \A d \in Client, e \in Ends :
        d # c /\ pipe[d][e] # NoFd => pipe[d][e] \notin PipeFds(c)
  BY <1>3, OwnFacts DEF FdsOwned
<1> QED
  BY <1>2, <1>3, <1>4, <1>5, <1>6

(* A step that closes the descriptors of S and clears the fields that name *)
(* them, and only those, leaves what is open in its owner's hands.         *)
LEMMA ClosingOwned ==
  ASSUME CoreType, FdsOwned, NEW S \in SUBSET Fd,
         fdt' = Closed(S),
         \A d \in Client : fd'[d] = IF fd[d] \in S THEN NoFd ELSE fd[d],
         \A d \in Client, e \in Ends :
           pipe'[d][e] = IF pipe[d][e] \in S THEN NoFd ELSE pipe[d][e]
  PROVE  FdsOwned'
<1>1. /\ \A f \in Fd : f \in S => fdt'[f] = Free
      /\ \A f \in Fd : f \notin S => fdt'[f] = fdt[f]
  BY ClosedFacts
<1>2. \A d \in Client : fd'[d] # NoFd => fdt'[fd'[d]] = Own(d, "sock")
  <2> SUFFICES ASSUME NEW d \in Client, fd'[d] # NoFd
               PROVE  fdt'[fd'[d]] = Own(d, "sock")
    OBVIOUS
  <2>1. fd'[d] = fd[d] /\ fd[d] \notin S /\ fd[d] \in Fd
    BY DEF CoreType, PoolTypeOK
  <2> QED
    BY <1>1, <2>1 DEF FdsOwned
<1>3. \A d \in Client, e \in Ends :
        pipe'[d][e] # NoFd => fdt'[pipe'[d][e]] = Own(d, e)
  <2> SUFFICES ASSUME NEW d \in Client, NEW e \in Ends, pipe'[d][e] # NoFd
               PROVE  fdt'[pipe'[d][e]] = Own(d, e)
    OBVIOUS
  <2>1. pipe'[d][e] = pipe[d][e] /\ pipe[d][e] \notin S
    OBVIOUS
  <2>2. pipe[d][e] \in Fd
    BY <2>1 DEF CoreType, PoolTypeOK
  <2>3. fdt[pipe[d][e]] = Own(d, e)
    BY <2>1 DEF FdsOwned
  <2> QED
    BY <1>1, <2>1, <2>2, <2>3
<1>4. ASSUME NEW f \in Fd, NEW d \in Client, fdt'[f] = Own(d, "sock")
      PROVE  fd'[d] = f
  BY <1>1, <1>4, OwnFacts DEF FdsOwned
<1>5. ASSUME NEW f \in Fd, NEW d \in Client, NEW e \in Ends, fdt'[f] = Own(d, e)
      PROVE  pipe'[d][e] = f
  <2>1. f \notin S /\ fdt[f] = Own(d, e)
    BY <1>1, <1>5, OwnFacts
  <2>2. pipe[d][e] = f
    BY <2>1 DEF FdsOwned
  <2> QED
    BY <2>1, <2>2
<1> QED
  BY <1>2, <1>3, <1>4, <1>5 DEF FdsOwned

(* It leaves the sets open if they hold nothing of S.                      *)
LEMMA ClosingSelected ==
  ASSUME CoreType, NEW S \in SUBSET Fd, fdt' = Closed(S),
         read_set' \cup write_set' \subseteq Fd \ S,
         \A f \in read_set' : fdt[f].what \in {"listen", "sock", "srv_in", "srv_err"},
         \A f \in write_set' : fdt[f].what = "sock"
  PROVE  SelectSetsOpen'
<1>1. \A f \in Fd : f \notin S => fdt'[f] = fdt[f]
  BY ClosedFacts
<1> QED
  BY <1>1 DEF SelectSetsOpen

(* cn_parse_req starts a CGI only from IDLE and never undoes a start.      *)
LEMMA CgiParsedFacts ==
  ASSUME NEW cg \in CgiType, NEW rq
  PROVE  /\ CgiParsed(cg, rq) \in CgiType
         /\ CgiParsed(cg, rq).phase \in {"IDLE", "READY"} => cg.phase \in {"IDLE", "READY"}
         /\ CgiParsed(cg, rq).phase = "SRV_TO_CGI" => cg.phase = "SRV_TO_CGI"
BY DEF CgiParsed, CgiType

(* The end of a response: the connection visited is kept and reset.        *)
ResetStep ==
  /\ cur <= Len(conns)
  /\ pc \notin {"select", "accept", "accept_ssl"}
  /\ pc' \in {"static", "max_fd"}
  /\ \E clear \in BOOLEAN : ResetOrClose(conn, clear)
  /\ UNCHANGED <<loopVars, poolVars, fd, readyVars, netVars>>

(* What liso_reset_or_close closes is cleared from the sets and the fields.*)
LEMMA ResetStepInv == IInv /\ ResetStep => IInv'
<1> SUFFICES ASSUME IInv, ResetStep PROVE IInv'
  OBVIOUS
<1> DEFINE c == conn
           S == PipeFds(c)
<1>1. /\ CoreType /\ FdsOwned
      /\ c \in Client /\ fd[c] \in Fd /\ fd[c] # NoFd /\ fdt[fd[c]] = Own(c, "sock")
  BY ConnFacts DEF IInv, FdsOwned, ResetStep
<1>2. UNCHANGED <<cur, top, conns, idx, max_fd, fd, read_ready, write_ready, backlog, link>>
  BY DEF ResetStep, loopVars, poolVars, readyVars, netVars
<1>3. /\ fdt' = Closed(S)
      /\ pipe' = [pipe EXCEPT ![c] = NoPipes]
      /\ read_set' \subseteq ResetReadSet(c)
      /\ write_set' \subseteq write_set \cup {fd[c]}
      /\ \E rq : cgi' = [cgi EXCEPT ![c] = CgiParsed(NewCgi, rq)]
  BY DEF ResetStep, ResetOrClose
<1>4. NewCgi \in CgiType /\ NewCgi.phase = "IDLE"
  BY DEF NewCgi, CgiType
<1>5. /\ cgi' \in [Client -> CgiType]
      /\ cgi'[c].phase # "SRV_TO_CGI"
      /\ \A d \in Client : d # c => cgi'[d] = cgi[d]
  BY <1>1, <1>3, <1>4, CgiParsedFacts DEF CoreType
<1>6. /\ S \in SUBSET Fd
      /\ \A f \in S : \E e \in Ends : f = pipe[c][e] /\ fdt[f] = Own(c, e)
      /\ \A e \in Ends : pipe[c][e] # NoFd => pipe[c][e] \in S
      /\ \A d \in Client : fd[d] # NoFd => fd[d] \notin S
      /\ \A d \in Client, e \in Ends : d # c /\ pipe[d][e] # NoFd => pipe[d][e] \notin S
  BY <1>1, HeldFacts
<1>7. /\ fdt' \in [Fd -> Desc]
      /\ \A f \in Fd : f \in S => fdt'[f] = Free
      /\ \A f \in Fd : f \notin S => fdt'[f] = fdt[f]
  BY <1>1, <1>3, <1>6, ClosedFacts
<1>8. /\ pipe' \in [Client -> [Ends -> Fd \cup {NoFd}]]
      /\ \A e \in Ends : pipe'[c][e] = NoFd
      /\ \A d \in Client : d # c => pipe'[d] = pipe[d]
  BY <1>1, <1>3 DEF CoreType, PoolTypeOK, NoPipes
<1> HIDE DEF S
<1>9. CoreType'
  BY <1>1, <1>2, <1>3, <1>5, <1>7, <1>8
     DEF IInv, CoreType, PoolTypeOK, ResetStep, ResetReadSet, Labels
<1>10. FdsOwned'
  <2>1. NoFd \notin Fd
    BY LisoAssumption DEF Fd, NoFd
  <2>2. \A d \in Client : fd'[d] = IF fd[d] \in S THEN NoFd ELSE fd[d]
    BY <1>2, <1>6, <2>1
  <2>3. \A d \in Client, e \in Ends :
          pipe'[d][e] = IF pipe[d][e] \in S THEN NoFd ELSE pipe[d][e]
    BY <1>1, <1>6, <1>8, <2>1
  <2> QED
    BY <1>1, <1>3, <1>6, <2>2, <2>3, ClosingOwned
<1>11. PoolIndexed'
  BY <1>2 DEF IInv, PoolIndexed
<1>12. SelectSetsOpen'
  <2>1. \A f \in read_set' : f \notin S
    <3> SUFFICES ASSUME NEW f \in read_set', f \in S PROVE FALSE
      OBVIOUS
    <3>1. PICK e \in Ends : f = pipe[c][e] /\ fdt[f] = Own(c, e)
      BY <1>6
    <3>2. e \notin {"srv_in", "srv_err"}
      BY <1>3, <3>1 DEF ResetReadSet
    <3>3. fdt[f].what = e /\ e # "sock" /\ e # "listen"
      BY <3>1, OwnFacts DEF Ends
    <3>4. f # fd[c]
      BY <1>1, <3>1, <3>3, OwnFacts
    <3> QED
      BY <1>3, <3>2, <3>3, <3>4 DEF IInv, SelectSetsOpen, ResetReadSet
  <2>2. \A f \in write_set' : f \notin S
    <3> SUFFICES ASSUME NEW f \in write_set', f \in S PROVE FALSE
      OBVIOUS
    <3>1. fdt[f].what = "sock"
      BY <1>1, <1>3, OwnFacts DEF IInv, SelectSetsOpen
    <3> QED
      BY <1>6, <3>1, OwnFacts DEF Ends
  <2>3. read_set' \cup write_set' \subseteq Fd
    BY <1>9 DEF CoreType, PoolTypeOK
  <2>4. \A f \in read_set' \cup write_set' : fdt'[f] = fdt[f]
    BY <1>7, <2>1, <2>2, <2>3
  <2> QED
    BY <1>1, <1>3, <2>4, OwnFacts DEF IInv, SelectSetsOpen, ResetReadSet
<1>13. MaxFdCovers' /\ Writing'
  BY DEF MaxFdCovers, Writing, ResetStep
<1>14. Newcomers' /\ Listeners'
  BY <1>2, <1>7, OwnFacts DEF IInv, Newcomers, Listeners
<1>15. CgiPipes'
  BY <1>1, <1>2, <1>5, <1>8 DEF IInv, CgiPipes
<1>16. TopCovers'
  <2> SUFFICES ASSUME NEW i \in 1 .. cur - 1
               PROVE  i <= Len(conns) /\ (ConnMaxFd(conns[i]))' <= top
    BY <1>2 DEF IInv, TopCovers, ResetStep
  <2>1. i <= Len(conns) /\ ConnMaxFd(conns[i]) <= top
    BY DEF IInv, TopCovers, ResetStep
  <2>2. conns[i] \in Client /\ conns[i] # c
    BY <1>1, <2>1, ConnFacts DEF IInv, CoreType, PoolTypeOK, PoolIndexed, ResetStep
  <2> QED
    BY <1>2, <1>8, <2>1, <2>2 DEF ConnMaxFd
<1> QED
  BY <1>9, <1>10, <1>11, <1>12, <1>13, <1>14, <1>15, <1>16 DEF IInv

(* The connection visited is dropped, and the loop stays at its place.     *)
DropStep ==
  /\ cur <= Len(conns)
  /\ pc \notin {"select", "accept", "accept_ssl"}
  /\ DropConn(conn)
  /\ UNCHANGED <<readyVars, netVars>>

(* The swap of pl_del_conn: the array loses c, keeps the others, and idx   *)
(* follows the one that moved.                                             *)
LEMMA SwapFacts ==
  ASSUME CoreType, PoolIndexed, NEW c \in Client, fd[c] # NoFd,
         conns' = DelConns(c), idx' = DelIdx(c), fd' = [fd EXCEPT ![c] = NoFd]
  PROVE  /\ conns' \in Seq(Client) /\ Len(conns') = Len(conns) - 1
         /\ idx' \in [Client -> Nat]
         /\ \A j \in 1 .. Len(conns) - 1 : j # idx[c] => conns'[j] = conns[j]
         /\ PoolIndexed'
<1> DEFINE n == Len(conns)
           i == idx[c]
           l == conns[n]
<1>1. /\ conns \in Seq(Client) /\ n \in Nat /\ idx \in [Client -> Nat]
      /\ \A j \in 1 .. n : conns[j] \in Client /\ idx[conns[j]] = j
  BY DEF CoreType, PoolTypeOK, PoolIndexed
<1>2. /\ i \in 1 .. n /\ conns[i] = c /\ l \in Client /\ idx[l] = n
      /\ n > 0 /\ n - 1 \in Nat
  BY <1>1 DEF PoolIndexed
<1>3. conns' = [j \in 1 .. n - 1 |-> IF j = i THEN l ELSE conns[j]]
  BY DEF DelConns
<1>4. conns' \in [1 .. n - 1 -> Client]
  BY <1>1, <1>2, <1>3
<1>5. conns' \in Seq(Client) /\ Len(conns') = n - 1
  BY <1>2, <1>4, SeqDef, LenProperties
<1>6. idx' = [idx EXCEPT ![l] = i, ![c] = 0] /\ idx' \in [Client -> Nat]
  BY <1>1, <1>2 DEF DelIdx
<1> HIDE DEF n, i, l
<1>7. \A j \in 1 .. n - 1 : idx'[conns'[j]] = j
  <2> SUFFICES ASSUME NEW j \in 1 .. n - 1 PROVE idx'[conns'[j]] = j
    OBVIOUS
  <2>1. CASE j = i
    BY <1>1, <1>2, <1>3, <1>6, <2>1
  <2>2. CASE j # i
    <3>1. conns'[j] = conns[j] /\ j \in 1 .. n /\ conns[j] \in Client /\ idx[conns[j]] = j
      BY <1>1, <1>2, <1>3, <2>2
    <3>2. conns[j] # l /\ conns[j] # c
      BY <1>1, <1>2, <2>2, <3>1 DEF i
    <3> QED
      BY <1>1, <1>6, <3>1, <3>2
  <2> QED
    BY <2>1, <2>2
<1>8. \A d \in Client : fd'[d] # NoFd <=> \E j \in 1 .. n - 1 : conns'[j] = d
  <2>1. ASSUME NEW j \in 1 .. n - 1 PROVE conns'[j] \in Client /\ fd'[conns'[j]] # NoFd
    <3>1. PICK k \in 1 .. n : conns'[j] = conns[k] /\ k # i
      <4>1. CASE j = i
        <5>1. n \in 1 .. n /\ n # i
          BY <1>1, <1>2, <4>1
        <5>2. conns'[j] = conns[n]
          BY <1>3, <4>1 DEF l
        <5> QED
          BY <5>1, <5>2
      <4>2. CASE j # i
        BY <1>1, <1>3, <4>2
      <4> QED
        BY <4>1, <4>2
    <3>2. conns[k] \in Client /\ conns[k] # c
      BY <1>1, <3>1 DEF i
    <3>3. fd[conns[k]] # NoFd
      BY <3>1, <3>2 DEF PoolIndexed, n
    <3> QED
      BY <3>1, <3>2, <3>3 DEF CoreType, PoolTypeOK
  <2>2. ASSUME NEW d \in Client, fd'[d] # NoFd PROVE \E j \in 1 .. n - 1 : conns'[j] = d
    <3>1. d # c /\ fd[d] # NoFd
      BY <2>2 DEF CoreType, PoolTypeOK
    <3>2. PICK k \in 1 .. n : conns[k] = d
      BY <3>1 DEF PoolIndexed, n
    <3>3. k # i
      BY <1>2, <3>1, <3>2
    <3>4. CASE k < n
      BY <1>1, <1>2, <1>3, <3>2, <3>3, <3>4
    <3>5. CASE k = n
      BY <1>1, <1>2, <1>3, <3>2, <3>3, <3>5 DEF l
    <3> QED
      BY <1>1, <3>4, <3>5
  <2> QED
    BY <2>1, <2>2
<1>9. n - 1 <= MAX_CONNS
  BY <1>1, LisoAssumption DEF PoolIndexed, n
<1>10. \A j \in 1 .. n - 1 : j # i => conns'[j] = conns[j]
  BY <1>3
<1> QED
  BY <1>5, <1>6, <1>7, <1>8, <1>9, <1>10 DEF PoolIndexed, n, i

(* pl_del_conn leaves nothing of the connection it drops.                  *)
LEMMA DropStepInv == IInv /\ DropStep => IInv'
<1> SUFFICES ASSUME IInv, DropStep PROVE IInv'
  OBVIOUS
<1> DEFINE c == conn
           P == PipeFds(c)
           S == Fds({fd[c]}) \cup P
<1>1. /\ CoreType /\ FdsOwned /\ PoolIndexed /\ idx[c] = cur
      /\ c \in Client /\ fd[c] \in Fd /\ fd[c] # NoFd /\ fdt[fd[c]] = Own(c, "sock")
  BY ConnFacts DEF IInv, FdsOwned, DropStep
<1>2. UNCHANGED <<cur, top, max_fd, read_ready, write_ready, backlog, link>> /\ pc' = "recv"
  BY DEF DropStep, DropConn, Revisit, loopVars, readyVars, netVars
<1>3. /\ conns' = DelConns(c) /\ idx' = DelIdx(c)
      /\ fdt' = Closed(S)
      /\ fd' = [fd EXCEPT ![c] = NoFd]
      /\ pipe' = [pipe EXCEPT ![c] = NoPipes]
      /\ read_set' = DelReadSet(c)
      /\ write_set' = write_set \ {fd[c]}
      /\ cgi' = [cgi EXCEPT ![c] = NewCgi]
  BY DEF DropStep, DropConn
<1>4. /\ cgi' \in [Client -> CgiType] /\ cgi'[c].phase = "IDLE"
      /\ \A d \in Client : d # c => cgi'[d] = cgi[d]
  BY <1>1, <1>3 DEF CoreType, NewCgi, CgiType
<1>5. /\ P \in SUBSET Fd
      /\ \A f \in P : \E e \in Ends : f = pipe[c][e] /\ fdt[f] = Own(c, e)
      /\ \A e \in Ends : pipe[c][e] # NoFd => pipe[c][e] \in P
      /\ \A d \in Client : fd[d] # NoFd => fd[d] \notin P
      /\ \A d \in Client, e \in Ends : d # c /\ pipe[d][e] # NoFd => pipe[d][e] \notin P
  BY <1>1, HeldFacts
<1>6. S = {fd[c]} \cup P
  BY <1>1 DEF Fds
<1> HIDE DEF S
<1>6a. S \in SUBSET Fd
  BY <1>1, <1>5, <1>6
<1>7. /\ fdt' \in [Fd -> Desc]
      /\ \A f \in Fd : f \in S => fdt'[f] = Free
      /\ \A f \in Fd : f \notin S => fdt'[f] = fdt[f]
  BY <1>1, <1>3, <1>6a, ClosedFacts
<1>8. /\ fd' \in [Client -> Fd \cup {NoFd}] /\ fd'[c] = NoFd
      /\ \A d \in Client : d # c => fd'[d] = fd[d]
  BY <1>1, <1>3 DEF CoreType, PoolTypeOK
<1>9. /\ pipe' \in [Client -> [Ends -> Fd \cup {NoFd}]]
      /\ \A e \in Ends : pipe'[c][e] = NoFd
      /\ \A d \in Client : d # c => pipe'[d] = pipe[d]
  BY <1>1, <1>3 DEF CoreType, PoolTypeOK, NoPipes
<1>10. /\ conns' \in Seq(Client) /\ Len(conns') = Len(conns) - 1
       /\ idx' \in [Client -> Nat]
       /\ \A j \in 1 .. Len(conns) - 1 : j # idx[c] => conns'[j] = conns[j]
       /\ PoolIndexed'
  BY <1>1, <1>3, SwapFacts
<1> HIDE DEF P, c
<1>11. read_set' \subseteq read_set /\ fd[c] \notin read_set'
       /\ pipe[c]["srv_in"] \notin read_set' /\ pipe[c]["srv_err"] \notin read_set'
  BY <1>3 DEF DelReadSet, ResetReadSet
<1>12. CoreType'
  BY <1>1, <1>2, <1>3, <1>4, <1>7, <1>8, <1>9, <1>10, <1>11
     DEF CoreType, PoolTypeOK, Labels
<1>13. FdsOwned'
  <2>1. NoFd \notin Fd /\ "sock" \notin Ends
    BY LisoAssumption DEF Fd, NoFd, Ends
  <2>2. \A d \in Client : fd'[d] = IF fd[d] \in S THEN NoFd ELSE fd[d]
    <3> SUFFICES ASSUME NEW d \in Client
                 PROVE  fd'[d] = IF fd[d] \in S THEN NoFd ELSE fd[d]
      OBVIOUS
    <3>1. CASE d = c
      BY <1>6, <1>8, <3>1
    <3>2. CASE d # c /\ fd[d] # NoFd
      BY <1>1, <1>5, <1>6, <1>8, <3>2, OwnFacts DEF FdsOwned
    <3>3. CASE d # c /\ fd[d] = NoFd
      BY <1>8, <3>3
    <3> QED
      BY <3>1, <3>2, <3>3
  <2>3. \A d \in Client, e \in Ends :
          pipe'[d][e] = IF pipe[d][e] \in S THEN NoFd ELSE pipe[d][e]
    <3> SUFFICES ASSUME NEW d \in Client, NEW e \in Ends
                 PROVE  pipe'[d][e] = IF pipe[d][e] \in S THEN NoFd ELSE pipe[d][e]
      OBVIOUS
    <3>1. CASE pipe[d][e] = NoFd
      BY <1>9, <3>1
    <3>2. CASE d = c /\ pipe[d][e] # NoFd
      BY <1>5, <1>6, <1>9, <3>2
    <3>3. CASE d # c /\ pipe[d][e] # NoFd
      <4>1. fdt[pipe[d][e]] = Own(d, e)
        BY <1>1, <3>3 DEF FdsOwned
      <4>2. pipe[d][e] # fd[c]
        BY <1>1, <2>1, <4>1, <3>3, OwnFacts
      <4> QED
        BY <1>5, <1>6, <1>9, <3>3, <4>2
    <3> QED
      BY <3>1, <3>2, <3>3
  <2> QED
    BY <1>1, <1>3, <1>6a, <2>2, <2>3, ClosingOwned
<1>14. SelectSetsOpen'
  <2>1. ASSUME NEW f \in read_set \cup write_set, f \in P,
               f \in read_set => f \notin {pipe[c]["srv_in"], pipe[c]["srv_err"]}
        PROVE  FALSE
    <3>1. PICK e \in Ends : f = pipe[c][e] /\ fdt[f] = Own(c, e)
      BY <1>5, <2>1
    <3>2. fdt[f].what = e /\ e # "sock" /\ e # "listen"
      BY <3>1, OwnFacts DEF Ends
    <3>3. f \in read_set /\ e \in {"srv_in", "srv_err"}
      BY <3>2 DEF IInv, SelectSetsOpen
    <3> QED
      BY <2>1, <3>1, <3>3
  <2>2. read_set' \cup write_set' \subseteq Fd \ S
    <3> SUFFICES ASSUME NEW f \in read_set' \cup write_set'
                 PROVE  f \in Fd /\ f # fd[c] /\ f \notin P
      BY <1>6
    <3>1. f \in read_set \cup write_set /\ f \in Fd /\ f # fd[c]
      BY <1>3, <1>11, <1>12 DEF CoreType, PoolTypeOK
    <3>2. ASSUME f \in P PROVE FALSE
      <4>1. CASE f \in read_set'
        BY <1>11, <2>1, <3>1, <3>2, <4>1
      <4>2. CASE f \in write_set'
        <5>1. f \in write_set /\ fdt[f].what = "sock"
          BY <1>3, <4>2 DEF IInv, SelectSetsOpen
        <5> QED
          BY <1>5, <3>2, <5>1, OwnFacts DEF Ends
      <4> QED
        BY <4>1, <4>2
    <3> QED
      BY <3>1, <3>2
  <2> QED
    BY <1>1, <1>3, <1>11, <1>6a, <2>2, ClosingSelected DEF IInv, SelectSetsOpen
<1>15. MaxFdCovers' /\ Writing'
  BY <1>2 DEF MaxFdCovers, Writing
<1>16. Newcomers' /\ Listeners'
  BY <1>2, <1>7, <1>8, OwnFacts DEF IInv, Newcomers, Listeners
<1>17. CgiPipes'
  BY <1>1, <1>4, <1>8, <1>9 DEF IInv, CgiPipes
<1>18. TopCovers'
  <2> SUFFICES ASSUME NEW i \in 1 .. cur - 1
               PROVE  i <= Len(conns') /\ (ConnMaxFd(conns[i]))' <= top
    BY <1>2 DEF IInv, TopCovers, DropStep
  <2>1. i <= Len(conns) - 1 /\ i # cur /\ ConnMaxFd(conns[i]) <= top
    BY <1>1, LenProperties DEF IInv, TopCovers, DropStep, CoreType, PoolTypeOK
  <2>2. i \in 1 .. Len(conns) - 1 /\ i \in 1 .. Len(conns)
    BY <1>1, <2>1, LenProperties DEF CoreType, PoolTypeOK
  <2>3. conns'[i] = conns[i] /\ i <= Len(conns')
    BY <1>1, <1>10, <2>1, <2>2
  <2>4. conns[i] \in Client /\ conns[i] # c
    BY <1>1, <2>1, <2>2 DEF CoreType, PoolTypeOK, PoolIndexed
  <2>5. fd'[conns'[i]] = fd[conns[i]] /\ pipe'[conns'[i]] = pipe[conns[i]]
    BY <1>8, <1>9, <2>3, <2>4
  <2> QED
    BY <2>1, <2>3, <2>5 DEF ConnMaxFd
<1> QED
  BY <1>1, <1>10, <1>12, <1>13, <1>14, <1>15, <1>16, <1>17, <1>18 DEF IInv

(* The server closes its end of the program's input, once the body is      *)
(* written, or of its output, once it is read to the end.                  *)
CloseEndStep ==
  /\ SameVisit /\ CgiMoves /\ cgi'[conn].phase # "SRV_TO_CGI"
  /\ write_set' \subseteq write_set \cup {fd[conn]}
  /\ \/ /\ ClosePipe(conn, "srv_out")
        /\ cgi[conn].phase = "SRV_TO_CGI"
        /\ read_set' = read_set \cup {pipe[conn]["srv_in"]}
     \/ /\ ClosePipe(conn, "srv_in")
        /\ read_set' = read_set \ {pipe[conn]["srv_in"]}
  /\ UNCHANGED <<poolVars, fd, readyVars, netVars>>

(* An end that close_pipe closes was in no set, or is cleared from it.     *)
LEMMA CloseEndStepInv == IInv /\ CloseEndStep => IInv'
<1> SUFFICES ASSUME IInv, CloseEndStep PROVE IInv'
  OBVIOUS
<1> DEFINE c == conn
<1>1. /\ CoreType /\ FdsOwned /\ SelectSetsOpen /\ PoolIndexed
      /\ c \in Client /\ fd[c] \in Fd /\ fd[c] # NoFd /\ fdt[fd[c]] = Own(c, "sock")
  BY ConnFacts DEF IInv, FdsOwned, CloseEndStep, SameVisit
<1>2. UNCHANGED <<cur, top, conns, idx, max_fd, fd, read_ready, write_ready, backlog, link>>
  BY DEF CloseEndStep, SameVisit, poolVars, readyVars, netVars
<1>3. NoFd \notin Fd /\ "sock" \notin Ends
  BY LisoAssumption DEF Fd, NoFd, Ends
<1>4. PICK e \in {"srv_out", "srv_in"} :
        /\ ClosePipe(c, e)
        /\ \/ /\ e = "srv_out" /\ pipe[c]["srv_in"] # NoFd
              /\ read_set' = read_set \cup {pipe[c]["srv_in"]}
           \/ /\ e = "srv_in"
              /\ read_set' = read_set \ {pipe[c]["srv_in"]}
  BY <1>1 DEF CloseEndStep, IInv, CgiPipes
<1> DEFINE S == Fds({pipe[c][e]})
<1>5. e \in Ends /\ "srv_in" \in Ends /\ pipe[c][e] \in Fd \cup {NoFd}
  BY <1>1 DEF CoreType, PoolTypeOK, Ends
<1>6. S = {pipe[c][e]} \ {NoFd} /\ S \in SUBSET Fd
  BY <1>5 DEF Fds
<1>7. fdt' = Closed(S) /\ pipe' = [pipe EXCEPT ![c][e] = NoFd]
  BY <1>4 DEF ClosePipe
<1>8. /\ pipe' \in [Client -> [Ends -> Fd \cup {NoFd}]]
      /\ pipe'[c][e] = NoFd
      /\ \A x \in Ends : x # e => pipe'[c][x] = pipe[c][x]
      /\ \A d \in Client : d # c => pipe'[d] = pipe[d]
  BY <1>1, <1>5, <1>7 DEF CoreType, PoolTypeOK
<1> HIDE DEF S, c
<1>9. /\ fdt' \in [Fd -> Desc]
      /\ \A f \in Fd : f \notin S => fdt'[f] = fdt[f]
      /\ \A f \in Fd : f \in S => fdt'[f] = Free
  BY <1>1, <1>6, <1>7, ClosedFacts
<1>10. \A f \in S : f = pipe[c][e] /\ fdt[f] = Own(c, e)
  BY <1>1, <1>5, <1>6 DEF FdsOwned
<1>11. cgi' \in [Client -> CgiType] /\ write_set' \subseteq write_set \cup {fd[c]}
  BY DEF CloseEndStep, CgiMoves, c
<1>12. CoreType'
  BY <1>1, <1>2, <1>4, <1>5, <1>8, <1>9, <1>11
     DEF CoreType, PoolTypeOK, CloseEndStep, SameVisit
<1>13. FdsOwned'
  <2>1. \A d \in Client : fd'[d] = IF fd[d] \in S THEN NoFd ELSE fd[d]
    BY <1>1, <1>2, <1>3, <1>5, <1>6, <1>10, OwnFacts DEF FdsOwned
  <2>2. \A d \in Client, x \in Ends :
          pipe'[d][x] = IF pipe[d][x] \in S THEN NoFd ELSE pipe[d][x]
    <3> SUFFICES ASSUME NEW d \in Client, NEW x \in Ends
                 PROVE  pipe'[d][x] = IF pipe[d][x] \in S THEN NoFd ELSE pipe[d][x]
      OBVIOUS
    <3>1. CASE d = c /\ x = e
      BY <1>6, <1>8, <3>1
    <3>2. CASE d # c \/ x # e
      <4>1. pipe'[d][x] = pipe[d][x]
        BY <1>8, <3>2
      <4>2. pipe[d][x] \notin S
        BY <1>1, <1>3, <1>6, <1>10, <3>2, OwnFacts DEF FdsOwned
      <4> QED
        BY <4>1, <4>2
    <3> QED
      BY <3>1, <3>2
  <2> QED
    BY <1>1, <1>6, <1>7, <2>1, <2>2, ClosingOwned
<1>14. SelectSetsOpen'
  <2>1. \A f \in read_set' : fdt[f].what \in {"listen", "sock", "srv_in", "srv_err"}
    <3>1. pipe[c]["srv_in"] # NoFd => fdt[pipe[c]["srv_in"]].what = "srv_in"
      BY <1>1, <1>5, OwnFacts DEF FdsOwned
    <3> QED
      BY <1>1, <1>4, <3>1 DEF SelectSetsOpen
  <2>2. \A f \in write_set' : fdt[f].what = "sock"
    BY <1>1, <1>11, OwnFacts DEF SelectSetsOpen
  <2>3. ASSUME NEW f \in S PROVE f \notin read_set' /\ f \notin write_set'
    <3>1. f = pipe[c][e] /\ fdt[f].what = e /\ e # "sock"
      BY <1>3, <1>5, <1>10, OwnFacts
    <3>2. f \notin write_set'
      BY <2>2, <3>1
    <3>3. CASE e = "srv_in"
      BY <1>4, <3>1, <3>2, <3>3
    <3>4. CASE e = "srv_out"
      BY <2>1, <3>1, <3>2, <3>4
    <3> QED
      BY <3>3, <3>4
  <2>4. read_set' \cup write_set' \subseteq Fd \ S
    BY <1>12, <2>3 DEF CoreType, PoolTypeOK
  <2> QED
    BY <1>1, <1>6, <1>7, <2>1, <2>2, <2>4, ClosingSelected
<1>15. PoolIndexed' /\ MaxFdCovers'
  BY <1>2 DEF IInv, PoolIndexed, MaxFdCovers, CloseEndStep, SameVisit
<1>16. Newcomers' /\ Listeners'
  BY <1>2, <1>9, OwnFacts DEF IInv, Newcomers, Listeners
<1>17. CgiPipes'
  BY <1>1, <1>2, <1>8 DEF IInv, CgiPipes, CloseEndStep, CgiMoves, c
<1>18. Writing'
  BY <1>2 DEF Writing, CloseEndStep, SameVisit, conn
<1>19. TopCovers'
  <2> SUFFICES ASSUME NEW i \in 1 .. cur - 1
               PROVE  i <= Len(conns) /\ (ConnMaxFd(conns[i]))' <= top
    BY <1>2 DEF IInv, TopCovers, CloseEndStep, SameVisit
  <2>1. i <= Len(conns) /\ ConnMaxFd(conns[i]) <= top
    BY DEF IInv, TopCovers, CloseEndStep, SameVisit
  <2>2. /\ conns \in Seq(Client) /\ cur \in Nat /\ i \in 1 .. Len(conns) /\ i # cur
        /\ idx[c] = cur
    BY <1>1, <2>1, ConnFacts DEF CoreType, PoolTypeOK, CloseEndStep, SameVisit, c
  <2>3. conns[i] \in Client /\ conns[i] # c
    BY <1>1, <2>2 DEF PoolIndexed
  <2> QED
    BY <1>2, <1>8, <2>1, <2>3 DEF ConnMaxFd
<1> QED
  BY <1>12, <1>13, <1>14, <1>15, <1>16, <1>17, <1>18, <1>19 DEF IInv

-----------------------------------------------------------------------------
(* Steps that open descriptors                                             *)

(* The six ends of the three pipes are different free descriptors.         *)
LEMMA NewPipesFacts ==
  ASSUME NEW p \in NewPipes
  PROVE  /\ p \in [Ends -> FreeFds]
         /\ \A d, e \in Ends : p[d] = p[e] => d = e
<1>1. \A S, q : q \in Pipes(S) => q[1] \in S /\ q[2] \in S /\ q[1] # q[2]
  BY DEF Pipes, IsPipe, IsLowest
<1>2. PICK i \in Pipes(FreeFds) :
        \E o \in Pipes(Others(FreeFds, i)) :
          \E r \in Pipes(Others(Others(FreeFds, i), o)) : p = PipeEnds(i, o, r)
  BY DEF NewPipes
<1>2a. PICK o \in Pipes(Others(FreeFds, i)) :
        \E r \in Pipes(Others(Others(FreeFds, i), o)) : p = PipeEnds(i, o, r)
  BY <1>2
<1>2b. PICK r \in Pipes(Others(Others(FreeFds, i), o)) : p = PipeEnds(i, o, r)
  BY <1>2a
<1>3. /\ p = [e \in Ends |-> p[e]]
      /\ p["cgi_in"] = i[1] /\ p["srv_out"] = i[2]
      /\ p["srv_in"] = o[1] /\ p["cgi_out"] = o[2]
      /\ p["srv_err"] = r[1] /\ p["cgi_err"] = r[2]
  BY <1>2b DEF PipeEnds, Ends
<1>4. /\ i[1] \in FreeFds /\ i[2] \in FreeFds /\ i[1] # i[2]
      /\ o[1] \in FreeFds \ {i[1], i[2]} /\ o[2] \in FreeFds \ {i[1], i[2]} /\ o[1] # o[2]
      /\ r[1] \in FreeFds \ {i[1], i[2], o[1], o[2]}
      /\ r[2] \in FreeFds \ {i[1], i[2], o[1], o[2]} /\ r[1] # r[2]
  BY <1>1, <1>2 DEF Others
<1>5. \A e \in Ends : e \in {"cgi_in", "srv_out", "srv_in", "cgi_out", "srv_err", "cgi_err"}
  BY DEF Ends
<1>6. p \in [Ends -> FreeFds]
  BY <1>3, <1>4, <1>5
<1>7. \A d, e \in Ends : p[d] = p[e] => d = e
  BY <1>3, <1>4, <1>5
<1> QED
  BY <1>6, <1>7

(* cgi_init made its pipes and K are the ends it leaves in the fields: all *)
(* of them when it fails, the server's three when the child is forked.     *)
OpenPipes(p, K) ==
  /\ pipe' = [pipe EXCEPT ![conn] = [e \in Ends |-> IF e \in K THEN p[e] ELSE NoFd]]
  /\ fdt' = [f \in Fd |-> IF \E e \in K : p[e] = f
                          THEN Own(conn, CHOOSE e \in K : p[e] = f) ELSE fdt[f]]
  /\ read_set' \subseteq read_set \cup {p["srv_err"]}

OpenStep ==
  /\ cur <= Len(conns)
  /\ pc \notin {"select", "accept", "accept_ssl"} /\ pc' = "for_select"
  /\ cgi[conn].phase = "READY"
  /\ cgi' \in [Client -> CgiType]
  /\ cgi'[conn].phase \in {"SRV_TO_CGI", "ABORT"}
  /\ \A c \in Client : c # conn => cgi'[c] = cgi[c]
  /\ write_set' \subseteq write_set \cup {fd[conn]}
  /\ \E p \in NewPipes, K \in {SrvEnds, Ends} : OpenPipes(p, K)
  /\ UNCHANGED <<loopVars, poolVars, fd, readyVars, netVars>>

(* What cgi_init opens was free and has one owner, whether it succeeds.    *)
LEMMA OpenStepInv == IInv /\ OpenStep => IInv'
<1> SUFFICES ASSUME IInv, OpenStep PROVE IInv'
  OBVIOUS
<1> DEFINE c == conn
<1>1. /\ CoreType /\ FdsOwned /\ SelectSetsOpen /\ PoolIndexed
      /\ c \in Client /\ fd[c] \in Fd /\ fd[c] # NoFd /\ fdt[fd[c]] = Own(c, "sock")
  BY ConnFacts DEF IInv, FdsOwned, OpenStep
<1>2. UNCHANGED <<cur, top, conns, idx, max_fd, fd, read_ready, write_ready, backlog, link>>
  BY DEF OpenStep, loopVars, poolVars, readyVars, netVars
<1>3. NoFd \notin Fd /\ "sock" \notin Ends /\ "listen" \notin Ends
  BY LisoAssumption DEF Fd, NoFd, Ends
<1>4. PICK p \in NewPipes, K \in {SrvEnds, Ends} : OpenPipes(p, K)
  BY DEF OpenStep
<1>5. /\ p \in [Ends -> FreeFds]
      /\ \A d, e \in Ends : p[d] = p[e] => d = e
  BY NewPipesFacts
<1>6. K \subseteq Ends /\ "srv_in" \in K /\ "srv_err" \in K
  BY DEF SrvEnds, Ends
<1>7. \A f \in FreeFds : f \in Fd /\ fdt[f] = Free
  BY DEF FreeFds
<1>8. \A e \in Ends : pipe[c][e] = NoFd
  BY <1>1 DEF IInv, CgiPipes, OpenStep
<1> HIDE DEF c
<1>9. /\ pipe' \in [Client -> [Ends -> Fd \cup {NoFd}]]
      /\ \A e \in K : pipe'[c][e] = p[e]
      /\ \A e \in Ends : e \notin K => pipe'[c][e] = NoFd
      /\ \A d \in Client : d # c => pipe'[d] = pipe[d]
  BY <1>1, <1>4, <1>5, <1>6, <1>7 DEF OpenPipes, CoreType, PoolTypeOK, c
<1>10. /\ \A e \in K : fdt'[p[e]] = Own(c, e)
       /\ \A f \in Fd : (\A e \in K : p[e] # f) => fdt'[f] = fdt[f]
       /\ \A f \in Fd : fdt'[f] \in Desc
       /\ fdt' \in [Fd -> Desc]
  <2>1. fdt' = [f \in Fd |-> IF \E e \in K : p[e] = f
                            THEN Own(c, CHOOSE e \in K : p[e] = f) ELSE fdt[f]]
    BY <1>4 DEF OpenPipes, c
  <2>2. ASSUME NEW e \in K PROVE fdt'[p[e]] = Own(c, e)
    <3>1. p[e] \in Fd
      BY <1>5, <1>6, <1>7
    <3>2. (CHOOSE x \in K : p[x] = p[e]) = e
      BY <1>5, <1>6
    <3> QED
      BY <2>1, <3>1, <3>2
  <2>3. \A f \in Fd : (\A e \in K : p[e] # f) => fdt'[f] = fdt[f]
    BY <2>1
  <2>4. \A e \in K : Own(c, e) \in Desc
    BY <1>1, <1>6 DEF Own, Desc
  <2>5. \A f \in Fd : fdt'[f] \in Desc
    <3> SUFFICES ASSUME NEW f \in Fd PROVE fdt'[f] \in Desc
      OBVIOUS
    <3>1. CASE \E e \in K : p[e] = f
      BY <2>2, <2>4, <3>1
    <3>2. CASE \A e \in K : p[e] # f
      BY <1>1, <2>3, <3>2 DEF CoreType, PoolTypeOK
    <3> QED
      BY <3>1, <3>2
  <2> QED
    BY <2>1, <2>2, <2>3, <2>5
<1>11. \A f \in Fd : fdt[f] # Free => fdt'[f] = fdt[f] /\ \A e \in K : p[e] # f
  BY <1>5, <1>6, <1>7, <1>10
<1>12. CoreType'
  <2>1. p["srv_err"] \in Fd
    BY <1>5, <1>6, <1>7
  <2>2. read_set' \subseteq Fd /\ write_set' \subseteq Fd
    BY <1>1, <1>4, <2>1 DEF OpenPipes, OpenStep, CoreType, PoolTypeOK, c
  <2> QED
    BY <1>1, <1>2, <1>9, <1>10, <2>2 DEF CoreType, PoolTypeOK, OpenStep, Labels
<1>13. FdsOwned'
  <2>1. ASSUME NEW d \in Client, fd[d] # NoFd PROVE fdt'[fd[d]] = Own(d, "sock")
    BY <1>1, <1>11, <2>1, OwnFacts DEF FdsOwned, CoreType, PoolTypeOK
  <2>2. ASSUME NEW d \in Client, NEW e \in Ends, pipe'[d][e] # NoFd
        PROVE  fdt'[pipe'[d][e]] = Own(d, e)
    <3>1. CASE d = c
      BY <1>9, <1>10, <2>2, <3>1
    <3>2. CASE d # c
      <4>1. pipe'[d][e] = pipe[d][e] /\ pipe[d][e] \in Fd
        BY <1>1, <1>9, <2>2, <3>2 DEF CoreType, PoolTypeOK
      <4>2. fdt[pipe[d][e]] = Own(d, e)
        BY <1>1, <2>2, <4>1 DEF FdsOwned
      <4> QED
        BY <1>11, <4>1, <4>2, OwnFacts
    <3> QED
      BY <3>1, <3>2
  <2>3. ASSUME NEW f \in Fd, NEW d \in Client, NEW x \in Ends \cup {"sock"},
               fdt'[f] = Own(d, x)
        PROVE  (x = "sock" => fd[d] = f) /\ (x # "sock" => pipe'[d][x] = f)
    <3>1. CASE \E e \in K : p[e] = f
      BY <1>3, <1>6, <1>9, <1>10, <2>3, <3>1, OwnFacts
    <3>2. CASE \A e \in K : p[e] # f
      <4>1. fdt[f] = Own(d, x) /\ f # NoFd
        BY <1>3, <1>10, <2>3, <3>2
      <4>2. (x = "sock" => fd[d] = f) /\ (x # "sock" => pipe[d][x] = f)
        BY <1>1, <4>1 DEF FdsOwned
      <4>3. x # "sock" => d # c
        BY <1>8, <4>1, <4>2
      <4> QED
        BY <1>9, <4>2, <4>3
    <3> QED
      BY <3>1, <3>2
  <2>4. \A d \in Client : fd'[d] # NoFd => fdt'[fd'[d]] = Own(d, "sock")
    BY <1>2, <2>1
  <2>5. \A f \in Fd, d \in Client :
          /\ fdt'[f] = Own(d, "sock") => fd'[d] = f
          /\ \A e \in Ends : fdt'[f] = Own(d, e) => pipe'[d][e] = f
    BY <1>2, <1>3, <2>3
  <2> QED
    BY <2>2, <2>4, <2>5 DEF FdsOwned
<1>14. SelectSetsOpen'
  <2>1. \A f \in read_set \cup write_set \cup {fd[c]} : f \in Fd /\ fdt'[f] = fdt[f]
    <3>1. \A f \in read_set \cup write_set : fdt[f].what # "free"
      BY <1>1 DEF SelectSetsOpen
    <3>2. \A f \in read_set \cup write_set \cup {fd[c]} : f \in Fd /\ fdt[f] # Free
      BY <1>1, <3>1, OwnFacts DEF CoreType, PoolTypeOK
    <3> QED
      BY <1>11, <3>2
  <2>2. fdt'[p["srv_err"]].what = "srv_err"
    BY <1>6, <1>10, OwnFacts
  <2>3. fdt'[fd[c]].what = "sock"
    BY <1>1, <2>1, OwnFacts
  <2>4. read_set' \subseteq read_set \cup {p["srv_err"]}
    BY <1>4 DEF OpenPipes
  <2>5. write_set' \subseteq write_set \cup {fd[c]}
    BY DEF OpenStep, c
  <2>6. \A f \in read_set' : fdt'[f].what \in {"listen", "sock", "srv_in", "srv_err"}
    BY <1>1, <2>1, <2>2, <2>4 DEF SelectSetsOpen
  <2>7. \A f \in write_set' : fdt'[f].what = "sock"
    BY <1>1, <2>1, <2>3, <2>5 DEF SelectSetsOpen
  <2> QED
    BY <2>6, <2>7 DEF SelectSetsOpen
<1>15. PoolIndexed' /\ MaxFdCovers' /\ Writing'
  BY <1>2 DEF IInv, PoolIndexed, MaxFdCovers, Writing, OpenStep
<1>16. Newcomers'
  BY <1>2 DEF IInv, Newcomers
<1>17. Listeners'
  <2> SUFFICES ASSUME NEW f \in Fd, fdt'[f].what = "listen" PROVE f <= SslSock
    BY DEF Listeners
  <2>1. \A e \in K : p[e] # f
    BY <1>3, <1>6, <1>10, OwnFacts
  <2> QED
    BY <1>10, <2>1 DEF IInv, Listeners
<1>18. CgiPipes'
  <2> SUFFICES ASSUME NEW d \in Client
               PROVE  /\ fd'[d] = NoFd \/ cgi'[d].phase \in {"IDLE", "READY"} =>
                           \A e \in Ends : pipe'[d][e] = NoFd
                      /\ cgi'[d].phase = "SRV_TO_CGI" => pipe'[d]["srv_in"] # NoFd
    BY DEF CgiPipes
  <2>1. CASE d = c
    <3>1. pipe'[c]["srv_in"] \in Fd
      BY <1>5, <1>6, <1>7, <1>9
    <3>2. cgi'[c].phase \in {"SRV_TO_CGI", "ABORT"}
      BY DEF OpenStep, c
    <3> QED
      BY <1>1, <1>2, <1>3, <2>1, <3>1, <3>2
  <2>2. CASE d # c
    BY <1>2, <1>9, <2>2 DEF IInv, CgiPipes, OpenStep, c
  <2> QED
    BY <2>1, <2>2
<1>19. TopCovers'
  <2> SUFFICES ASSUME NEW i \in 1 .. cur - 1
               PROVE  i <= Len(conns) /\ (ConnMaxFd(conns[i]))' <= top
    BY <1>2 DEF IInv, TopCovers, OpenStep
  <2>1. i <= Len(conns) /\ ConnMaxFd(conns[i]) <= top
    BY DEF IInv, TopCovers, OpenStep
  <2>2. conns[i] \in Client /\ conns[i] # c
    BY <1>1, <2>1, ConnFacts DEF CoreType, PoolTypeOK, PoolIndexed, OpenStep, c
  <2> QED
    BY <1>2, <1>9, <2>1, <2>2 DEF ConnMaxFd
<1> QED
  BY <1>12, <1>13, <1>14, <1>15, <1>16, <1>17, <1>18, <1>19 DEF IInv

-----------------------------------------------------------------------------
(* select, accept and the end of the loop                                  *)

(* After the listeners the loop over the pool starts at its first place.   *)
LEMMA AfterAcceptFacts ==
  ASSUME CoreType, AfterAccept
  PROVE  /\ pc' \in {"accept_ssl", "recv"}
         /\ cur' \in Nat \ {0} /\ top' \in Nat
         /\ pc' = "recv" => cur' = 1 /\ top' = SslSock
BY DEF AfterAccept, CoreType, PoolTypeOK, loopVars, SslSock

(* A new connection takes a free descriptor and the last place of the pool.*)
LEMMA AcceptConnInv == IInv /\ AcceptConn => IInv'
<1> SUFFICES ASSUME IInv, AcceptConn PROVE IInv'
  OBVIOUS
<1>1. PICK c \in Waiting(Listener), f \in FreeFds :
        /\ Len(conns) < MAX_CONNS
        /\ backlog' = backlog \ {c}
        /\ conns' = Append(conns, c)
        /\ idx' = [idx EXCEPT ![c] = Len(conns) + 1]
        /\ fd' = [fd EXCEPT ![c] = f]
        /\ fdt' = [fdt EXCEPT ![f] = Own(c, "sock")]
        /\ read_set' = read_set \cup {f}
  BY DEF AcceptConn
<1>2. /\ CoreType /\ FdsOwned /\ SelectSetsOpen /\ PoolIndexed
      /\ AfterAccept /\ UNCHANGED <<max_fd, write_set, read_ready, write_ready, pipe, cgi, link>>
  BY DEF IInv, AcceptConn, readyVars, msgVars
<1>3. c \in backlog /\ c \in Client /\ f \in Fd /\ fdt[f] = Free
  BY <1>2 DEF Waiting, FreeFds, CoreType
<1>4. fd[c] = NoFd /\ link[c] # "off" /\ \A e \in Ends : pipe[c][e] = NoFd
  BY <1>3 DEF IInv, Newcomers, CgiPipes
<1>5. NoFd \notin Fd /\ "sock" \notin Ends /\ "sock" # "listen"
  BY LisoAssumption DEF Fd, NoFd, Ends
<1>6. /\ fd' \in [Client -> Fd \cup {NoFd}] /\ fd'[c] = f
      /\ \A d \in Client : d # c => fd'[d] = fd[d]
  BY <1>1, <1>2, <1>3 DEF CoreType, PoolTypeOK
<1>7. /\ fdt' \in [Fd -> Desc] /\ fdt'[f] = Own(c, "sock")
      /\ \A g \in Fd : g # f => fdt'[g] = fdt[g]
  BY <1>1, <1>2, <1>3 DEF CoreType, PoolTypeOK, Own, Desc
<1>8. /\ conns' \in Seq(Client) /\ Len(conns') = Len(conns) + 1
      /\ conns'[Len(conns) + 1] = c
      /\ \A i \in 1 .. Len(conns) : conns'[i] = conns[i] /\ conns[i] \in Client
  BY <1>1, <1>2, <1>3 DEF CoreType, PoolTypeOK
<1>9. /\ idx' \in [Client -> Nat] /\ idx'[c] = Len(conns) + 1
      /\ \A d \in Client : d # c => idx'[d] = idx[d]
  BY <1>1, <1>2, <1>3 DEF CoreType, PoolTypeOK
<1>10. /\ pc' \in {"accept_ssl", "recv"} /\ cur' \in Nat \ {0} /\ top' \in Nat
       /\ pc' = "recv" => cur' = 1 /\ top' = SslSock
  BY <1>2, AfterAcceptFacts
<1>11. CoreType'
  <2>1. read_set' \subseteq Fd /\ backlog' \subseteq Client
    BY <1>1, <1>2, <1>3 DEF CoreType, PoolTypeOK
  <2> QED
    BY <1>2, <1>6, <1>7, <1>8, <1>9, <1>10, <2>1 DEF CoreType, PoolTypeOK, Labels
<1>12. FdsOwned'
  <2>1. \A d \in Client : fd'[d] # NoFd => fdt'[fd'[d]] = Own(d, "sock")
    <3> SUFFICES ASSUME NEW d \in Client, fd'[d] # NoFd
                 PROVE  fdt'[fd'[d]] = Own(d, "sock")
      OBVIOUS
    <3>1. CASE d = c
      BY <1>6, <1>7, <3>1
    <3>2. CASE d # c
      <4>1. fd'[d] = fd[d] /\ fd[d] \in Fd /\ fdt[fd[d]] = Own(d, "sock")
        BY <1>2, <1>6, <3>2 DEF FdsOwned, CoreType, PoolTypeOK
      <4> QED
        BY <1>3, <1>7, <4>1, OwnFacts
    <3> QED
      BY <3>1, <3>2
  <2>2. \A d \in Client, e \in Ends : pipe'[d][e] # NoFd => fdt'[pipe'[d][e]] = Own(d, e)
    <3> SUFFICES ASSUME NEW d \in Client, NEW e \in Ends, pipe[d][e] # NoFd
                 PROVE  fdt'[pipe[d][e]] = Own(d, e)
      BY <1>2
    <3>1. pipe[d][e] \in Fd /\ fdt[pipe[d][e]] = Own(d, e)
      BY <1>2 DEF FdsOwned, CoreType, PoolTypeOK
    <3> QED
      BY <1>3, <1>7, <3>1, OwnFacts
  <2>3. ASSUME NEW g \in Fd, NEW d \in Client, fdt'[g] = Own(d, "sock")
        PROVE  fd'[d] = g
    <3>1. CASE g = f
      BY <1>6, <1>7, <2>3, <3>1, OwnFacts
    <3>2. CASE g # f
      <4>1. fd[d] = g
        BY <1>2, <1>7, <2>3, <3>2 DEF FdsOwned
      <4> QED
        BY <1>4, <1>5, <1>6, <4>1
    <3> QED
      BY <3>1, <3>2
  <2>4. ASSUME NEW g \in Fd, NEW d \in Client, NEW e \in Ends, fdt'[g] = Own(d, e)
        PROVE  pipe'[d][e] = g
    <3>1. g # f
      BY <1>5, <1>7, <2>4, OwnFacts
    <3> QED
      BY <1>2, <1>7, <2>4, <3>1 DEF FdsOwned
  <2> QED
    BY <2>1, <2>2, <2>3, <2>4 DEF FdsOwned
<1>13. PoolIndexed'
  <2>1. \A i \in 1 .. Len(conns) : conns[i] # c /\ idx[conns[i]] = i /\ fd[conns[i]] # NoFd
    BY <1>2, <1>4, <1>8 DEF PoolIndexed
  <2>2. \A i \in 1 .. Len(conns') : i = Len(conns) + 1 \/ i \in 1 .. Len(conns)
    BY <1>2, <1>8, LenProperties DEF CoreType, PoolTypeOK
  <2>3. \A i \in 1 .. Len(conns') : idx'[conns'[i]] = i
    BY <1>8, <1>9, <2>1, <2>2
  <2>4. \A d \in Client : fd'[d] # NoFd <=> \E i \in 1 .. Len(conns') : conns'[i] = d
    <3>1. ASSUME NEW i \in 1 .. Len(conns') PROVE fd'[conns'[i]] # NoFd
      BY <1>3, <1>5, <1>6, <1>8, <2>1, <2>2
    <3>2. ASSUME NEW d \in Client, fd'[d] # NoFd
          PROVE  \E i \in 1 .. Len(conns') : conns'[i] = d
      <4>1. Len(conns) \in Nat
        BY <1>2, LenProperties DEF CoreType, PoolTypeOK
      <4>2. CASE d = c
        BY <1>8, <4>1, <4>2
      <4>3. CASE d # c
        <5>1. PICK i \in 1 .. Len(conns) : conns[i] = d
          BY <1>2, <1>6, <3>2, <4>3 DEF PoolIndexed
        <5> QED
          BY <1>8, <4>1, <5>1
      <4> QED
        BY <4>2, <4>3
    <3> QED
      BY <3>1, <3>2
  <2>5. Len(conns') <= MAX_CONNS
    BY <1>1, <1>2, <1>8, LisoAssumption, LenProperties DEF CoreType, PoolTypeOK
  <2> QED
    BY <2>3, <2>4, <2>5 DEF PoolIndexed
<1>14. SelectSetsOpen'
  <2>1. \A g \in read_set \cup write_set : g \in Fd /\ g # f
    BY <1>2, <1>3, OwnFacts DEF SelectSetsOpen, CoreType, PoolTypeOK
  <2>2. fdt'[f].what = "sock"
    BY <1>7, OwnFacts
  <2>3. \A g \in read_set' : fdt'[g].what \in {"listen", "sock", "srv_in", "srv_err"}
    BY <1>1, <1>2, <1>7, <2>1, <2>2 DEF SelectSetsOpen
  <2>4. \A g \in write_set' : fdt'[g].what = "sock"
    BY <1>2, <1>7, <2>1 DEF SelectSetsOpen
  <2> QED
    BY <2>3, <2>4 DEF SelectSetsOpen
<1>15. MaxFdCovers' /\ Writing'
  BY <1>10 DEF MaxFdCovers, Writing
<1>16. Newcomers'
  BY <1>1, <1>2, <1>4, <1>6 DEF IInv, Newcomers
<1>17. CgiPipes'
  BY <1>2, <1>3, <1>4, <1>6 DEF IInv, CgiPipes
<1>18. Listeners'
  BY <1>5, <1>7, OwnFacts DEF IInv, Listeners
<1>19. TopCovers'
  <2>1. pc' = "recv" => SslSock <= top' /\ 1 .. cur' - 1 = {}
    BY <1>10 DEF SslSock
  <2> QED
    BY <1>10, <2>1 DEF TopCovers
<1> QED
  BY <1>11, <1>12, <1>13, <1>14, <1>15, <1>16, <1>17, <1>18, <1>19 DEF IInv

(* Steps that move neither a descriptor nor a connection of the pool.      *)
QuietStep ==
  /\ UNCHANGED <<fdVars, setVars, conns, idx, cgi>>
  /\ max_fd' \in Nat /\ read_ready' \subseteq Fd /\ write_ready' \subseteq Fd
  /\ backlog' \subseteq Client /\ link' \in [Client -> {"off", "open", "half", "gone"}]
  /\ \A c \in Client :
       /\ link'[c] = "off" => link[c] = "off" /\ (c \in backlog' => c \in backlog)
       /\ c \in backlog' => c \in backlog \/ link[c] = "off"
  /\ pc' \in Labels /\ cur' \in Nat \ {0} /\ top' \in Nat
  /\ pc' = "select" => MaxFdCovers'
  /\ TopCovers' /\ Writing'

(* A step that leaves descriptors, sets and connections as they are.       *)
LEMMA QuietStepInv == IInv /\ QuietStep => IInv'
<1> SUFFICES ASSUME IInv, QuietStep PROVE IInv'
  OBVIOUS
<1>1. UNCHANGED <<fdt, fd, pipe, read_set, write_set, conns, idx, cgi>>
  BY DEF QuietStep, fdVars, setVars
<1>2. CoreType'
  BY <1>1 DEF IInv, CoreType, PoolTypeOK, QuietStep
<1>3. FdsOwned' /\ PoolIndexed' /\ SelectSetsOpen' /\ CgiPipes' /\ Listeners'
  BY <1>1 DEF IInv, FdsOwned, PoolIndexed, SelectSetsOpen, CgiPipes, Listeners
<1>4. Newcomers'
  BY <1>1 DEF IInv, Newcomers, QuietStep
<1>5. MaxFdCovers' /\ TopCovers' /\ Writing'
  BY DEF QuietStep, MaxFdCovers
<1> QED
  BY <1>2, <1>3, <1>4, <1>5 DEF IInv

(* select, the two accepts that add nothing, the end of a visit and the end*)
(* of the loop, clients and programs: nothing else in the loop is as quiet.*)
LEMMA QuietSteps ==
  ASSUME IInv,
         Select \/ AcceptSkip \/ AcceptRefuse \/ MaxFd \/ LoopEnd \/ Clients \/ Programs
  PROVE  QuietStep
<1> USE DEF QuietStep
<1>0. /\ CoreType /\ MaxFdCovers /\ TopCovers /\ Writing
      /\ pc \in Labels /\ cur \in Nat \ {0} /\ top \in Nat /\ max_fd \in Nat
      /\ read_ready \subseteq Fd /\ write_ready \subseteq Fd
      /\ backlog \subseteq Client /\ link \in [Client -> {"off", "open", "half", "gone"}]
      /\ read_set \subseteq Fd /\ write_set \subseteq Fd
  BY DEF IInv, CoreType, PoolTypeOK
<1> USE DEF loopVars, poolVars, setVars, readyVars, fdVars, msgVars, netVars
<1>1. ASSUME Select PROVE QuietStep
  <2>1. pc' = "accept" /\ UNCHANGED <<fdVars, setVars, conns, idx, cgi, max_fd, backlog, link, cur, top>>
    BY <1>1 DEF Select
  <2>2. read_ready' \subseteq Fd /\ write_ready' \subseteq Fd
    BY <1>0, <1>1 DEF Select
  <2>3. TopCovers' /\ Writing'
    BY <2>1 DEF TopCovers, Writing
  <2> QED
    BY <1>0, <2>1, <2>2, <2>3 DEF Labels
<1>2. ASSUME AcceptSkip \/ AcceptRefuse PROVE QuietStep
  <2>1. AfterAccept
    BY <1>2 DEF AcceptSkip, AcceptRefuse
  <2>2. /\ UNCHANGED <<fdVars, setVars, conns, idx, cgi, max_fd, link, read_ready, write_ready>>
        /\ backlog' \subseteq backlog
    BY <1>2 DEF AcceptSkip, AcceptRefuse
  <2>3. /\ pc' \in {"accept_ssl", "recv"} /\ cur' \in Nat \ {0} /\ top' \in Nat
        /\ pc' = "recv" => cur' = 1 /\ top' = SslSock
    BY <1>0, <2>1, AfterAcceptFacts
  <2>4. pc' = "recv" => SslSock <= top' /\ 1 .. cur' - 1 = {}
    BY <2>3 DEF SslSock
  <2>5. TopCovers' /\ Writing'
    BY <2>3, <2>4 DEF TopCovers, Writing
  <2> QED
    BY <1>0, <2>2, <2>3, <2>5 DEF Labels
<1>3. ASSUME MaxFd PROVE QuietStep
  <2>1. /\ pc = "max_fd" /\ cur <= Len(conns) /\ pc' = "recv" /\ cur' = cur + 1
        /\ top' = Most(top, ConnMaxFd(conn))
        /\ UNCHANGED <<fdVars, setVars, conns, idx, cgi, max_fd, backlog, link,
                       read_ready, write_ready>>
    BY <1>3 DEF MaxFd, At
  <2>2. conn \in Client /\ ConnMaxFd(conn) \in Int
    BY <1>0, <2>1, ConnFacts, ConnMaxFdFacts, LisoAssumption DEF IInv, Fd, NoFd
  <2>3. top' \in Nat /\ top <= top' /\ ConnMaxFd(conn) <= top'
    BY <1>0, <2>1, <2>2 DEF Most
  <2>4. TopCovers'
    <3>1. \A i \in 1 .. cur' - 1 : i \in 1 .. cur - 1 \/ i = cur
      BY <1>0, <2>1
    <3>2. \A i \in 1 .. cur - 1 : i <= Len(conns) /\ ConnMaxFd(conns[i]) <= top
      BY <1>0, <2>1 DEF TopCovers
    <3>3. SslSock <= top /\ SslSock <= top'
      BY <1>0, <2>1, <2>3 DEF TopCovers, SslSock
    <3>4. ASSUME NEW i \in 1 .. cur' - 1
          PROVE  i <= Len(conns) /\ ConnMaxFd(conns[i]) <= top'
      <4>1. CASE i = cur
        BY <2>1, <2>3, <4>1 DEF conn
      <4>2. CASE i \in 1 .. cur - 1
        <5>1. conns[i] \in Client
          BY <1>0, <3>2, <4>2 DEF CoreType, PoolTypeOK
        <5>2. ConnMaxFd(conns[i]) \in Int
          BY <1>0, <5>1, ConnMaxFdFacts, LisoAssumption DEF Fd, NoFd
        <5> QED
          BY <1>0, <2>3, <3>2, <4>2, <5>2
      <4> QED
        BY <3>1, <4>1, <4>2
    <3> QED
      BY <2>1, <3>3, <3>4 DEF TopCovers, ConnMaxFd
  <2> QED
    BY <1>0, <2>1, <2>3, <2>4 DEF Labels, Writing
<1>4. ASSUME LoopEnd PROVE QuietStep
  <2>1. /\ pc = "recv" /\ cur > Len(conns) /\ pc' = "select" /\ max_fd' = top
        /\ read_ready' = {} /\ write_ready' = {}
        /\ UNCHANGED <<fdVars, setVars, conns, idx, cgi, backlog, link, cur, top>>
    BY <1>4 DEF LoopEnd
  <2>2. SslSock <= top /\ \A i \in 1 .. Len(conns) : ConnMaxFd(conns[i]) <= top
    BY <1>0, <2>1, LenProperties DEF TopCovers, CoreType, PoolTypeOK
  <2>3. ASSUME NEW f \in read_set \cup write_set PROVE f <= top
    <3>1. f \in Fd /\ fdt[f].what \in {"listen", "sock", "srv_in", "srv_err"}
      BY <1>0 DEF IInv, SelectSetsOpen
    <3>2. CASE fdt[f].what = "listen"
      BY <1>0, <2>2, <3>1, <3>2, LisoAssumption DEF IInv, Listeners, Fd, SslSock
    <3>3. CASE fdt[f].what # "listen"
      <4>1. PICK d \in Client : fdt[f] = Own(d, fdt[f].what)
        BY <1>0, <3>1, <3>3 DEF CoreType, PoolTypeOK, Desc, Own, Free
      <4>2. fd[d] = f \/ pipe[d]["srv_in"] = f \/ pipe[d]["srv_err"] = f
        BY <3>1, <3>3, <4>1 DEF IInv, FdsOwned, Ends
      <4>3. fd[d] # NoFd
        BY <3>1, <4>2, LisoAssumption DEF IInv, CgiPipes, Fd, NoFd, Ends
      <4>4. PICK i \in 1 .. Len(conns) : conns[i] = d
        BY <4>3 DEF IInv, PoolIndexed
      <4>5. f <= ConnMaxFd(d) /\ ConnMaxFd(d) \in Int
        BY <1>0, <4>2, ConnMaxFdFacts, LisoAssumption DEF Fd, NoFd
      <4> QED
        BY <1>0, <2>2, <3>1, <4>4, <4>5, LisoAssumption DEF Fd
    <3> QED
      BY <3>2, <3>3
  <2>4. MaxFdCovers' /\ TopCovers' /\ Writing'
    BY <2>1, <2>3 DEF MaxFdCovers, TopCovers, Writing
  <2> QED
    BY <1>0, <2>1, <2>4 DEF Labels
<1>5. ASSUME Clients PROVE QuietStep
  <2>1. /\ UNCHANGED <<pc, cur, top, fdVars, setVars, conns, idx, cgi, max_fd,
                        read_ready, write_ready>>
    BY <1>5 DEF Clients, Connect, ClientSend, ClientRead, ClientHalfClose, ClientLeave,
                serverUnchanged
  <2>2. /\ backlog' \subseteq Client /\ link' \in [Client -> {"off", "open", "half", "gone"}]
        /\ \A c \in Client :
             /\ link'[c] = "off" => link[c] = "off" /\ (c \in backlog' => c \in backlog)
             /\ c \in backlog' => c \in backlog \/ link[c] = "off"
    BY <1>0, <1>5 DEF Clients, Connect, ClientSend, ClientRead, ClientHalfClose, ClientLeave,
                serverUnchanged
  <2>3. TopCovers' /\ Writing' /\ MaxFdCovers'
    BY <1>0, <2>1 DEF TopCovers, Writing, MaxFdCovers, ConnMaxFd
  <2> QED
    BY <1>0, <2>1, <2>2, <2>3
<1>6. ASSUME Programs PROVE QuietStep
  <2>1. UNCHANGED <<pc, cur, top, fdVars, setVars, conns, idx, cgi, max_fd,
                    read_ready, write_ready, backlog, link>>
    BY <1>6 DEF Programs, CgiRead, CgiEof, CgiWrite, CgiErr, CgiExit, cgiUnchanged,
                serverUnchanged
  <2>2. TopCovers' /\ Writing' /\ MaxFdCovers'
    BY <1>0, <2>1 DEF TopCovers, Writing, MaxFdCovers, ConnMaxFd
  <2> QED
    BY <1>0, <2>1, <2>2
<1> QED
  BY <1>1, <1>2, <1>3, <1>4, <1>5, <1>6

-----------------------------------------------------------------------------
(* The handlers                                                            *)

VisitStep == SocketStep \/ ResetStep \/ DropStep \/ CloseEndStep \/ OpenStep

(* What is left alone is within what a SocketStep may do.                  *)
LEMMA LeftAlone ==
  ASSUME CoreType
  PROVE  /\ UNCHANGED cgi => CgiMoves
         /\ UNCHANGED fdt => Leaked /\ fdt' \in [Fd -> Desc]
         /\ UNCHANGED setVars => Watched
<1>1. ASSUME UNCHANGED cgi PROVE CgiMoves
  BY <1>1 DEF CgiMoves, CoreType
<1>2. ASSUME UNCHANGED fdt PROVE Leaked /\ fdt' \in [Fd -> Desc]
  <2>1. Leaked
    BY <1>2 DEF Leaked
  <2>2. fdt' \in [Fd -> Desc]
    BY <1>2 DEF CoreType, PoolTypeOK
  <2> QED
    BY <2>1, <2>2
<1>3. ASSUME UNCHANGED setVars PROVE Watched
  BY <1>3 DEF Watched, setVars
<1> QED
  BY <1>1, <1>2, <1>3

(* A step of one record of cgi that keeps the phase, or gives the CGI up.  *)
LEMMA CgiStep ==
  ASSUME CoreType, NEW c \in Client, NEW new \in CgiType,
         cgi' = [cgi EXCEPT ![c] = new],
         new.phase \in {"IDLE", "READY"} => cgi[c].phase \in {"IDLE", "READY"},
         new.phase = "SRV_TO_CGI" => cgi[c].phase = "SRV_TO_CGI"
  PROVE  CgiMoves /\ cgi'[c] = new
BY DEF CgiMoves, CoreType

(* Free descriptors that are opened and stored nowhere.                    *)
LEMMA FreeLeaked ==
  ASSUME CoreType, conn \in Client, NEW S \in SUBSET FreeFds,
         fdt' = [f \in Fd |-> IF f \in S THEN Own(conn, "leak") ELSE fdt[f]]
  PROVE  Leaked /\ fdt' \in [Fd -> Desc]
<1>1. \A f \in S : f \in Fd /\ fdt[f] = Free
  BY DEF FreeFds
<1>2. Leaked
  BY <1>1 DEF Leaked
<1>3. Own(conn, "leak") \in Desc
  BY DEF Own, Desc
<1>4. \A f \in Fd : fdt'[f] \in Desc
  BY <1>3 DEF CoreType, PoolTypeOK
<1> QED
  BY <1>2, <1>4

(* The handlers that receive and parse.                                    *)
LEMMA ReceivingSteps ==
  ASSUME IInv, RecvSkip \/ Handshake \/ HandshakeFail \/ RecvIgnore \/ RecvData
  PROVE  VisitStep
<1> USE DEF At, loopVars, poolVars, setVars, fdVars, msgVars
<1>0. CoreType /\ (pc = "recv" /\ cur <= Len(conns) => conn \in Client /\ cgi[conn] \in CgiType)
  BY ConnFacts DEF IInv, CoreType
<1>1. ASSUME RecvSkip \/ Handshake PROVE SocketStep
  BY <1>0, <1>1, LeftAlone
     DEF RecvSkip, Receiving, Handshake, SocketStep, SameVisit, Labels
<1>2. ASSUME HandshakeFail PROVE DropStep
  BY <1>2 DEF HandshakeFail, Receiving, DropStep
<1>3. ASSUME RecvIgnore PROVE SocketStep \/ DropStep
  <2>1. PICK r \in RecvResults(conn, BUFSZ) :
       \/ /\ r.data = << >>
          /\ DropConn(conn)
          /\ UNCHANGED <<readyVars, netVars, out, proc>>
       \/ /\ IF Overfull(conn) THEN ConnErr(conn, req[conn], 400)
             ELSE UNCHANGED <<req, resp, write_set>>
          /\ pc' = "logerr"
          /\ UNCHANGED <<loopVars, poolVars, read_set, readyVars, fdVars, cgi, netVars>>
    BY <1>3 DEF RecvIgnore
  <2>2. pc = "recv" /\ cur <= Len(conns)
    BY <1>3 DEF RecvIgnore, Receiving
  <2>3. CASE DropConn(conn) /\ UNCHANGED <<readyVars, netVars, out, proc>>
    BY <2>2, <2>3 DEF DropStep
  <2>4. CASE /\ IF Overfull(conn) THEN ConnErr(conn, req[conn], 400)
                ELSE UNCHANGED <<req, resp, write_set>>
             /\ pc' = "logerr"
             /\ UNCHANGED <<loopVars, poolVars, read_set, readyVars, fdVars, cgi, netVars>>
    <3>1. Watched
      BY <2>4 DEF Watched, ConnErr
    <3> QED
      BY <1>0, <2>2, <2>4, <3>1, LeftAlone DEF SocketStep, SameVisit, Labels
  <2> QED
    BY <2>1, <2>3, <2>4
<1>4. ASSUME RecvData PROVE SocketStep \/ DropStep
  <2>1. PICK p :
       \/ /\ DropConn(conn)
          /\ UNCHANGED <<readyVars, netVars, out, proc>>
       \/ /\ IF p.status # 0
             THEN ConnErr(conn, p.req, p.status) /\ UNCHANGED cgi
             ELSE /\ cgi' = [cgi EXCEPT ![conn] = CgiParsed(@, p.req)]
                  /\ UNCHANGED write_set
          /\ pc' = "logerr"
          /\ UNCHANGED <<loopVars, poolVars, read_set, readyVars, fdVars, netVars>>
    BY <1>4 DEF RecvData
  <2>2. pc = "recv" /\ cur <= Len(conns)
    BY <1>4 DEF RecvData, Receiving
  <2>3. CASE DropConn(conn) /\ UNCHANGED <<readyVars, netVars, out, proc>>
    BY <2>2, <2>3 DEF DropStep
  <2>4. CASE /\ IF p.status # 0
                THEN ConnErr(conn, p.req, p.status) /\ UNCHANGED cgi
                ELSE /\ cgi' = [cgi EXCEPT ![conn] = CgiParsed(@, p.req)]
                     /\ UNCHANGED write_set
             /\ pc' = "logerr"
             /\ UNCHANGED <<loopVars, poolVars, read_set, readyVars, fdVars, netVars>>
    <3>1. Watched
      BY <2>4 DEF Watched, ConnErr
    <3>2. CgiMoves
      <4>1. cgi' = cgi \/ cgi' = [cgi EXCEPT ![conn] = CgiParsed(cgi[conn], p.req)]
        BY <2>4
      <4>2. CASE cgi' = cgi
        BY <1>0, <4>2, LeftAlone
      <4>3. CASE cgi' = [cgi EXCEPT ![conn] = CgiParsed(cgi[conn], p.req)]
        <5> DEFINE new == CgiParsed(cgi[conn], p.req)
        <5>1. /\ new \in CgiType
              /\ new.phase \in {"IDLE", "READY"} => cgi[conn].phase \in {"IDLE", "READY"}
              /\ new.phase = "SRV_TO_CGI" => cgi[conn].phase = "SRV_TO_CGI"
          BY <1>0, <2>2, CgiParsedFacts
        <5> HIDE DEF new
        <5> QED
          BY <1>0, <2>2, <4>3, <5>1, CgiStep DEF new
      <4> QED
        BY <4>1, <4>2, <4>3
    <3> QED
      BY <1>0, <2>2, <2>4, <3>1, <3>2, LeftAlone DEF SocketStep, SameVisit, Labels
  <2> QED
    BY <2>1, <2>3, <2>4
<1> QED
  BY <1>1, <1>2, <1>3, <1>4 DEF VisitStep

(* The handlers up to the writing loop.                                    *)
LEMMA PreparingSteps ==
  ASSUME IInv,
         \/ LogErr \/ Prepare \/ InitCgiSkip \/ InitCgiNoPipe \/ InitCgiFail \/ InitCgi
         \/ ForSelect
  PROVE  VisitStep
<1> USE DEF At, loopVars, poolVars, setVars, fdVars, msgVars
<1>0. CoreType /\ (cur <= Len(conns) => conn \in Client /\ cgi[conn] \in CgiType)
  BY ConnFacts DEF IInv, CoreType
<1>1. ASSUME LogErr \/ InitCgiSkip PROVE SocketStep
  BY <1>0, <1>1, LeftAlone
     DEF LogErr, InitCgiSkip, SocketStep, SameVisit, Labels
<1>2. ASSUME Prepare PROVE SocketStep
  <2>1. /\ pc = "prepare" /\ cur <= Len(conns) /\ pc' = "init_cgi"
        /\ UNCHANGED <<loopVars, poolVars, read_set, readyVars, fd, pipe, cgi, netVars>>
    BY <1>2 DEF Prepare, ConnErr
  <2>2. write_set' = write_set \/ write_set' = write_set \cup {fd[conn]}
    BY <1>2 DEF Prepare, ConnErr
  <2>3. \/ fdt' = fdt
        \/ \E size : fdt' = [f \in Fd |-> IF size = 0 /\ IsLowest(FreeFds, f)
                                       THEN Own(conn, "leak") ELSE fdt[f]]
    BY <1>2 DEF Prepare, ConnErr
  <2>5. Leaked /\ fdt' \in [Fd -> Desc]
    <3>1. ASSUME NEW size, fdt' = [f \in Fd |-> IF size = 0 /\ IsLowest(FreeFds, f)
                                               THEN Own(conn, "leak") ELSE fdt[f]]
          PROVE  Leaked /\ fdt' \in [Fd -> Desc]
      <4> DEFINE S == {f \in FreeFds : size = 0 /\ IsLowest(FreeFds, f)}
      <4>1. \A f \in Fd : size = 0 /\ IsLowest(FreeFds, f) <=> f \in S
        BY DEF IsLowest
      <4>2. fdt' = [f \in Fd |-> IF f \in S THEN Own(conn, "leak") ELSE fdt[f]]
        BY <3>1, <4>1
      <4> QED
        BY <1>0, <2>1, <4>2, FreeLeaked
    <3> QED
      BY <1>0, <2>3, <3>1, LeftAlone
  <2> QED
    BY <1>0, <2>1, <2>2, <2>5, LeftAlone DEF SocketStep, SameVisit, Watched, Labels
<1>3. ASSUME InitCgiNoPipe PROVE SocketStep
  <2>1. /\ pc = "init_cgi" /\ cur <= Len(conns) /\ pc' = "for_select"
        /\ UNCHANGED <<loopVars, poolVars, read_set, readyVars, fd, pipe, netVars>>
        /\ write_set' = write_set \cup {fd[conn]}
        /\ cgi' = [cgi EXCEPT ![conn].phase = "ABORT"]
    BY <1>3 DEF InitCgiNoPipe, CgiFailed, ConnErr
  <2>2. PICK S \in SUBSET FreeFds :
          fdt' = [f \in Fd |-> IF f \in S THEN Own(conn, "leak") ELSE fdt[f]]
    BY <1>3 DEF InitCgiNoPipe
  <2>4. Leaked /\ fdt' \in [Fd -> Desc]
    BY <1>0, <2>1, <2>2, FreeLeaked
  <2>5. CgiMoves
    BY <1>0, <2>1 DEF CgiMoves, CgiType, CoreType
  <2> QED
    BY <1>0, <2>1, <2>4, <2>5 DEF SocketStep, SameVisit, Watched, Labels
<1>4. ASSUME InitCgiFail PROVE OpenStep
  <2>1. /\ pc = "init_cgi" /\ cur <= Len(conns) /\ pc' = "for_select"
        /\ cgi[conn].phase = "READY"
        /\ UNCHANGED <<loopVars, poolVars, read_set, readyVars, fd, netVars>>
        /\ write_set' = write_set \cup {fd[conn]}
        /\ cgi' = [cgi EXCEPT ![conn].phase = "ABORT"]
    BY <1>4 DEF InitCgiFail, CgiFailed, ConnErr, Starting
  <2>2. PICK p \in NewPipes :
          /\ pipe' = [pipe EXCEPT ![conn] = p]
          /\ fdt' = [f \in Fd |-> IF \E e \in Ends : p[e] = f
                                  THEN Own(conn, CHOOSE e \in Ends : p[e] = f)
                                  ELSE fdt[f]]
    BY <1>4 DEF InitCgiFail
  <2>3. p = [e \in Ends |-> IF e \in Ends THEN p[e] ELSE NoFd]
    BY NewPipesFacts
  <2>4. OpenPipes(p, Ends)
    BY <2>1, <2>2, <2>3 DEF OpenPipes
  <2>5. /\ cgi' \in [Client -> CgiType] /\ cgi'[conn].phase = "ABORT"
        /\ \A c \in Client : c # conn => cgi'[c] = cgi[c]
    BY <1>0, <2>1 DEF CgiType, CoreType
  <2> QED
    BY <2>1, <2>4, <2>5 DEF OpenStep
<1>5. ASSUME InitCgi PROVE OpenStep
  <2>1. /\ pc = "init_cgi" /\ cur <= Len(conns) /\ pc' = "for_select"
        /\ cgi[conn].phase = "READY"
        /\ UNCHANGED <<loopVars, poolVars, write_set, readyVars, fd, netVars>>
        /\ cgi' = [cgi EXCEPT ![conn].phase = "SRV_TO_CGI"]
    BY <1>5 DEF InitCgi, Starting
  <2>2. PICK p \in NewPipes : OpenPipes(p, SrvEnds)
    BY <1>5 DEF InitCgi, OpenPipes
  <2>3. /\ cgi' \in [Client -> CgiType] /\ cgi'[conn].phase = "SRV_TO_CGI"
        /\ \A c \in Client : c # conn => cgi'[c] = cgi[c]
    BY <1>0, <2>1 DEF CgiType, CoreType
  <2> QED
    BY <2>1, <2>2, <2>3 DEF OpenStep
<1>6. ASSUME ForSelect PROVE SocketStep
  <2>1. Watched
    BY <1>6 DEF ForSelect, Watched
  <2> QED
    BY <1>0, <1>6, <2>1, LeftAlone DEF ForSelect, SocketStep, SameVisit, Labels
<1> QED
  BY <1>1, <1>2, <1>3, <1>4, <1>5, <1>6 DEF VisitStep

(* The handlers that stream to and from the CGI program.                   *)
LEMMA StreamingSteps ==
  ASSUME IInv,
         \/ ToCgi \/ WriteSome \/ WriteShort \/ WriteFail \/ WriteDone
         \/ FromCgiSkip \/ FromCgi \/ FromCgiEof \/ FromCgiFail
  PROVE  VisitStep
<1> USE DEF At, loopVars, poolVars, setVars, fdVars, msgVars, writeUnchanged
<1>0. /\ CoreType /\ (pc = "write" => cur <= Len(conns) /\ cgi[conn].phase = "SRV_TO_CGI")
      /\ (cur <= Len(conns) => conn \in Client /\ cgi[conn] \in CgiType)
  BY ConnFacts DEF IInv, CoreType, Writing, conn
<1>1. ASSUME ToCgi \/ WriteSome \/ WriteShort \/ FromCgiSkip PROVE SocketStep
  <2>1. /\ pc \in {"to_cgi", "write", "from_cgi"} /\ cur <= Len(conns)
        /\ pc' \in {"write", "from_cgi", "dynamic"}
        /\ pc' = "write" => cgi[conn].phase = "SRV_TO_CGI"
        /\ UNCHANGED <<cur, top, poolVars, setVars, readyVars, fdVars, cgi, netVars>>
    BY <1>0, <1>1 DEF ToCgi, WriteSome, WriteShort, FromCgiSkip
  <2> QED
    BY <1>0, <2>1, LeftAlone DEF SocketStep, SameVisit, Labels
<1>2. ASSUME WriteFail PROVE SocketStep
  <2>1. Watched
    BY <1>2 DEF WriteFail, ConnErr, Watched
  <2> QED
    BY <1>0, <1>2, <2>1, LeftAlone DEF WriteFail, SocketStep, SameVisit, Labels
<1>3. ASSUME WriteDone PROVE SocketStep \/ CloseEndStep
  <2>1. /\ pc = "write" /\ cur <= Len(conns) /\ pc' = "from_cgi"
        /\ UNCHANGED <<cur, top, poolVars, write_set, readyVars, fd, netVars>>
    BY <1>3 DEF WriteDone
  <2>2. CASE req[conn].phase = "DONE"
    <3>1. /\ ClosePipe(conn, "srv_out")
          /\ read_set' = read_set \cup {pipe[conn]["srv_in"]}
          /\ cgi' = [cgi EXCEPT ![conn].phase = "CGI_TO_SRV"]
      BY <1>3, <2>2 DEF WriteDone
    <3>2. CgiMoves /\ cgi'[conn].phase # "SRV_TO_CGI"
      BY <1>0, <2>1, <3>1 DEF CgiMoves, CgiType, CoreType
    <3> QED
      BY <1>0, <2>1, <3>1, <3>2 DEF CloseEndStep, SameVisit, Labels
  <2>3. CASE req[conn].phase # "DONE"
    <3>1. UNCHANGED <<fdt, pipe, read_set, cgi>>
      BY <1>3, <2>3 DEF WriteDone
    <3> QED
      BY <1>0, <2>1, <3>1, LeftAlone DEF SocketStep, SameVisit, Labels
  <2> QED
    BY <2>2, <2>3
<1>4. ASSUME FromCgi PROVE SocketStep
  <2>1. /\ pc = "from_cgi" /\ cur <= Len(conns) /\ pc' = "dynamic"
        /\ UNCHANGED <<loopVars, poolVars, read_set, readyVars, fdVars, netVars>>
        /\ write_set' = write_set \cup {fd[conn]}
        /\ cgi' = [cgi EXCEPT ![conn].buf_phase = "SEND"]
    BY <1>4 DEF FromCgi, Streaming
  <2>2. CgiMoves
    BY <1>0, <2>1 DEF CgiMoves, CgiType, CoreType
  <2> QED
    BY <1>0, <2>1, <2>2, LeftAlone DEF SocketStep, SameVisit, Watched, Labels
<1>5. ASSUME FromCgiEof PROVE CloseEndStep
  <2>1. /\ pc = "from_cgi" /\ cur <= Len(conns) /\ pc' = "dynamic"
        /\ cgi[conn].phase = "CGI_TO_SRV"
        /\ UNCHANGED <<loopVars, poolVars, readyVars, fd, netVars>>
        /\ write_set' = write_set \cup {fd[conn]}
        /\ read_set' = read_set \ {pipe[conn]["srv_in"]}
        /\ ClosePipe(conn, "srv_in")
        /\ cgi' = [cgi EXCEPT ![conn].phase = "DONE", ![conn].buf_phase = "SEND"]
    BY <1>5 DEF FromCgiEof, Streaming
  <2>2. CgiMoves /\ cgi'[conn].phase # "SRV_TO_CGI"
    BY <1>0, <2>1 DEF CgiMoves, CgiType, CoreType
  <2> QED
    BY <1>0, <2>1, <2>2 DEF CloseEndStep, SameVisit, Labels
<1>6. ASSUME FromCgiFail PROVE SocketStep
  <2>1. /\ pc = "from_cgi" /\ cur <= Len(conns) /\ pc' = "dynamic"
        /\ UNCHANGED <<loopVars, poolVars, read_set, readyVars, fdVars, netVars>>
        /\ write_set' = write_set \cup {fd[conn]}
        /\ cgi' = [cgi EXCEPT ![conn].phase = "ABORT"]
    BY <1>6 DEF FromCgiFail, Streaming, ConnErr
  <2>2. CgiMoves
    BY <1>0, <2>1 DEF CgiMoves, CgiType, CoreType
  <2> QED
    BY <1>0, <2>1, <2>2, LeftAlone DEF SocketStep, SameVisit, Watched, Labels
<1> QED
  BY <1>1, <1>2, <1>3, <1>4, <1>5, <1>6 DEF VisitStep

(* A response that ends: the connection is reset or dropped.               *)
LEMMA FinishSteps ==
  ASSUME IInv, cur <= Len(conns), pc \notin {"select", "accept", "accept_ssl"},
         NEW clear \in BOOLEAN, NEW next \in {"static", "max_fd"},
         Finish(conn, clear, next), UNCHANGED <<readyVars, netVars>>
  PROVE  VisitStep
<1>1. CASE req[conn].alive
  BY <1>1 DEF Finish, ResetStep, VisitStep
<1>2. CASE ~req[conn].alive
  BY <1>2 DEF Finish, DropStep, VisitStep
<1> QED
  BY <1>1, <1>2

(* The handlers that send a response.                                      *)
LEMMA ServingSteps ==
  ASSUME IInv,
         \/ DynamicSkip \/ DynamicEnd \/ ServeDynamic
         \/ StaticSkip \/ SendErrorPage \/ SendHeader \/ SendBody
  PROVE  VisitStep
<1> USE DEF At, loopVars, poolVars, setVars, fdVars, msgVars, staticUnchanged
<1>0. /\ CoreType
      /\ (cur <= Len(conns) => conn \in Client /\ cgi[conn] \in CgiType)
  BY ConnFacts DEF IInv, CoreType
<1>1. ASSUME DynamicSkip \/ StaticSkip PROVE SocketStep
  BY <1>0, <1>1, LeftAlone DEF DynamicSkip, StaticSkip, SocketStep, SameVisit, Labels
<1>2. ASSUME DynamicEnd PROVE VisitStep
  BY <1>2, FinishSteps DEF DynamicEnd, ServingDynamic
<1>3. ASSUME ServeDynamic PROVE SocketStep \/ DropStep
  <2>1. pc = "dynamic" /\ cur <= Len(conns)
    BY <1>3 DEF ServeDynamic, ServingDynamic
  <2>2. PICK n \in SendResults(conn, Len(buf[conn].rest)) :
       \/ /\ DropConn(conn)
          /\ UNCHANGED <<readyVars, netVars, out, proc>>
       \/ /\ IF n = Len(buf[conn].rest)
             THEN /\ cgi' = [cgi EXCEPT ![conn].buf_phase = "RECV"]
                  /\ write_set' = write_set \ {fd[conn]}
             ELSE UNCHANGED <<cgi, write_set>>
          /\ pc' = "static"
          /\ UNCHANGED <<loopVars, poolVars, read_set, readyVars, fdVars, netVars>>
    BY <1>3 DEF ServeDynamic
  <2>3. CASE DropConn(conn) /\ UNCHANGED <<readyVars, netVars, out, proc>>
    BY <2>1, <2>3 DEF DropStep
  <2>4. CASE /\ IF n = Len(buf[conn].rest)
                THEN /\ cgi' = [cgi EXCEPT ![conn].buf_phase = "RECV"]
                     /\ write_set' = write_set \ {fd[conn]}
                ELSE UNCHANGED <<cgi, write_set>>
             /\ pc' = "static"
             /\ UNCHANGED <<loopVars, poolVars, read_set, readyVars, fdVars, netVars>>
    <3>1. Watched
      BY <2>4 DEF Watched
    <3>2. CgiMoves
      <4>1. CASE cgi' = cgi
        BY <1>0, <4>1, LeftAlone
      <4>2. CASE cgi' = [cgi EXCEPT ![conn].buf_phase = "RECV"]
        BY <1>0, <2>1, <4>2 DEF CgiMoves, CgiType, CoreType
      <4> QED
        BY <2>4, <4>1, <4>2
    <3> QED
      BY <1>0, <2>1, <2>4, <3>1, <3>2, LeftAlone DEF SocketStep, SameVisit, Labels
  <2> QED
    BY <2>2, <2>3, <2>4
<1>4. ASSUME SendErrorPage \/ SendHeader \/ SendBody PROVE VisitStep
  <2>1. pc = "static" /\ cur <= Len(conns) /\ UNCHANGED <<readyVars, netVars>>
    BY <1>4 DEF SendErrorPage, SendHeader, SendBody, ServingStatic
  <2>2. \/ DropConn(conn)
        \/ Finish(conn, FALSE, "max_fd")
        \/ pc' = "max_fd" /\ UNCHANGED <<loopVars, poolVars, setVars, fdVars, cgi>>
    BY <1>4 DEF SendErrorPage, SendHeader, SendBody
  <2>3. CASE DropConn(conn)
    BY <2>1, <2>3 DEF DropStep, VisitStep
  <2>4. CASE Finish(conn, FALSE, "max_fd")
    BY <2>1, <2>4, FinishSteps
  <2>5. CASE pc' = "max_fd" /\ UNCHANGED <<loopVars, poolVars, setVars, fdVars, cgi>>
    BY <1>0, <2>1, <2>5, LeftAlone DEF SocketStep, SameVisit, Labels, VisitStep
  <2> QED
    BY <2>2, <2>3, <2>4, <2>5
<1> QED
  BY <1>1, <1>2, <1>3, <1>4 DEF VisitStep

-----------------------------------------------------------------------------
(* The theorems                                                            *)

(* main enters its loop with the listeners open and no connection.         *)
LEMMA InitInv == Init => IInv
<1> SUFFICES ASSUME Init PROVE IInv
  OBVIOUS
<1> USE DEF Init
<1>1. /\ 0 \in Fd /\ 1 \in Fd /\ 2 \in Fd /\ NoFd \notin Fd
      /\ MAX_CONNS \in Nat
  BY LisoAssumption DEF Fd, NoFd
<1>2. \A f \in Fd : fdt[f] \in {Free, [what |-> "std"], [what |-> "listen"]}
  OBVIOUS
<1>3. CoreType
  <2>1. {Free, [what |-> "std"], [what |-> "listen"]} \subseteq Desc
    BY DEF Desc
  <2>2. fdt \in [Fd -> Desc]
    BY <2>1
  <2>3. conns \in Seq(Client) /\ NewCgi \in CgiType /\ NoPipes \in [Ends -> Fd \cup {NoFd}]
    BY DEF NewCgi, CgiType, NoPipes
  <2> QED
    BY <1>1, <2>2, <2>3 DEF CoreType, PoolTypeOK, Labels, Sock, SslSock
<1>4. FdsOwned
  <2>1. \A f \in Fd : \A c, x : fdt[f] # Own(c, x)
    BY <1>2 DEF Own, Free
  <2> QED
    BY <2>1 DEF FdsOwned, NoPipes
<1>5. PoolIndexed
  BY <1>1 DEF PoolIndexed
<1>6. SelectSetsOpen
  <2>1. fdt[Sock].what = "listen" /\ fdt[SslSock].what = "listen"
    BY <1>1 DEF Sock, SslSock, Std
  <2> QED
    BY <2>1 DEF SelectSetsOpen
<1>7. MaxFdCovers
  BY DEF MaxFdCovers, Sock, SslSock
<1>8. Newcomers /\ CgiPipes
  BY DEF Newcomers, CgiPipes, NewCgi, NoPipes
<1>9. Writing /\ TopCovers
  BY DEF Writing, TopCovers
<1>10. Listeners
  BY DEF Listeners, Free, Sock, SslSock, Std
<1> QED
  BY <1>3, <1>4, <1>5, <1>6, <1>7, <1>8, <1>9, <1>10 DEF IInv

(* Every handler, client and program step keeps IInv: it is of one of the  *)
(* classes of steps above.                                                 *)
LEMMA NextInv == IInv /\ [Next]_vars => IInv'
<1> SUFFICES ASSUME IInv, [Next]_vars PROVE IInv'
  OBVIOUS
<1>1. CASE VisitStep
  BY <1>1, SocketStepInv, ResetStepInv, DropStepInv, CloseEndStepInv, OpenStepInv
     DEF VisitStep
<1>2. CASE QuietStep
  BY <1>2, QuietStepInv
<1>3. CASE Server
  <2>1. CASE Select \/ AcceptSkip \/ AcceptRefuse \/ MaxFd \/ LoopEnd
    BY <1>2, <2>1, QuietSteps
  <2>2. CASE AcceptConn
    BY <2>2, AcceptConnInv
  <2>3. CASE RecvSkip \/ Handshake \/ HandshakeFail \/ RecvIgnore \/ RecvData
    BY <1>1, <2>3, ReceivingSteps
  <2>4. CASE \/ LogErr \/ Prepare \/ InitCgiSkip \/ InitCgiNoPipe \/ InitCgiFail
             \/ InitCgi \/ ForSelect
    BY <1>1, <2>4, PreparingSteps
  <2>5. CASE \/ ToCgi \/ WriteSome \/ WriteShort \/ WriteFail \/ WriteDone
             \/ FromCgiSkip \/ FromCgi \/ FromCgiEof \/ FromCgiFail
    BY <1>1, <2>5, StreamingSteps
  <2>6. CASE \/ DynamicSkip \/ DynamicEnd \/ ServeDynamic
             \/ StaticSkip \/ SendErrorPage \/ SendHeader \/ SendBody
    BY <1>1, <2>6, ServingSteps
  <2> QED
    BY <1>3, <2>1, <2>2, <2>3, <2>4, <2>5, <2>6 DEF Server
<1>4. CASE Clients \/ Programs
  BY <1>2, <1>4, QuietSteps
<1>5. CASE UNCHANGED vars
  <2>1. UNCHANGED <<pc, cur, top, conns, idx, max_fd, read_set, write_set, read_ready,
                    write_ready, fdt, fd, pipe, cgi, backlog, link>>
    BY <1>5 DEF vars, loopVars, poolVars, setVars, readyVars, fdVars, msgVars, netVars
  <2>2. CoreType' /\ Newcomers' /\ CgiPipes' /\ Writing' /\ Listeners' /\ TopCovers'
    BY <2>1 DEF IInv, CoreType, PoolTypeOK, Newcomers, CgiPipes, Writing, Listeners,
                TopCovers, ConnMaxFd
  <2>3. FdsOwned' /\ PoolIndexed' /\ SelectSetsOpen' /\ MaxFdCovers'
    BY <2>1 DEF IInv, FdsOwned, PoolIndexed, SelectSetsOpen, MaxFdCovers
  <2> QED
    BY <2>2, <2>3 DEF IInv
<1> QED
  BY <1>3, <1>4, <1>5 DEF Next

(* IInv is an inductive invariant of the server, its clients and programs. *)
THEOREM Invariant == Spec => []IInv
<1>1. Init => IInv
  BY InitInv
<1>2. IInv /\ [Next]_vars => IInv'
  BY NextInv
<1> QED
  BY <1>1, <1>2, PTL DEF Spec

(* The pool and the descriptor table keep their types: what lisod.c, pool.c*)
(* and cgi.c store in a field is a descriptor of the process or none.      *)
THEOREM PoolTypeCorrect == Spec => []PoolTypeOK
<1>1. IInv => PoolTypeOK
  BY DEF IInv, CoreType
<1> QED
  BY <1>1, Invariant, PTL

(* No close, send or read of the server hits a descriptor of another       *)
(* connection: the fields of the pool and the kernel's table agree         *)
(* (close_pipe, cgi_reset, cn_free).                                       *)
THEOREM FdsAreOwned == Spec => []FdsOwned
<1>1. IInv => FdsOwned
  BY DEF IInv
<1> QED
  BY <1>1, Invariant, PTL

(* The swap in pl_del_conn keeps array, indices and sockets consistent,    *)
(* whatever the loop drops and accepts.                                    *)
THEOREM PoolIsIndexed == Spec => []PoolIndexed
<1>1. IInv => PoolIndexed
  BY DEF IInv
<1> QED
  BY <1>1, Invariant, PTL

(* select never fails with EBADF: pl_reset_conn, pl_del_conn and main      *)
(* clear a descriptor from the sets before it is closed.                   *)
THEOREM SelectSetsAreOpen == Spec => []SelectSetsOpen
<1>1. IInv => SelectSetsOpen
  BY DEF IInv
<1> QED
  BY <1>1, Invariant, PTL

(* select is never called with a max_fd below a selected descriptor, which *)
(* would leave that descriptor unwatched (lisod.c, "Update max_fd").       *)
THEOREM MaxFdIsEnough == Spec => []MaxFdCovers
<1>1. IInv => MaxFdCovers
  BY DEF IInv
<1> QED
  BY <1>1, Invariant, PTL

(* The loop over the pool keeps its place while connections come and go.   *)
LEMMA VisitedStep == IInv /\ [Next]_vars => [VisitedKept]_vars
<1> SUFFICES ASSUME IInv, Next, pc \notin {"select", "accept", "accept_ssl"},
                    pc' # "select"
             PROVE  VisitedKept
  BY DEF VisitedKept
<1>1. /\ CoreType /\ PoolIndexed
      /\ \A i \in 1 .. cur - 1 : i <= Len(conns)
  BY DEF IInv, TopCovers
<1> SUFFICES /\ \A i \in 1 .. cur - 1 : i <= Len(conns') /\ conns'[i] = conns[i]
             /\ \/ cur' = cur
                \/ cur' = cur + 1 /\ pc = "max_fd" /\ conns' = conns
  BY DEF VisitedKept
<1>2. CASE conns' = conns /\ cur' = cur
  BY <1>1, <1>2
<1>3. CASE DropStep
  <2>1. /\ conn \in Client /\ fd[conn] # NoFd /\ idx[conn] = cur
        /\ conns' = DelConns(conn) /\ idx' = DelIdx(conn)
        /\ fd' = [fd EXCEPT ![conn] = NoFd] /\ cur' = cur /\ cur <= Len(conns)
    BY <1>1, <1>3, ConnFacts DEF DropStep, DropConn, Revisit, loopVars
  <2>2. /\ Len(conns') = Len(conns) - 1
        /\ \A j \in 1 .. Len(conns) - 1 : j # idx[conn] => conns'[j] = conns[j]
    BY <1>1, <2>1, SwapFacts
  <2>3. cur \in Nat /\ Len(conns) \in Nat
    BY <1>1, LenProperties DEF CoreType, PoolTypeOK
  <2> QED
    BY <2>1, <2>2, <2>3
<1>4. CASE VisitStep
  BY <1>2, <1>3, <1>4
     DEF VisitStep, SocketStep, SameVisit, ResetStep, CloseEndStep, OpenStep, loopVars,
         poolVars
<1>5. CASE MaxFd
  BY <1>1, <1>5 DEF MaxFd, At, poolVars
<1>6. CASE Clients \/ Programs
  BY <1>2, <1>6 DEF Clients, Connect, ClientSend, ClientRead, ClientHalfClose,
       ClientLeave, Programs, CgiRead, CgiEof, CgiWrite, CgiErr, CgiExit, cgiUnchanged,
       serverUnchanged, loopVars, poolVars
<1>7. CASE Server
  <2>1. ~(Select \/ AcceptSkip \/ AcceptRefuse \/ AcceptConn \/ LoopEnd)
    BY DEF Select, AcceptSkip, AcceptRefuse, AcceptConn, Accepting, LoopEnd
  <2> QED
    BY <1>4, <1>5, <1>7, <2>1, ReceivingSteps, PreparingSteps, StreamingSteps, ServingSteps
       DEF Server
<1> QED
  BY <1>6, <1>7 DEF Next

(* No connection is skipped or served twice when one is dropped during the *)
(* loop: i -= 1 and the swap of pl_del_conn fit together (lisod.c main).   *)
THEOREM VisitedConnectionsStay == Spec => VisitedStay
<1>1. IInv /\ [Next]_vars => [VisitedKept]_vars
  BY VisitedStep
<1> QED
  BY <1>1, Invariant, PTL DEF Spec, VisitedStay

=============================================================================
