----------------------------- MODULE StreamProofs -----------------------------
(***************************************************************************)
(* Theorems about what flows through a connection: the units on the wire,  *)
(* inside OpenSSL, in the buffers and in the pipes, and which descriptors  *)
(* are watched for them.  WireInv and SentInv of RequestProofs are shown   *)
(* inductive here, and with RInv and IInv they give the properties of the  *)
(* requests for every set of clients and every value of the bounds.        *)
(***************************************************************************)
EXTENDS RequestProofs

-----------------------------------------------------------------------------
(* The wire                                                                *)

(* A step that leaves the wire as it is, and adds no connection.           *)
LEMMA WireKept ==
  ASSUME WireInv, UNCHANGED <<inq, pend, ssl, sent>>,
         \A c \in Client : InPool(c)' => InPool(c)
  PROVE  WireInv'
<1>1. \A c \in Client : OnlyRecords(c)' <=> OnlyRecords(c)
  BY DEF OnlyRecords
<1> QED
  BY <1>1 DEF WireInv

(* A step that changes the wire of one client only.                        *)
LEMMA WireOneChanged ==
  ASSUME WireInv, NEW c \in Client, NEW q \in Seq(WireUnit), NEW p \in Seq(InUnit),
         NEW x \in {"none", "handshake", "accepted"}, NEW n \in Nat,
         inq' = [inq EXCEPT ![c] = q], pend' = [pend EXCEPT ![c] = p],
         ssl' = [ssl EXCEPT ![c] = x], sent' = [sent EXCEPT ![c] = n],
         \A d \in Client \ {c} : InPool(d)' => InPool(d),
         c \notin Tls => q \in Seq(InUnit) /\ x = "none",
         c \in Tls /\ InPool(c)' => x # "none",
         x = "accepted" =>
           /\ q \in Seq(RecordUnit)
           /\ \A m \in n + 1 .. Len(Segments[c]) : Segments[c][m] \in Seq(RecordUnit),
         \A j \in 1 .. Len(q) : q[j] = HelloDone =>
           /\ \A k \in j + 1 .. Len(q) : q[k] \in RecordUnit
           /\ \A m \in n + 1 .. Len(Segments[c]) : Segments[c][m] \in Seq(RecordUnit)
  PROVE  WireInv'
<1>1. /\ inq' \in [Client -> Seq(WireUnit)] /\ pend' \in [Client -> Seq(InUnit)]
      /\ ssl' \in [Client -> {"none", "handshake", "accepted"}] /\ sent' \in [Client -> Nat]
  BY DEF WireInv
<1>2. inq'[c] = q /\ ssl'[c] = x /\ sent'[c] = n
  BY DEF WireInv
<1>3. \A d \in Client \ {c} : inq'[d] = inq[d] /\ ssl'[d] = ssl[d] /\ sent'[d] = sent[d]
  BY DEF WireInv
<1>4. ASSUME NEW d \in Client
      PROVE  /\ d \notin Tls => inq'[d] \in Seq(InUnit) /\ ssl'[d] = "none"
             /\ d \in Tls /\ InPool(d)' => ssl'[d] # "none"
             /\ ssl'[d] = "accepted" => OnlyRecords(d)'
             /\ \A j \in 1 .. Len(inq'[d]) : inq'[d][j] = HelloDone =>
                  /\ \A k \in j + 1 .. Len(inq'[d]) : inq'[d][k] \in RecordUnit
                  /\ \A m \in sent'[d] + 1 .. Len(Segments[d]) :
                       Segments[d][m] \in Seq(RecordUnit)
  <2>1. CASE d = c
    BY <1>2, <2>1 DEF OnlyRecords
  <2>2. CASE d # c
    BY <1>3, <2>2 DEF WireInv, OnlyRecords
  <2> QED
    BY <2>1, <2>2
<1> QED
  BY <1>1, <1>4 DEF WireInv

(* What is left alone is left as it was, for one client.                   *)
LEMMA WireSame ==
  ASSUME WireInv, NEW c \in Client
  PROVE  /\ inq = [inq EXCEPT ![c] = inq[c]] /\ pend = [pend EXCEPT ![c] = pend[c]]
         /\ ssl = [ssl EXCEPT ![c] = ssl[c]] /\ sent = [sent EXCEPT ![c] = sent[c]]
         /\ inq[c] \in Seq(WireUnit) /\ pend[c] \in Seq(InUnit)
         /\ ssl[c] \in {"none", "handshake", "accepted"} /\ sent[c] \in Nat
BY DEF WireInv

(* A client whose queue is emptied.                                        *)
LEMMA WireEmptied ==
  ASSUME WireInv, NEW c \in Client, NEW x \in {"none", ssl[c]},
         NEW p \in Seq(InUnit),
         inq' = [inq EXCEPT ![c] = << >>], pend' = [pend EXCEPT ![c] = p],
         ssl' = [ssl EXCEPT ![c] = x], UNCHANGED sent,
         \A d \in Client \ {c} : InPool(d)' => InPool(d),
         InPool(c)' => InPool(c) /\ x = ssl[c]
  PROVE  WireInv'
<1>1. /\ x \in {"none", "handshake", "accepted"} /\ sent[c] \in Nat
      /\ sent' = [sent EXCEPT ![c] = sent[c]]
  BY WireSame
<1>2. << >> \in Seq(WireUnit) /\ << >> \in Seq(InUnit) /\ << >> \in Seq(RecordUnit)
      /\ 1 .. Len(<< >>) = {}
  OBVIOUS
<1>3. c \notin Tls => x = "none"
  BY DEF WireInv
<1>4. c \in Tls /\ InPool(c)' => x # "none"
  BY DEF WireInv
<1>5. x = "accepted" =>
        \A m \in sent[c] + 1 .. Len(Segments[c]) : Segments[c][m] \in Seq(RecordUnit)
  BY DEF WireInv, OnlyRecords
<1> QED
  BY <1>1, <1>2, <1>3, <1>4, <1>5, WireOneChanged

(* A client whose first units are read, with its handshake as it was.      *)
LEMMA WireRead ==
  ASSUME WireInv, NEW c \in Client, NEW q \in Seq(WireUnit), Remains(q, inq[c]),
         NEW p \in Seq(InUnit),
         inq' = [inq EXCEPT ![c] = q], pend' = [pend EXCEPT ![c] = p],
         UNCHANGED <<ssl, sent, fd>>
  PROVE  WireInv'
<1>1. /\ inq[c] \in Seq(WireUnit) /\ ssl[c] \in {"none", "handshake", "accepted"}
      /\ sent[c] \in Nat
      /\ ssl' = [ssl EXCEPT ![c] = ssl[c]] /\ sent' = [sent EXCEPT ![c] = sent[c]]
  BY WireSame
<1>2. PICK k \in 0 .. Len(inq[c]) :
        Len(q) = Len(inq[c]) - k /\ \A i \in 1 .. Len(inq[c]) - k : q[i] = inq[c][k + i]
  BY DEF Remains
<1>3. Len(inq[c]) \in Nat /\ k \in Nat /\ Len(q) \in Nat
  BY <1>1
<1>4. ASSUME NEW S, inq[c] \in Seq(S) PROVE q \in Seq(S)
  <2>1. \A i \in 1 .. Len(q) : q[i] \in S
    BY <1>2, <1>3, <1>4
  <2> QED
    BY <2>1
<1>5. c \notin Tls => q \in Seq(InUnit) /\ ssl[c] = "none"
  BY <1>4 DEF WireInv
<1>6. c \in Tls /\ InPool(c)' => ssl[c] # "none"
  BY DEF WireInv, InPool
<1>7. ssl[c] = "accepted" =>
        /\ q \in Seq(RecordUnit)
        /\ \A m \in sent[c] + 1 .. Len(Segments[c]) : Segments[c][m] \in Seq(RecordUnit)
  BY <1>4 DEF WireInv, OnlyRecords
<1>8. ASSUME NEW j \in 1 .. Len(q), q[j] = HelloDone
      PROVE  /\ \A i \in j + 1 .. Len(q) : q[i] \in RecordUnit
             /\ \A m \in sent[c] + 1 .. Len(Segments[c]) : Segments[c][m] \in Seq(RecordUnit)
  <2>1. k + j \in 1 .. Len(inq[c]) /\ inq[c][k + j] = HelloDone
    BY <1>2, <1>3, <1>8
  <2>2. /\ \A i \in k + j + 1 .. Len(inq[c]) : inq[c][i] \in RecordUnit
        /\ \A m \in sent[c] + 1 .. Len(Segments[c]) : Segments[c][m] \in Seq(RecordUnit)
    BY <2>1 DEF WireInv
  <2>3. ASSUME NEW i \in j + 1 .. Len(q) PROVE q[i] \in RecordUnit
    <3>1. k + i \in k + j + 1 .. Len(inq[c]) /\ q[i] = inq[c][k + i]
      BY <1>2, <1>3
    <3> QED
      BY <2>2, <3>1
  <2> QED
    BY <2>2, <2>3
<1>9. \A d \in Client \ {c} : InPool(d)' => InPool(d)
  BY DEF InPool
<1> QED
  BY <1>1, <1>5, <1>6, <1>7, <1>8, <1>9, WireOneChanged

(* A connection dropped takes what it had not read along.                  *)
LEMMA DropWire ==
  ASSUME IInv, WireInv, DropStep
  PROVE  WireInv'
<1>1. PICK c \in Client : c = conn
  BY ConnFacts DEF DropStep, IInv
<1>2. /\ inq' = [inq EXCEPT ![c] = << >>] /\ pend' = [pend EXCEPT ![c] = << >>]
      /\ ssl' = [ssl EXCEPT ![c] = "none"] /\ fd' = [fd EXCEPT ![c] = NoFd]
      /\ UNCHANGED sent
  BY <1>1 DEF DropStep, DropConn, netVars
<1>3. /\ ~InPool(c)' /\ \A d \in Client \ {c} : InPool(d)' => InPool(d)
      /\ << >> \in Seq(InUnit) /\ "none" \in {"none", ssl[c]}
  BY <1>2 DEF InPool, IInv, CoreType, PoolTypeOK
<1> QED
  BY <1>2, <1>3, WireEmptied

(* A client refused loses what it sent.                                    *)
LEMMA AcceptRefuseWire ==
  ASSUME IInv, WireInv, AcceptRefuse
  PROVE  WireInv'
<1>1. PICK c \in Client : inq' = [inq EXCEPT ![c] = << >>]
  BY DEF AcceptRefuse, Waiting, IInv, CoreType
<1>2. UNCHANGED <<pend, ssl, sent, fd>>
  BY DEF AcceptRefuse, tlsVars, fdVars
<1>3. /\ pend' = [pend EXCEPT ![c] = pend[c]] /\ ssl' = [ssl EXCEPT ![c] = ssl[c]]
      /\ pend[c] \in Seq(InUnit) /\ ssl[c] \in {"none", ssl[c]}
  BY <1>2, WireSame
<1>4. \A d \in Client : InPool(d)' => InPool(d)
  BY <1>2 DEF InPool
<1> QED
  BY <1>1, <1>2, <1>3, <1>4, WireEmptied

(* A connection accepted on the https port starts its handshake.           *)
LEMMA AcceptConnWire ==
  ASSUME IInv, WireInv, AcceptConn
  PROVE  WireInv'
<1>1. PICK c \in Client :
        /\ \E f : fd' = [fd EXCEPT ![c] = f]
        /\ ssl' = [ssl EXCEPT ![c] = IF c \in Tls THEN "handshake" ELSE "none"]
        /\ UNCHANGED <<inq, pend, sent>> /\ c \in backlog
  BY DEF AcceptConn, Waiting, IInv, CoreType, ioVars
<1> DEFINE x == IF c \in Tls THEN "handshake" ELSE "none"
<1>2. /\ inq' = [inq EXCEPT ![c] = inq[c]] /\ pend' = [pend EXCEPT ![c] = pend[c]]
      /\ sent' = [sent EXCEPT ![c] = sent[c]] /\ ssl' = [ssl EXCEPT ![c] = x]
      /\ inq[c] \in Seq(WireUnit) /\ pend[c] \in Seq(InUnit) /\ sent[c] \in Nat
  BY <1>1, WireSame
<1>3. \A d \in Client \ {c} : InPool(d)' => InPool(d)
  BY <1>1 DEF InPool, IInv, CoreType, PoolTypeOK
<1>4. /\ x \in {"none", "handshake", "accepted"} /\ x # "accepted"
      /\ c \notin Tls => x = "none"
      /\ c \in Tls => x # "none"
  OBVIOUS
<1>5. /\ c \notin Tls => inq[c] \in Seq(InUnit)
      /\ \A j \in 1 .. Len(inq[c]) : inq[c][j] = HelloDone =>
           /\ \A k \in j + 1 .. Len(inq[c]) : inq[c][k] \in RecordUnit
           /\ \A n \in sent[c] + 1 .. Len(Segments[c]) : Segments[c][n] \in Seq(RecordUnit)
  BY DEF WireInv
<1> HIDE DEF x
<1> QED
  BY <1>2, <1>3, <1>4, <1>5, WireOneChanged

(* A message of the handshake: after the last one only records follow.     *)
LEMMA HandshakeWire ==
  ASSUME IInv, WireInv, Handshake
  PROVE  WireInv'
<1>1. PICK c \in Client : c = conn
  BY ConnFacts DEF Handshake, Receiving, At, IInv
<1>2. /\ ssl[c] = "handshake"
      /\ \/ /\ inq[c] # << >>
            /\ inq' = [inq EXCEPT ![c] = Tail(inq[c])]
            /\ ssl' = [ssl EXCEPT ![c] = IF inq[c][1] = HelloDone THEN "accepted" ELSE ssl[c]]
         \/ UNCHANGED <<inq, ssl>>
      /\ UNCHANGED <<pend, sent, fd>>
  BY <1>1 DEF Handshake, netVars, fdVars
<1>3. \A d \in Client : InPool(d)' => InPool(d)
  BY <1>2 DEF InPool
<1>4. CASE UNCHANGED <<inq, ssl>>
  BY <1>2, <1>3, <1>4, WireKept
<1>5. CASE /\ inq[c] # << >>
           /\ inq' = [inq EXCEPT ![c] = Tail(inq[c])]
           /\ ssl' = [ssl EXCEPT ![c] = IF inq[c][1] = HelloDone THEN "accepted" ELSE ssl[c]]
  <2> DEFINE s == inq[c]
             t == Tail(s)
             x == IF s[1] = HelloDone THEN "accepted" ELSE ssl[c]
  <2>1. /\ s \in Seq(WireUnit) /\ s # << >>
        /\ pend' = [pend EXCEPT ![c] = pend[c]] /\ sent' = [sent EXCEPT ![c] = sent[c]]
        /\ pend[c] \in Seq(InUnit) /\ sent[c] \in Nat
    BY <1>2, <1>5, WireSame
  <2>2. c \in Tls
    BY <1>2 DEF WireInv
  <2> HIDE DEF s
  <2>3. /\ t \in Seq(WireUnit) /\ Len(t) = Len(s) - 1 /\ Len(s) \in Nat \ {0}
        /\ \A i \in 1 .. Len(t) : t[i] = s[i + 1]
    BY <2>1
  <2> HIDE DEF t
  <2>4. \A j \in 1 .. Len(s) : s[j] = HelloDone =>
          /\ \A k \in j + 1 .. Len(s) : s[k] \in RecordUnit
          /\ \A n \in sent[c] + 1 .. Len(Segments[c]) : Segments[c][n] \in Seq(RecordUnit)
    BY DEF WireInv, s
  <2>5. x \in {"none", "handshake", "accepted"} /\ x # "none"
    BY <1>2
  <2>6. ASSUME x = "accepted"
        PROVE  /\ t \in Seq(RecordUnit)
               /\ \A n \in sent[c] + 1 .. Len(Segments[c]) : Segments[c][n] \in Seq(RecordUnit)
    <3>1. s[1] = HelloDone /\ 1 \in 1 .. Len(s)
      BY <1>2, <2>3, <2>6
    <3>2. \A k \in 2 .. Len(s) : s[k] \in RecordUnit
      BY <2>4, <3>1
    <3>3. \A i \in 1 .. Len(t) : t[i] \in RecordUnit
      BY <2>3, <3>2
    <3> QED
      BY <2>3, <2>4, <3>1, <3>3
  <2>7. ASSUME NEW j \in 1 .. Len(t), t[j] = HelloDone
        PROVE  /\ \A k \in j + 1 .. Len(t) : t[k] \in RecordUnit
               /\ \A n \in sent[c] + 1 .. Len(Segments[c]) : Segments[c][n] \in Seq(RecordUnit)
    <3>1. j + 1 \in 1 .. Len(s) /\ s[j + 1] = HelloDone
      BY <2>3, <2>7
    <3>2. \A k \in j + 2 .. Len(s) : s[k] \in RecordUnit
      BY <2>4, <3>1
    <3>3. \A k \in j + 1 .. Len(t) : t[k] \in RecordUnit
      BY <2>3, <3>2
    <3> QED
      BY <2>4, <3>1, <3>3
  <2>8. inq' = [inq EXCEPT ![c] = t] /\ ssl' = [ssl EXCEPT ![c] = x]
    BY <1>5 DEF t, s
  <2> HIDE DEF x
  <2> QED
    BY <1>3, <2>1, <2>2, <2>3, <2>5, <2>6, <2>7, <2>8, WireOneChanged
<1> QED
  BY <1>2, <1>4, <1>5

(* cn_recv takes a first part of what is there, or drops the connection.   *)
LEMMA RecvWire ==
  ASSUME IInv, RInv, WireInv, RecvIgnore \/ RecvData
  PROVE  WireInv'
<1>1. Receiving /\ ssl[conn] # "handshake"
  BY DEF RecvIgnore, RecvData
<1>2. PICK c \in Client : c = conn /\ (c \in Tls => ssl[c] = "accepted")
  BY <1>1, ClearFacts
<1>3. buf[c] \in BufType /\ BufSz(buf[c]) <= BUFSZ
  BY <1>1, <1>2, ReceivingFacts, VisitFacts DEF ConnOK
<1>4. RecvRoom(c) \in Nat /\ BUFSZ \in Nat
  BY <1>3, ConnAssumption DEF RecvRoom, BufSz, BufType
<1>5. PICK n \in Nat : \E r \in RecvResults(c, n) :
        \/ DropStep
        \/ /\ inq' = [inq EXCEPT ![c] = r.inq] /\ pend' = [pend EXCEPT ![c] = r.pend]
           /\ UNCHANGED <<ssl, sent, fd>>
  <2>1. CASE RecvIgnore
    BY <1>1, <1>2, <1>4, <2>1 DEF RecvIgnore, DropStep, Receiving, At, netVars, fdVars
  <2>2. CASE RecvData
    BY <1>1, <1>2, <1>4, <2>2 DEF RecvData, DropStep, Receiving, At, netVars, fdVars
  <2> QED
    BY <2>1, <2>2
<1>6. PICK r \in RecvResults(c, n) :
        \/ DropStep
        \/ /\ inq' = [inq EXCEPT ![c] = r.inq] /\ pend' = [pend EXCEPT ![c] = r.pend]
           /\ UNCHANGED <<ssl, sent, fd>>
  BY <1>5
<1>7. r.pend \in Seq(InUnit) /\ r.inq \in Seq(WireUnit) /\ Remains(r.inq, inq[c])
  BY <1>2, RecvFacts
<1> QED
  BY <1>6, <1>7, DropWire, WireRead

(* A client sends its next segment: plain units on the http port, and after*)
(* its handshake records only.                                             *)
LEMMA ClientSendWire ==
  ASSUME IInv, WireInv, NEW c \in Client, ClientSend(c)
  PROVE  WireInv'
<1> DEFINE i == sent[c] + 1
           g == Segments[c][i]
           s == inq[c]
<1>1. /\ sent[c] \in Nat /\ s \in Seq(WireUnit) /\ pend[c] \in Seq(InUnit)
      /\ ssl[c] \in {"none", "handshake", "accepted"}
  BY WireSame
<1>2. /\ sent[c] < Len(Segments[c]) /\ sent' = [sent EXCEPT ![c] = i]
      /\ inq' = [inq EXCEPT ![c] = IF Connected(c) THEN s \o g ELSE s]
      /\ UNCHANGED <<pend, ssl, fd>>
  BY DEF ClientSend, serverUnchanged, tlsVars, fdVars
<1>3. /\ Segments[c] \in Seq(Seq(WireUnit)) /\ Len(Segments[c]) \in Nat
      /\ i \in 1 .. Len(Segments[c]) /\ i \in Nat
      /\ i + 1 .. Len(Segments[c]) \subseteq sent[c] + 1 .. Len(Segments[c])
      /\ i \in sent[c] + 1 .. Len(Segments[c])
  <2>1. Segments[c] \in Seq(Seq(WireUnit))
    BY LisoAssumption
  <2>2. Len(Segments[c]) \in Nat
    BY <2>1
  <2> QED
    BY <1>1, <1>2, <2>1, <2>2
<1>4. g \in Seq(WireUnit) /\ (c \notin Tls => g \in Seq(InUnit))
  BY <1>3, LisoAssumption
<1>5. /\ pend' = [pend EXCEPT ![c] = pend[c]] /\ ssl' = [ssl EXCEPT ![c] = ssl[c]]
      /\ \A d \in Client : InPool(d)' <=> InPool(d)
  BY <1>2, WireSame DEF InPool
<1>6. \A u \in InUnit : u # HelloDone
  BY DEF InUnit, LineText, LF, BodyUnit, HelloDone
<1>7. /\ c \notin Tls => s \in Seq(InUnit) /\ ssl[c] = "none"
      /\ c \in Tls /\ InPool(c)' => ssl[c] # "none"
      /\ ssl[c] = "accepted" =>
           /\ s \in Seq(RecordUnit)
           /\ \A m \in sent[c] + 1 .. Len(Segments[c]) : Segments[c][m] \in Seq(RecordUnit)
      /\ \A j \in 1 .. Len(s) : s[j] = HelloDone =>
           /\ \A k \in j + 1 .. Len(s) : s[k] \in RecordUnit
           /\ \A m \in sent[c] + 1 .. Len(Segments[c]) : Segments[c][m] \in Seq(RecordUnit)
  BY <1>5 DEF WireInv, OnlyRecords
<1>8. ASSUME NEW j \in 1 .. Len(g), g[j] = HelloDone
      PROVE  /\ \A k \in j + 1 .. Len(g) : g[k] \in RecordUnit
             /\ \A m \in i + 1 .. Len(Segments[c]) : Segments[c][m] \in Seq(RecordUnit)
  <2>1. c \in Tls
    <3>1. SUFFICES ASSUME c \notin Tls PROVE FALSE
      OBVIOUS
    <3>2. g[j] \in InUnit
      BY <1>4, <3>1
    <3> QED
      BY <1>6, <1>8, <3>2
  <2>2. HandshakeFirst(Segments[c])
    BY <2>1, LisoAssumption
  <2> QED
    BY <1>3, <1>8, <2>2 DEF HandshakeFirst
<1>9. CASE ~Connected(c)
  <2>1. inq' = [inq EXCEPT ![c] = s]
    BY <1>2, <1>9
  <2> HIDE DEF i, s
  <2> QED
    BY <1>1, <1>2, <1>3, <1>5, <1>7, <2>1, WireOneChanged
<1>10. CASE Connected(c)
  <2> DEFINE q == s \o g
             n == Len(s)
             l == Len(g)
  <2>1. inq' = [inq EXCEPT ![c] = q]
    BY <1>2, <1>10
  <2> HIDE DEF g, s, i
  <2>2. /\ q \in Seq(WireUnit) /\ Len(q) = n + l /\ n \in Nat /\ l \in Nat
        /\ \A j \in 1 .. n : q[j] = s[j]
        /\ \A j \in n + 1 .. n + l : q[j] = g[j - n]
    <3>1. /\ Len(q) = Len(s) + Len(g)
          /\ \A j \in 1 .. Len(s) + Len(g) :
               q[j] = IF j <= Len(s) THEN s[j] ELSE g[j - Len(s)]
      BY <1>1, <1>4, ConcatProperties
    <3>2. q \in Seq(WireUnit) /\ Len(s) \in Nat /\ Len(g) \in Nat
      BY <1>1, <1>4, ConcatProperties
    <3> HIDE DEF q
    <3> QED
      BY <3>1, <3>2
  <2>3. c \notin Tls => q \in Seq(InUnit)
    BY <1>4, <1>7, ConcatProperties
  <2>4. ssl[c] = "accepted" => q \in Seq(RecordUnit)
    <3>1. ssl[c] = "accepted" => s \in Seq(RecordUnit) /\ g \in Seq(RecordUnit)
      BY <1>3, <1>7 DEF g
    <3> QED
      BY <3>1, ConcatProperties
  <2> HIDE DEF q, n, l
  <2>5. ASSUME NEW j \in 1 .. Len(q), q[j] = HelloDone
        PROVE  /\ \A k \in j + 1 .. Len(q) : q[k] \in RecordUnit
               /\ \A m \in i + 1 .. Len(Segments[c]) : Segments[c][m] \in Seq(RecordUnit)
    <3>1. CASE j <= n
      <4>1. j \in 1 .. n /\ s[j] = HelloDone
        BY <2>2, <2>5, <3>1
      <4>2. /\ \A k \in j + 1 .. n : s[k] \in RecordUnit
            /\ \A m \in sent[c] + 1 .. Len(Segments[c]) : Segments[c][m] \in Seq(RecordUnit)
        BY <1>7, <4>1 DEF n
      <4>3. g \in Seq(RecordUnit)
        BY <1>3, <4>2 DEF g
      <4>4. \A k \in 1 .. l : g[k] \in RecordUnit
        BY <4>3 DEF l
      <4>5. ASSUME NEW k \in j + 1 .. Len(q) PROVE q[k] \in RecordUnit
        <5>1. CASE k <= n
          BY <2>2, <4>1, <4>2, <5>1
        <5>2. CASE k > n
          <6>1. k \in n + 1 .. n + l /\ k - n \in 1 .. l
            BY <2>2, <4>1, <5>2
          <6> QED
            BY <2>2, <4>4, <6>1
        <5> QED
          BY <2>2, <4>1, <5>1, <5>2
      <4> QED
        BY <1>3, <4>2, <4>5
    <3>2. CASE j > n
      <4>1. j \in n + 1 .. n + l /\ j - n \in 1 .. l /\ g[j - n] = HelloDone
        BY <2>2, <2>5, <3>2
      <4>2. /\ \A k \in (j - n) + 1 .. l : g[k] \in RecordUnit
            /\ \A m \in i + 1 .. Len(Segments[c]) : Segments[c][m] \in Seq(RecordUnit)
        BY <1>8, <4>1 DEF l
      <4>3. ASSUME NEW k \in j + 1 .. Len(q) PROVE q[k] \in RecordUnit
        <5>1. k \in n + 1 .. n + l /\ k - n \in (j - n) + 1 .. l
          BY <2>2, <4>1
        <5> QED
          BY <2>2, <4>2, <5>1
      <4> QED
        BY <4>2, <4>3
    <3> QED
      BY <2>2, <3>1, <3>2
  <2>6. ssl[c] = "accepted" =>
          \A m \in i + 1 .. Len(Segments[c]) : Segments[c][m] \in Seq(RecordUnit)
    BY <1>3, <1>7
  <2>7. i \in Nat /\ sent' = [sent EXCEPT ![c] = i] /\ \A d \in Client : InPool(d)' => InPool(d)
    BY <1>2, <1>3, <1>5
  <2>8. c \notin Tls => ssl[c] = "none"
    BY <1>7
  <2>9. c \in Tls /\ InPool(c)' => ssl[c] # "none"
    BY <1>7
  <2> QED
    BY <1>1, <1>5, <2>1, <2>2, <2>3, <2>4, <2>5, <2>6, <2>7, <2>8, <2>9, WireOneChanged
<1> QED
  BY <1>9, <1>10

(* Nothing is on the wire at the start.                                    *)
LEMMA InitWire == Init => WireInv
<1> SUFFICES ASSUME Init PROVE WireInv
  OBVIOUS
<1>1. << >> \in Seq(WireUnit) /\ << >> \in Seq(InUnit) /\ 1 .. Len(<< >>) = {}
  OBVIOUS
<1>2. \A c \in Client : ~InPool(c) /\ inq[c] = << >> /\ ssl[c] = "none"
  BY DEF Init, InPool
<1> QED
  BY <1>1, <1>2 DEF Init, WireInv

(* Only accepting, receiving, dropping and sending change the wire.        *)
LEMMA NextWire ==
  ASSUME IInv, RInv, WireInv, [Next]_vars
  PROVE  WireInv'
<1> USE DEF loopVars, poolVars, setVars, readyVars, fdVars, msgVars, tlsVars, netVars,
            ioVars
<1>1. ASSUME UNCHANGED <<inq, pend, ssl, sent, fd>> PROVE WireInv'
  BY <1>1, WireKept DEF InPool
<1>2. ASSUME DropConn(conn), UNCHANGED <<readyVars, netVars>>,
             cur <= Len(conns), pc \notin {"select", "accept", "accept_ssl"}
      PROVE  WireInv'
  BY <1>2, DropWire DEF DropStep
<1>3. CASE Select \/ AcceptSkip \/ RecvSkip \/ LogErr \/ Prepare
  BY <1>1, <1>3 DEF Select, AcceptSkip, RecvSkip, LogErr, Prepare
<1>4. CASE InitCgiSkip \/ InitCgiNoPipe \/ InitCgiFail \/ InitCgi \/ ForSelect
  <2>1. CASE InitCgiSkip \/ ForSelect
    BY <1>1, <2>1 DEF InitCgiSkip, ForSelect
  <2>2. CASE InitCgiNoPipe \/ InitCgiFail
    <3>1. CgiFailed
      BY <2>2 DEF InitCgiNoPipe, InitCgiFail
    <3>2. sent' = sent
      BY <3>1 DEF CgiFailed
    <3> QED
      BY <1>1, <3>1, <3>2 DEF CgiFailed
  <2>3. CASE InitCgi
    BY <1>1, <2>3 DEF InitCgi
  <2> QED
    BY <1>4, <2>1, <2>2, <2>3
<1>5. CASE ToCgi \/ WriteSome \/ WriteShort \/ WriteFail \/ WriteDone
  BY <1>1, <1>5 DEF ToCgi, WriteSome, WriteShort, WriteFail, WriteDone, writeUnchanged
<1>6. CASE FromCgiSkip \/ FromCgi \/ FromCgiEof \/ FromCgiFail
  BY <1>1, <1>6 DEF FromCgiSkip, FromCgi, FromCgiEof, FromCgiFail
<1>7. CASE DynamicSkip \/ StaticSkip \/ MaxFd \/ LoopEnd \/ UNCHANGED vars
  BY <1>1, <1>7 DEF DynamicSkip, StaticSkip, MaxFd, LoopEnd, vars
<1>8. CASE DynamicEnd \/ ServeDynamic
  <2>1. cur <= Len(conns) /\ pc \notin {"select", "accept", "accept_ssl"}
    BY <1>8 DEF DynamicEnd, ServeDynamic, ServingDynamic, At
  <2>2. \/ DropConn(conn) /\ UNCHANGED <<readyVars, netVars>>
        \/ UNCHANGED <<inq, pend, ssl, sent, fd>>
    BY <1>8 DEF DynamicEnd, ServeDynamic, Finish
  <2> QED
    BY <1>1, <1>2, <2>1, <2>2
<1>9. CASE SendErrorPage \/ SendHeader \/ SendBody
  <2>1. cur <= Len(conns) /\ pc \notin {"select", "accept", "accept_ssl"}
    BY <1>9 DEF SendErrorPage, SendHeader, SendBody, ServingStatic, At
  <2>2. \/ DropConn(conn) /\ UNCHANGED <<readyVars, netVars>>
        \/ UNCHANGED <<inq, pend, ssl, sent, fd>>
    BY <1>9 DEF SendErrorPage, SendHeader, SendBody, Finish, staticUnchanged
  <2> QED
    BY <1>1, <1>2, <2>1, <2>2
<1>10. CASE AcceptRefuse
  BY <1>10, AcceptRefuseWire
<1>11. CASE AcceptConn
  BY <1>11, AcceptConnWire
<1>12. CASE Handshake
  BY <1>12, HandshakeWire
<1>13. CASE HandshakeFail
  BY <1>2, <1>13 DEF HandshakeFail, Receiving, At
<1>14. CASE RecvIgnore \/ RecvData
  BY <1>14, RecvWire
<1>15. CASE Clients
  <2>1. PICK c \in Client :
          Connect(c) \/ ClientSend(c) \/ ClientRead(c) \/ ClientHalfClose(c) \/ ClientLeave(c)
    BY <1>15 DEF Clients
  <2>2. CASE ClientSend(c)
    BY <2>2, ClientSendWire
  <2>3. CASE Connect(c) \/ ClientRead(c) \/ ClientHalfClose(c) \/ ClientLeave(c)
    BY <1>1, <2>3 DEF Connect, ClientRead, ClientHalfClose, ClientLeave, serverUnchanged
  <2> QED
    BY <2>1, <2>2, <2>3
<1>16. CASE Programs
  BY <1>1, <1>16 DEF Programs, CgiRead, CgiEof, CgiWrite, CgiErr, CgiExit, cgiUnchanged,
                     serverUnchanged
<1> QED
  BY <1>3, <1>4, <1>5, <1>6, <1>7, <1>8, <1>9, <1>10, <1>11, <1>12, <1>13, <1>14, <1>15,
     <1>16 DEF Next, Server

-----------------------------------------------------------------------------
(* Programs                                                                *)

(* The parts of a program's record.                                        *)
LEMMA ProcFacts ==
  ASSUME NEW p \in ProcType
  PROVE  /\ p.stdin \in Seq(InUnit \cup OutUnit) /\ p.seen \in Seq(InUnit \cup OutUnit)
         /\ p.stdout \in Seq(OutUnit) /\ p.made \in 0 .. OUTSZ
         /\ p.held \in SUBSET (Client \X Ends)
BY DEF ProcType

-----------------------------------------------------------------------------
(* What is left to write                                                   *)

(* cn_stream_to_cgi never writes past the end of its buffer, however many  *)
(* writes are cut short.                                                   *)
LEMMA NextWriteLeft ==
  ASSUME IInv, RInv, SentInv, [Next]_vars
  PROVE  WriteLeft'
<1> USE DEF loopVars, poolVars, setVars, readyVars, fdVars, msgVars, tlsVars, netVars,
            ioVars
<1>1. /\ wr \in [rsize: Nat, took: Nat]
      /\ pc = "write" => wr.took <= wr.rsize /\ wr.rsize <= Len(buf[conns[cur]].rest)
      /\ NoWrite \in [rsize: Nat, took: Nat]
  BY DEF SentInv, WriteLeft, NoWrite
<1>2. ASSUME pc' # "write", wr' \in {wr, NoWrite} PROVE WriteLeft'
  BY <1>1, <1>2 DEF WriteLeft
<1>3. ASSUME UNCHANGED <<pc, wr, buf, conns, cur>> PROVE WriteLeft'
  BY <1>1, <1>3 DEF WriteLeft
<1>4. ASSUME DropConn(conn) PROVE WriteLeft'
  BY <1>2, <1>4 DEF DropConn, Revisit
<1>5. CASE Select \/ AcceptSkip \/ AcceptRefuse \/ AcceptConn
  BY <1>2, <1>5 DEF Select, AcceptSkip, AcceptRefuse, AcceptConn, AfterAccept
<1>6. CASE RecvSkip \/ Handshake \/ LogErr \/ Prepare
  BY <1>2, <1>6 DEF RecvSkip, Handshake, LogErr, Prepare
<1>7. CASE HandshakeFail \/ RecvIgnore \/ RecvData
  <2>1. DropConn(conn) \/ (pc' = "logerr" /\ wr' = wr)
    BY <1>7 DEF HandshakeFail, RecvIgnore, RecvData
  <2> QED
    BY <1>2, <1>4, <2>1
<1>8. CASE InitCgiSkip \/ InitCgiNoPipe \/ InitCgiFail \/ InitCgi \/ ForSelect
  <2>1. pc' \in {"for_select", "to_cgi"} /\ wr' = wr
    <3>1. CASE InitCgiNoPipe \/ InitCgiFail
      <4>1. CgiFailed
        BY <3>1 DEF InitCgiNoPipe, InitCgiFail
      <4> QED
        BY <4>1 DEF CgiFailed
    <3>2. CASE InitCgiSkip \/ InitCgi \/ ForSelect
      BY <3>2 DEF InitCgiSkip, InitCgi, ForSelect
    <3> QED
      BY <1>8, <3>1, <3>2
  <2> QED
    BY <1>2, <2>1
<1>9. CASE WriteFail \/ WriteDone
  BY <1>2, <1>9 DEF WriteFail, WriteDone
<1>10. CASE FromCgiSkip \/ FromCgi \/ FromCgiEof \/ FromCgiFail
  BY <1>2, <1>10 DEF FromCgiSkip, FromCgi, FromCgiEof, FromCgiFail
<1>11. CASE DynamicSkip \/ StaticSkip \/ MaxFd \/ LoopEnd
  BY <1>2, <1>11 DEF DynamicSkip, StaticSkip, MaxFd, LoopEnd
<1>12. CASE DynamicEnd \/ ServeDynamic \/ SendErrorPage \/ SendHeader \/ SendBody
  <2>1. DropConn(conn) \/ (pc' \in {"static", "max_fd"} /\ wr' = wr)
    BY <1>12 DEF DynamicEnd, ServeDynamic, SendErrorPage, SendHeader, SendBody, Finish,
                 staticUnchanged
  <2> QED
    BY <1>2, <1>4, <2>1
<1>13. CASE ToCgi
  <2>1. CASE pc' # "write"
    BY <1>2, <1>13, <2>1 DEF ToCgi
  <2>2. CASE pc' = "write"
    <3> DEFINE n == Len(buf[conn].rest)
    <3>1. /\ cur <= Len(conns) /\ Visiting /\ UNCHANGED <<buf, conns, cur>>
          /\ wr' = [rsize |-> n, took |-> 0]
      BY <1>13, <2>2 DEF ToCgi, At, Visiting
    <3>2. n \in Nat
      BY <3>1, VisitFacts DEF BufType
    <3>3. n = Len(buf'[conns'[cur']].rest)
      BY <3>1 DEF conn
    <3> HIDE DEF n
    <3> QED
      BY <3>1, <3>2, <3>3 DEF WriteLeft
  <2> QED
    BY <2>1, <2>2
<1>14. CASE WriteSome \/ WriteShort
  <2> DEFINE m == Len(buf[conn].rest)
  <2>1. pc = "write" /\ Visiting /\ UNCHANGED <<pc, buf, conns, cur>>
    BY <1>14 DEF WriteSome, WriteShort, At, Visiting, writeUnchanged
  <2>2. conn \in Client /\ buf[conn] \in BufType /\ proc[conn] \in ProcType
    BY <2>1, VisitFacts DEF SentInv
  <2>3. m \in Nat /\ m = Len(buf[conns[cur]].rest) /\ m = Len(buf'[conns'[cur']].rest)
    BY <2>1, <2>2 DEF BufType, conn
  <2> HIDE DEF m
  <2>4. wr.took <= wr.rsize /\ wr.rsize <= m
    BY <1>1, <2>1, <2>3
  <2>5. CASE WriteShort
    <3>1. wr' = [rsize |-> wr.rsize - wr.took, took |-> 0]
      BY <2>5 DEF WriteShort
    <3> QED
      BY <1>1, <2>3, <2>4, <3>1 DEF WriteLeft
  <2>6. CASE WriteSome
    <3> DEFINE k == PipeRoom(conn)
               n == Least(k, wr.rsize - wr.took)
    <3>1. /\ k > 0
          /\ wr' = IF wr.took + n = wr.rsize THEN NoWrite ELSE [wr EXCEPT !.took = wr.took + n]
      BY <2>6 DEF WriteSome
    <3>2. k \in Int
      <4>1. Len(proc[conn].stdin) \in Nat
        BY <2>2, ProcFacts
      <4> QED
        BY <4>1, LisoAssumption DEF PipeRoom
    <3> HIDE DEF k
    <3>3. n \in Nat /\ wr.took + n <= wr.rsize
      BY <1>1, <2>4, <3>1, <3>2 DEF Least
    <3> HIDE DEF n
    <3>4. wr'.took <= wr'.rsize /\ wr'.rsize <= m /\ wr' \in [rsize: Nat, took: Nat]
      BY <1>1, <2>3, <2>4, <3>1, <3>3 DEF NoWrite
    <3> QED
      BY <2>3, <3>4 DEF WriteLeft
  <2> QED
    BY <1>14, <2>5, <2>6
<1>15. CASE Clients \/ Programs \/ UNCHANGED vars
  <2>1. UNCHANGED <<pc, wr, buf, conns, cur>>
    BY <1>15 DEF Clients, Connect, ClientSend, ClientRead, ClientHalfClose, ClientLeave,
         Programs, CgiRead, CgiEof, CgiWrite, CgiErr, CgiExit, cgiUnchanged,
         serverUnchanged, vars
  <2> QED
    BY <1>3, <2>1
<1> QED
  BY <1>5, <1>6, <1>7, <1>8, <1>9, <1>10, <1>11, <1>12, <1>13, <1>14, <1>15 DEF Next, Server

-----------------------------------------------------------------------------
(* What is sent                                                            *)

(* A client reads all there is; what it has read stays read.               *)
LEMMA DeliveredTaken ==
  ASSUME SentInv, NEW c \in Client, NEW units \in Seq(OutUnit),
         NEW n \in Nat, n <= Len(units), Delivered(c, units, n), UNCHANGED taken
  PROVE  OutTaken'
<1> DEFINE d == SubSeq(units, 1, n)
           o == out[c]
           q == IF link[c] = "gone" THEN o ELSE o \o d
<1>1. /\ out \in [Client -> Seq(OutUnit)] /\ taken \in [Client -> Nat]
      /\ \A k \in Client : taken[k] <= Len(out[k])
  BY DEF SentInv, OutTaken
<1>2. d \in Seq(OutUnit)
  <2>1. \A i \in 1 .. n : units[i] \in OutUnit
    OBVIOUS
  <2> QED
    BY <2>1, SubSeqProperties
<1> HIDE DEF d
<1>3. o \in Seq(OutUnit) /\ Len(o) \in Nat /\ Len(d) \in Nat
  BY <1>1, <1>2
<1>4. o \o d \in Seq(OutUnit) /\ Len(o \o d) = Len(o) + Len(d)
  BY <1>2, <1>3, ConcatProperties
<1>5. q \in Seq(OutUnit) /\ Len(o) <= Len(q) /\ Len(q) \in Nat
  BY <1>3, <1>4
<1>6. out' = [out EXCEPT ![c] = q]
  BY DEF Delivered, d
<1> HIDE DEF q
<1>7. ASSUME NEW k \in Client PROVE taken'[k] <= Len(out'[k])
  <2>1. CASE k = c
    BY <1>1, <1>3, <1>5, <1>6, <2>1
  <2>2. CASE k # c
    BY <1>1, <1>6, <2>2
  <2> QED
    BY <2>1, <2>2
<1> QED
  BY <1>1, <1>5, <1>6, <1>7 DEF OutTaken

(* smart_send returns a number of units it took, or 0.                     *)
LEMMA SentCount ==
  ASSUME SentInv, NEW c \in Client, NEW n \in Nat, NEW k \in SendResults(c, n), k > 0
  PROVE  k \in Nat /\ k <= n
<1>1. Room(c) \in Int
  BY LisoAssumption DEF SentInv, OutTaken, Room
<1>2. k \in Int
  BY <1>1 DEF SendResults, Least
<1> QED
  BY <1>2, SendFacts

(* The four places where a response is sent.                               *)
LEMMA SendingTaken ==
  ASSUME IInv, RInv, SentInv, ServeDynamic \/ SendErrorPage \/ SendHeader \/ SendBody
  PROVE  OutTaken'
<1> DEFINE rq == req[conn]
           rs == resp[conn]
           cg == cgi[conn]
           b == buf[conn]
<1>1. Visiting /\ UNCHANGED taken
  BY DEF ServeDynamic, ServingDynamic, SendErrorPage, SendHeader, SendBody, ServingStatic,
         At, Visiting, netVars
<1>2. /\ conn \in Client /\ rq \in ReqType /\ rs \in RespType /\ cg \in CgiType
      /\ Content(rq, rs, cg, b)
  BY <1>1, VisitFacts DEF ConnOK
<1>3. ASSUME UNCHANGED out PROVE OutTaken'
  BY <1>1, <1>3 DEF SentInv, OutTaken
<1>4. CASE ServeDynamic
  <2>1. rq.type = "DYNAMIC" /\ cg.buf_phase = "SEND" /\ ~(b.rest = << >> /\ cg.phase = "DONE")
    BY <1>4 DEF ServeDynamic, ServingDynamic, ResponseEnded
  <2>2. b.rest \in Seq(OutUnit)
    BY <1>2, <2>1, NewFacts DEF Content, Reading, Static, Dynamic, Refused, SendBufOK
  <2>3. PICK n \in SendResults(conn, Len(b.rest)) :
          \/ out' = out
          \/ n > 0 /\ Delivered(conn, b.rest, n)
    BY <1>4 DEF ServeDynamic
  <2>4. CASE n > 0 /\ Delivered(conn, b.rest, n)
    <3>1. Len(b.rest) \in Nat
      BY <2>2
    <3>2. n \in Nat /\ n <= Len(b.rest)
      BY <1>2, <2>4, <3>1, SentCount
    <3> QED
      BY <1>1, <1>2, <2>2, <2>4, <3>2, DeliveredTaken
  <2> QED
    BY <1>3, <2>3, <2>4
<1>5. CASE SendErrorPage
  <2> DEFINE page == ErrorPage(rq, rs)
  <2>1. page \in Seq(OutUnit) /\ Len(page) \in Nat /\ Len(page) > 0
    BY <1>2, ErrorPageFacts, ConnAssumption
  <2>2. \/ UNCHANGED out
        \/ Delivered(conn, page, Len(page))
        \/ \E n \in 1 .. Len(page) - 1 : Delivered(conn, page, n)
    BY <1>5 DEF SendErrorPage
  <2> HIDE DEF page
  <2>3. CASE Delivered(conn, page, Len(page))
    BY <1>1, <1>2, <2>1, <2>3, DeliveredTaken
  <2>4. CASE \E n \in 1 .. Len(page) - 1 : Delivered(conn, page, n)
    <3>1. PICK n \in 1 .. Len(page) - 1 : Delivered(conn, page, n)
      BY <2>4
    <3>2. n \in Nat /\ n <= Len(page)
      BY <2>1
    <3> QED
      BY <1>1, <1>2, <2>1, <3>1, <3>2, DeliveredTaken
  <2> QED
    BY <1>3, <2>2, <2>3, <2>4
<1>6. CASE SendHeader
  <2>1. rs.phase = "HEADER"
    BY <1>6 DEF SendHeader
  <2>2. b.rest \in Seq(OutUnit)
    BY <1>2, <2>1 DEF Content, Reading, Static, Dynamic, Refused, SendBufOK
  <2>3. PICK n \in SendResults(conn, Len(b.rest)) :
          \/ out' = out
          \/ n > 0 /\ Delivered(conn, b.rest, n)
    BY <1>6 DEF SendHeader
  <2>4. CASE n > 0 /\ Delivered(conn, b.rest, n)
    <3>1. Len(b.rest) \in Nat
      BY <2>2
    <3>2. n \in Nat /\ n <= Len(b.rest)
      BY <1>2, <2>4, <3>1, SentCount
    <3> QED
      BY <1>1, <1>2, <2>2, <2>4, <3>2, DeliveredTaken
  <2> QED
    BY <1>3, <2>3, <2>4
<1>7. CASE SendBody
  <2> DEFINE k == Least(BUFSZ, Len(rs.mmbuf))
  <2>1. /\ rs.mmbuf \in Seq(OutUnit) /\ Len(rs.mmbuf) \in Nat
        /\ k \in Nat /\ k <= Len(rs.mmbuf)
    BY <1>2, ConnAssumption DEF RespType, Least
  <2>2. PICK n \in SendResults(conn, k) :
          \/ out' = out
          \/ n > 0 /\ Delivered(conn, rs.mmbuf, n)
    BY <1>7 DEF SendBody
  <2> HIDE DEF k
  <2>3. CASE n > 0 /\ Delivered(conn, rs.mmbuf, n)
    <3>1. n \in Nat /\ n <= k
      BY <1>2, <2>1, <2>3, SentCount
    <3> QED
      BY <1>1, <1>2, <2>1, <2>3, <3>1, DeliveredTaken
  <2> QED
    BY <1>3, <2>2, <2>3
<1> QED
  BY <1>4, <1>5, <1>6, <1>7

(* No step lets a client take more units than the server has sent.         *)
LEMMA NextTaken ==
  ASSUME IInv, RInv, SentInv, [Next]_vars
  PROVE  OutTaken'
<1> USE DEF loopVars, poolVars, setVars, readyVars, fdVars, msgVars, tlsVars, netVars,
            ioVars
<1>1. ASSUME UNCHANGED <<out, taken>> PROVE OutTaken'
  BY <1>1 DEF SentInv, OutTaken
<1>2. CASE Select \/ AcceptSkip \/ AcceptRefuse \/ AcceptConn \/ RecvSkip \/ LogErr \/ Prepare
  BY <1>1, <1>2 DEF Select, AcceptSkip, AcceptRefuse, AcceptConn, RecvSkip, LogErr, Prepare
<1>3. CASE Handshake \/ HandshakeFail \/ RecvIgnore \/ RecvData
  BY <1>1, <1>3 DEF Handshake, HandshakeFail, RecvIgnore, RecvData
<1>4. CASE InitCgiSkip \/ InitCgi \/ ForSelect
  BY <1>1, <1>4 DEF InitCgiSkip, InitCgi, ForSelect
<1>5. CASE InitCgiNoPipe \/ InitCgiFail
  <2>1. CgiFailed
    BY <1>5 DEF InitCgiNoPipe, InitCgiFail
  <2> QED
    BY <1>1, <2>1 DEF CgiFailed
<1>6. CASE ToCgi \/ WriteSome \/ WriteShort \/ WriteFail \/ WriteDone
  BY <1>1, <1>6 DEF ToCgi, WriteSome, WriteShort, WriteFail, WriteDone, writeUnchanged
<1>7. CASE FromCgiSkip \/ FromCgi \/ FromCgiEof \/ FromCgiFail
  BY <1>1, <1>7 DEF FromCgiSkip, FromCgi, FromCgiEof, FromCgiFail
<1>8. CASE DynamicSkip \/ DynamicEnd \/ StaticSkip \/ MaxFd \/ LoopEnd \/ UNCHANGED vars
  BY <1>1, <1>8 DEF DynamicSkip, DynamicEnd, StaticSkip, MaxFd, LoopEnd, vars
<1>9. CASE ServeDynamic \/ SendErrorPage \/ SendHeader \/ SendBody
  BY <1>9, SendingTaken
<1>10. CASE Clients
  <2>1. PICK c \in Client :
          Connect(c) \/ ClientSend(c) \/ ClientRead(c) \/ ClientHalfClose(c) \/ ClientLeave(c)
    BY <1>10 DEF Clients
  <2>2. CASE Connect(c) \/ ClientSend(c) \/ ClientHalfClose(c)
    BY <1>1, <2>2 DEF Connect, ClientSend, ClientHalfClose
  <2>3. CASE ClientRead(c) \/ ClientLeave(c)
    <3> DEFINE n == Len(out[c])
    <3>1. out' = out /\ taken' = [taken EXCEPT ![c] = n]
      BY <2>3 DEF ClientRead, ClientLeave
    <3>2. n \in Nat /\ n <= n
      BY DEF SentInv, OutTaken
    <3>3. \A k \in Client : k = c => Len(out[k]) = n
      OBVIOUS
    <3> HIDE DEF n
    <3> QED
      BY <3>1, <3>2, <3>3 DEF SentInv, OutTaken
  <2> QED
    BY <2>1, <2>2, <2>3
<1>11. CASE Programs
  BY <1>1, <1>11 DEF Programs, CgiRead, CgiEof, CgiWrite, CgiErr, CgiExit, cgiUnchanged
<1> QED
  BY <1>2, <1>3, <1>4, <1>5, <1>6, <1>7, <1>8, <1>9, <1>10, <1>11 DEF Next, Server

-----------------------------------------------------------------------------
(* The programs' records                                                   *)

Env == [method: Methods, uri: Uri \cup {""}, clen: Nat \cup {-1}, alive: BOOLEAN]

(* A program's record is made of its fields.                               *)
LEMMA ProcRecord ==
  ASSUME NEW st \in {"none", "run", "exit"}, NEW env \in Env,
         NEW stdin \in Seq(InUnit \cup OutUnit), NEW seen \in Seq(InUnit \cup OutUnit),
         NEW eof \in BOOLEAN, NEW stdout \in Seq(OutUnit), NEW made \in 0 .. OUTSZ,
         NEW err \in BOOLEAN, NEW held \in SUBSET (Client \X Ends)
  PROVE  [st |-> st, env |-> env, stdin |-> stdin, seen |-> seen, eof |-> eof,
          stdout |-> stdout, made |-> made, err |-> err, held |-> held] \in ProcType
<1> DEFINE ST == {"none", "run", "exit"}
           STDIN == Seq(InUnit \cup OutUnit)
           OUT == Seq(OutUnit)
           MADE == 0 .. OUTSZ
           HELD == SUBSET (Client \X Ends)
<1>1. /\ st \in ST /\ stdin \in STDIN /\ seen \in STDIN /\ stdout \in OUT /\ made \in MADE
      /\ held \in HELD
  OBVIOUS
<1>2. ProcType = [st: ST, stdin: STDIN, seen: STDIN, eof: BOOLEAN, stdout: OUT, made: MADE,
                  err: BOOLEAN, held: HELD, env: Env]
  BY DEF ProcType, Env
<1> HIDE DEF ST, STDIN, OUT, MADE, HELD
<1> QED
  BY <1>1, <1>2

(* The fields of a program's state, one by one.                            *)
LEMMA ProcFields ==
  ASSUME NEW p \in ProcType
  PROVE  /\ p.st \in {"none", "run", "exit"} /\ p.env \in Env
         /\ p.eof \in BOOLEAN /\ p.err \in BOOLEAN
         /\ p = [st |-> p.st, env |-> p.env, stdin |-> p.stdin, seen |-> p.seen,
                 eof |-> p.eof, stdout |-> p.stdout, made |-> p.made, err |-> p.err,
                 held |-> p.held]
BY DEF ProcType, Env

(* One field of a program's record changes.                                *)
LEMMA ProcUpdates ==
  ASSUME NEW p \in ProcType
  PROVE  /\ \A s \in Seq(InUnit \cup OutUnit) : [p EXCEPT !.stdin = s] \in ProcType
         /\ \A s \in Seq(OutUnit) : [p EXCEPT !.stdout = s] \in ProcType
         /\ \A b \in BOOLEAN : [p EXCEPT !.err = b] \in ProcType
         /\ [p EXCEPT !.eof = TRUE] \in ProcType
         /\ \A H \in SUBSET (Client \X Ends) : [p EXCEPT !.held = H] \in ProcType
<1>1. ASSUME NEW s \in Seq(InUnit \cup OutUnit) PROVE [p EXCEPT !.stdin = s] \in ProcType
  BY DEF ProcType
<1>2. ASSUME NEW s \in Seq(OutUnit) PROVE [p EXCEPT !.stdout = s] \in ProcType
  BY DEF ProcType
<1>3. ASSUME NEW b \in BOOLEAN PROVE [p EXCEPT !.err = b] \in ProcType
  BY DEF ProcType
<1>4. [p EXCEPT !.eof = TRUE] \in ProcType
  BY DEF ProcType
<1>5. ASSUME NEW H \in SUBSET (Client \X Ends) PROVE [p EXCEPT !.held = H] \in ProcType
  BY DEF ProcType
<1> QED
  BY <1>1, <1>2, <1>3, <1>4, <1>5

(* A program reads all of its input, writes one unit, or exits.            *)
LEMMA ProcSteps ==
  ASSUME NEW p \in ProcType
  PROVE  /\ [p EXCEPT !.seen = p.seen \o p.stdin, !.stdin = << >>] \in ProcType
         /\ p.made < OUTSZ =>
              [p EXCEPT !.made = p.made + 1,
                        !.stdout = Append(p.stdout, CgiUnit(p.made + 1))] \in ProcType
         /\ Exit(p) \in ProcType
<1> DEFINE empty == << >>
<1>1. empty \in Seq(InUnit \cup OutUnit) /\ Exit(p) = [p EXCEPT !.st = "exit", !.held = {}, !.stdin = empty]
  BY DEF Exit
<1>2. [p EXCEPT !.seen = p.seen \o p.stdin, !.stdin = << >>] \in ProcType
  <2> DEFINE s == p.seen \o p.stdin
  <2>1. s \in Seq(InUnit \cup OutUnit)
    BY ProcFacts, ConcatProperties
  <2> HIDE DEF s, empty
  <2>2. [p EXCEPT !.seen = s, !.stdin = empty] \in ProcType
    BY <1>1, <2>1 DEF ProcType
  <2> QED
    BY <2>2 DEF s, empty
<1>3. ASSUME p.made < OUTSZ
      PROVE  [p EXCEPT !.made = p.made + 1,
                       !.stdout = Append(p.stdout, CgiUnit(p.made + 1))] \in ProcType
  <2> DEFINE n == p.made + 1
             u == CgiUnit(n)
             s == Append(p.stdout, u)
  <2>1. n \in 0 .. OUTSZ /\ n \in Nat
    BY <1>3, ProcFacts, LisoAssumption
  <2> HIDE DEF n
  <2>2. u \in OutUnit
    BY <2>1 DEF CgiUnit, OutUnit
  <2> HIDE DEF u
  <2>3. s \in Seq(OutUnit)
    BY <2>2, ProcFacts
  <2> HIDE DEF s
  <2>4. [p EXCEPT !.made = n] \in ProcType
    BY <2>1 DEF ProcType
  <2>5. [[p EXCEPT !.made = n] EXCEPT !.stdout = s] \in ProcType
    BY <2>3, <2>4, ProcUpdates
  <2> QED
    BY <2>5 DEF n, u, s
<1>4. Exit(p) \in ProcType
  <2> HIDE DEF empty
  <2> QED
    BY <1>1 DEF ProcType
<1> QED
  BY <1>2, <1>3, <1>4

(* The record of no program.                                               *)
LEMMA NewProcFacts == NewProc \in ProcType
<1> DEFINE made == NewProc.made
           empty == << >>
<1>1. made \in 0 .. OUTSZ
  BY LisoAssumption DEF NewProc
<1>2. NewProc = [st |-> "none", env |-> NoEnv, stdin |-> empty, seen |-> empty,
                 eof |-> FALSE, stdout |-> empty, made |-> made, err |-> FALSE,
                 held |-> {}]
  BY DEF NewProc
<1>3. empty \in Seq(InUnit \cup OutUnit) /\ empty \in Seq(OutUnit)
  OBVIOUS
<1> HIDE DEF made, empty
<1>4. NoEnv \in Env
  BY DEF NoEnv, Methods, Env
<1> QED
  BY <1>1, <1>2, <1>3, <1>4, ProcRecord

(* A program that was just forked.                                         *)
LEMMA ProcStart ==
  ASSUME NEW rq \in ReqType, NEW H \in SUBSET (Client \X Ends)
  PROVE  [NewProc EXCEPT !.st = "run", !.env = EnvpNew(rq), !.held = H] \in ProcType
<1> DEFINE env == EnvpNew(rq)
           n == IF rq.clen > 0 THEN rq.clen ELSE -1
           U == Uri \cup {""}
           N == Nat \cup {-1}
<1>1. rq.method \in Methods /\ rq.uri \in U /\ rq.alive \in BOOLEAN /\ rq.clen \in Int
  BY DEF ReqType
<1>2. n \in N
  <2>1. PICK k \in Int : k = rq.clen
    BY <1>1
  <2>2. k > 0 => k \in Nat
    OBVIOUS
  <2>3. n = IF k > 0 THEN k ELSE -1
    BY <2>1
  <2>4. CASE k > 0
    <3>1. n = k
      BY <2>3, <2>4
    <3> HIDE DEF n
    <3> QED
      BY <2>2, <2>4, <3>1
  <2>5. CASE ~(k > 0)
    <3>1. n = -1
      BY <2>3, <2>5
    <3> HIDE DEF n
    <3> QED
      BY <3>1
  <2> QED
    BY <2>4, <2>5
<1>3. env = [method |-> rq.method, uri |-> rq.uri, alive |-> rq.alive, clen |-> n]
  BY DEF EnvpNew
<1>4. Env = [method: Methods, uri: U, clen: N, alive: BOOLEAN]
  BY DEF Env
<1> HIDE DEF n, U, N
<1>5. env \in Env
  BY <1>1, <1>2, <1>3, <1>4
<1> HIDE DEF env
<1>6. [NewProc EXCEPT !.st = "run", !.env = env, !.held = H] \in ProcType
  BY <1>5, NewProcFacts DEF ProcType, Env
<1> QED
  BY <1>6 DEF env

(* The record of one program changes.                                      *)
LEMMA ProcOne ==
  ASSUME SentInv, NEW c \in Client, NEW p \in ProcType, proc' = [proc EXCEPT ![c] = p]
  PROVE  proc' \in [Client -> ProcType]
BY DEF SentInv

(* A program is started; no other inherits the pipes of the connection.    *)
LEMMA InitCgiProc ==
  ASSUME IInv, RInv, SentInv, InitCgi
  PROVE  proc' \in [Client -> ProcType]
<1>1. Visiting
  BY DEF InitCgi, At, Visiting
<1>2. conn \in Client /\ req \in [Client -> ReqType] /\ proc \in [Client -> ProcType]
  BY <1>1, VisitFacts DEF SentInv, RInv, MsgType
<1>3. ASSUME NEW c \in Client PROVE Inherited(c) \in SUBSET (Client \X Ends)
  <2>1. {"srv_out", "srv_in"} \subseteq Ends
    BY DEF Ends
  <2> QED
    BY <2>1 DEF Inherited
<1>4. proc' = [c \in Client |->
                IF c = conn
                THEN [NewProc EXCEPT !.st = "run", !.env = EnvpNew(req[c]),
                                     !.held = Inherited(c)]
                ELSE [proc[c] EXCEPT !.held = {p \in @ : p[1] # conn}]]
  BY DEF InitCgi
<1>5. ASSUME NEW c \in Client
      PROVE  [NewProc EXCEPT !.st = "run", !.env = EnvpNew(req[c]), !.held = Inherited(c)]
               \in ProcType
  BY <1>2, <1>3, ProcStart
<1>6. ASSUME NEW c \in Client
      PROVE  [proc[c] EXCEPT !.held = {p \in @ : p[1] # conn}] \in ProcType
  <2> DEFINE H == {p \in proc[c].held : p[1] # conn}
  <2>1. proc[c] \in ProcType
    BY <1>2
  <2>2. H \in SUBSET (Client \X Ends)
    BY <2>1, ProcFacts
  <2> HIDE DEF H
  <2>3. [proc[c] EXCEPT !.held = H] \in ProcType
    BY <2>1, <2>2, ProcUpdates
  <2> QED
    BY <2>3 DEF H
<1> QED
  BY <1>4, <1>5, <1>6

(* What a CGI program reads comes from the buffer of its connection.       *)
LEMMA WriteSomeProc ==
  ASSUME IInv, RInv, SentInv, WriteSome
  PROVE  proc' \in [Client -> ProcType]
<1> DEFINE b == buf[conn].rest
           k == PipeRoom(conn)
           n == Least(k, wr.rsize - wr.took)
           units == SubSeq(b, wr.took + 1, wr.took + n)
           s == proc[conn].stdin \o units
<1>1. pc = "write" /\ Visiting
  BY DEF WriteSome, At, Visiting
<1>2. conn \in Client /\ buf[conn] \in BufType /\ proc[conn] \in ProcType
  BY <1>1, VisitFacts DEF SentInv
<1>3. b \in Seq(InUnit \cup OutUnit) /\ Len(b) \in Nat
  BY <1>2 DEF BufType
<1>4. /\ wr.took \in Nat /\ wr.rsize \in Nat
      /\ wr.took <= wr.rsize /\ wr.rsize <= Len(b)
  BY <1>1 DEF SentInv, WriteLeft, conn
<1>5. k \in Int /\ k > 0
  <2>1. Len(proc[conn].stdin) \in Nat
    BY <1>2, ProcFacts
  <2> QED
    BY <2>1, LisoAssumption DEF PipeRoom, WriteSome
<1> HIDE DEF b, k
<1>6. n \in Nat /\ wr.took + n <= wr.rsize
  BY <1>4, <1>5 DEF Least
<1> HIDE DEF n
<1>7. units \in Seq(InUnit \cup OutUnit)
  <2>1. \A i \in wr.took + 1 .. wr.took + n : b[i] \in InUnit \cup OutUnit
    BY <1>3, <1>4, <1>6
  <2> QED
    BY <1>4, <1>6, <2>1, SubSeqProperties
<1> HIDE DEF units
<1>8. s \in Seq(InUnit \cup OutUnit)
  BY <1>2, <1>7, ProcFacts, ConcatProperties
<1>9. proc' = [proc EXCEPT ![conn] = [@ EXCEPT !.stdin = s]]
  BY DEF WriteSome, units, n, k, b
<1> HIDE DEF s
<1>10. [proc[conn] EXCEPT !.stdin = s] \in ProcType
  BY <1>2, <1>8, ProcUpdates
<1>11. proc' = [proc EXCEPT ![conn] = [proc[conn] EXCEPT !.stdin = s]]
  BY <1>9
<1> QED
  BY <1>2, <1>10, <1>11, ProcOne

(* The server takes what the program wrote on its output or its stderr.    *)
LEMMA ReadProc ==
  ASSUME IInv, RInv, SentInv, LogErr \/ FromCgi
  PROVE  proc' \in [Client -> ProcType]
<1>1. Visiting
  BY DEF LogErr, FromCgi, Streaming, At, Visiting
<1>2. conn \in Client /\ proc[conn] \in ProcType
  BY <1>1, VisitFacts DEF SentInv
<1>3. CASE LogErr
  <2>1. [proc[conn] EXCEPT !.err = FALSE] \in ProcType
    BY <1>2, ProcUpdates
  <2>2. proc' \in {proc, [proc EXCEPT ![conn] = [proc[conn] EXCEPT !.err = FALSE]]}
    BY <1>3 DEF LogErr
  <2> QED
    BY <1>2, <2>1, <2>2, ProcOne DEF SentInv
<1>4. CASE FromCgi
  <2> DEFINE o == proc[conn].stdout
             s == Skip(o, Least(BUFSZ, Len(o)))
  <2>1. o \in Seq(OutUnit) /\ Len(o) \in Nat
    BY <1>2, ProcFacts
  <2>2. s \in Seq(OutUnit)
    BY <2>1, ConnAssumption, TakeSkipFacts DEF Least
  <2>3. proc' = [proc EXCEPT ![conn] = [proc[conn] EXCEPT !.stdout = s]]
    BY <1>4 DEF FromCgi
  <2> HIDE DEF s
  <2>4. [proc[conn] EXCEPT !.stdout = s] \in ProcType
    BY <1>2, <2>2, ProcUpdates
  <2> QED
    BY <1>2, <2>3, <2>4, ProcOne
<1> QED
  BY <1>3, <1>4

(* A program reads, writes or exits.                                       *)
LEMMA ProgramsProc ==
  ASSUME SentInv, Programs
  PROVE  proc' \in [Client -> ProcType]
<1>1. PICK c \in Client : CgiRead(c) \/ CgiEof(c) \/ CgiWrite(c) \/ CgiErr(c) \/ CgiExit(c)
  BY DEF Programs
<1> DEFINE p == proc[c]
<1>2. p \in ProcType
  BY DEF SentInv
<1>3. CASE CgiRead(c)
  <2>1. proc' = [proc EXCEPT ![c] = [p EXCEPT !.seen = p.seen \o p.stdin, !.stdin = << >>]]
    BY <1>3 DEF CgiRead
  <2> HIDE DEF p
  <2> QED
    BY <1>2, <2>1, ProcSteps, ProcOne
<1>4. CASE CgiEof(c) \/ CgiErr(c)
  <2>1. \/ proc' = [proc EXCEPT ![c] = [p EXCEPT !.eof = TRUE]]
        \/ proc' = [proc EXCEPT ![c] = [p EXCEPT !.err = TRUE]]
    BY <1>4 DEF CgiEof, CgiErr
  <2> HIDE DEF p
  <2> QED
    BY <1>2, <2>1, ProcUpdates, ProcOne
<1>5. CASE CgiWrite(c)
  <2>1. /\ p.made < OUTSZ
        /\ proc' = [proc EXCEPT ![c] =
                      [p EXCEPT !.made = p.made + 1,
                                !.stdout = Append(p.stdout, CgiUnit(p.made + 1))]]
    BY <1>5 DEF CgiWrite
  <2> HIDE DEF p
  <2> QED
    BY <1>2, <2>1, ProcSteps, ProcOne
<1>6. CASE CgiExit(c)
  <2>1. proc' = [proc EXCEPT ![c] = Exit(p)]
    BY <1>6 DEF CgiExit
  <2> HIDE DEF p
  <2> QED
    BY <1>2, <2>1, ProcSteps, ProcOne
<1> QED
  BY <1>1, <1>3, <1>4, <1>5, <1>6

(* Whatever happens, the programs' records stay within their types.        *)
LEMMA NextProc ==
  ASSUME IInv, RInv, SentInv, [Next]_vars
  PROVE  proc' \in [Client -> ProcType]
<1>1. ASSUME UNCHANGED proc PROVE proc' \in [Client -> ProcType]
  BY <1>1 DEF SentInv
<1>2. CASE Select \/ AcceptSkip \/ AcceptRefuse \/ AcceptConn \/ RecvSkip \/ Prepare
  BY <1>1, <1>2 DEF Select, AcceptSkip, AcceptRefuse, AcceptConn, RecvSkip, Prepare
<1>3. CASE Handshake \/ HandshakeFail \/ RecvIgnore \/ RecvData
  BY <1>1, <1>3 DEF Handshake, HandshakeFail, RecvIgnore, RecvData
<1>4. CASE InitCgiSkip \/ ForSelect
  BY <1>1, <1>4 DEF InitCgiSkip, ForSelect
<1>5. CASE InitCgiNoPipe \/ InitCgiFail
  <2>1. CgiFailed
    BY <1>5 DEF InitCgiNoPipe, InitCgiFail
  <2> QED
    BY <1>1, <2>1 DEF CgiFailed
<1>6. CASE ToCgi \/ WriteShort \/ WriteFail \/ WriteDone
  BY <1>1, <1>6 DEF ToCgi, WriteShort, WriteFail, WriteDone
<1>7. CASE FromCgiSkip \/ FromCgiEof \/ FromCgiFail
  BY <1>1, <1>7 DEF FromCgiSkip, FromCgiEof, FromCgiFail
<1>8. CASE DynamicSkip \/ DynamicEnd \/ StaticSkip \/ MaxFd \/ LoopEnd \/ UNCHANGED vars
  BY <1>1, <1>8 DEF DynamicSkip, DynamicEnd, StaticSkip, MaxFd, LoopEnd, vars
<1>9. CASE ServeDynamic \/ SendErrorPage \/ SendHeader \/ SendBody
  BY <1>1, <1>9 DEF ServeDynamic, SendErrorPage, SendHeader, SendBody, staticUnchanged
<1>10. CASE Clients
  BY <1>1, <1>10 DEF Clients, Connect, ClientSend, ClientRead, ClientHalfClose, ClientLeave
<1>11. CASE LogErr \/ FromCgi
  BY <1>11, ReadProc
<1>12. CASE InitCgi
  BY <1>12, InitCgiProc
<1>13. CASE WriteSome
  BY <1>13, WriteSomeProc
<1>14. CASE Programs
  BY <1>14, ProgramsProc
<1> QED
  BY <1>2, <1>3, <1>4, <1>5, <1>6, <1>7, <1>8, <1>9, <1>10, <1>11, <1>12, <1>13, <1>14
     DEF Next, Server

-----------------------------------------------------------------------------
(* The invariant                                                           *)

(* Nothing is sent and no program runs at the start.                       *)
LEMMA InitSent == Init => SentInv
<1> SUFFICES ASSUME Init PROVE SentInv
  OBVIOUS
<1>1. WriteLeft
  BY DEF Init, WriteLeft, NoWrite
<1>2. OutTaken
  <2>1. out = [c \in Client |-> << >>] /\ taken = [c \in Client |-> 0]
    BY DEF Init
  <2> QED
    BY <2>1 DEF OutTaken
<1>3. proc \in [Client -> ProcType]
  BY NewProcFacts DEF Init
<1> QED
  BY <1>1, <1>2, <1>3 DEF SentInv

(* Every step keeps what a connection has sent and its program has read    *)
(* within their types.                                                     *)
LEMMA NextSent ==
  ASSUME IInv, RInv, SentInv, [Next]_vars
  PROVE  SentInv'
BY NextWriteLeft, NextTaken, NextProc DEF SentInv

(* What each part of the invariant needs of the others: RInv of a step     *)
(* needs IInv after it, WireInv and SentInv need RInv before it.           *)
StreamInv == IInv /\ RInv /\ WireInv /\ SentInv

(* StreamInv is an inductive invariant of the server, its clients and      *)
(* programs: every handler of the loop leaves each connection with the     *)
(* response, program, buffer, pipes and descriptors its request calls for. *)
THEOREM StreamInvariant == Spec => []StreamInv
<1>1. Init => StreamInv
  BY InitInv, InitRInv, InitWire, InitSent DEF StreamInv
<1>2. ASSUME StreamInv, [Next]_vars PROVE StreamInv'
  <2>1. IInv'
    BY <1>2, NextInv DEF StreamInv
  <2>2. RInv'
    BY <1>2, <2>1, NextRInv DEF StreamInv
  <2> QED
    BY <1>2, <2>1, <2>2, NextWire, NextSent DEF StreamInv
<1> QED
  BY <1>1, <1>2, PTL DEF Spec

-----------------------------------------------------------------------------
(* The properties                                                          *)

(* What is known of a connection between two passes of the loop.           *)
LEMMA BetweenPasses ==
  ASSUME StreamInv, pc = "select", NEW c \in Client, InPool(c)
  PROVE  /\ Content(req[c], resp[c], cgi[c], buf[c])
         /\ Selected(req[c], resp[c], cgi[c], fd[c] \in read_set, fd[c] \in write_set,
                     pipe[c]["srv_in"] \in read_set, "recv")
<1>1. Stage(c) = "recv"
  BY DEF Stage
<1> QED
  BY <1>1 DEF StreamInv, RInv, ConnOK

(* No buffer, sequence or number of a connection leaves its type or its    *)
(* bound: what is received never goes past BUFSZ, header, leftovers of the *)
(* request before and reads included (conn.c cn_recv, cn_parse_req), and a *)
(* client has never read what was not sent.                                *)
THEOREM TypesCorrect == Spec => []TypeOK
<1>1. ASSUME StreamInv PROVE TypeOK
  <2>1. PoolTypeOK /\ wr \in [rsize: Nat, took: Nat] /\ backlog \subseteq Client
    BY <1>1 DEF StreamInv, IInv, CoreType, SentInv, WriteLeft
  <2>2. ASSUME NEW c \in Client
        PROVE  /\ req[c] \in ReqType /\ resp[c] \in RespType /\ cgi[c] \in CgiType
               /\ buf[c] \in BufType
               /\ last_buf[c] \in Seq(InUnit)
    BY <1>1 DEF StreamInv, RInv, MsgType, IInv, CoreType
  <2>3. ASSUME NEW c \in Client
        PROVE  BufSz(buf[c]) <= BUFSZ /\ Len(last_buf[c]) <= BUFSZ
    <3>1. CASE InPool(c)
      BY <1>1, <3>1 DEF StreamInv, RInv, ConnOK
    <3>2. CASE ~InPool(c)
      <4>1. buf[c] = NewBuf /\ last_buf[c] = << >>
        BY <1>1, <3>2 DEF StreamInv, RInv, Fresh
      <4>2. BufSz(NewBuf) <= BUFSZ
        BY NewFacts, BufFacts
      <4>3. Len(last_buf[c]) = 0
        BY <4>1
      <4> QED
        BY <4>1, <4>2, <4>3, ConnAssumption
    <3> QED
      BY <3>1, <3>2
  <2>4. ASSUME NEW c \in Client
        PROVE  /\ ssl[c] \in {"none", "handshake", "accepted"}
               /\ pend[c] \in Seq(InUnit) /\ inq[c] \in Seq(WireUnit) /\ sent[c] \in Nat
    BY <1>1 DEF StreamInv, WireInv
  <2>5. ASSUME NEW c \in Client
        PROVE  /\ out[c] \in Seq(OutUnit) /\ taken[c] \in 0 .. Len(out[c])
               /\ proc[c] \in ProcType
    BY <1>1 DEF StreamInv, SentInv, OutTaken
  <2>6. link \in [Client -> {"off", "open", "half", "gone"}]
    BY <1>1 DEF StreamInv, IInv, CoreType
  <2> QED
    BY <2>1, <2>2, <2>3, <2>4, <2>5, <2>6 DEF TypeOK
<1> QED
  BY <1>1, StreamInvariant, PTL

(* However a client cuts its requests, no end of line waits unparsed in a  *)
(* buffer: the search from last_recv_end misses none (conn.c cn_parse_req, *)
(* "TODO ok to start with last_recv_end?").                                *)
THEOREM NoLineIsLeft == Spec => []NoLineLeft
<1>1. ASSUME StreamInv PROVE NoLineLeft
  <2> SUFFICES ASSUME NEW c \in Client, pc = "select", InPool(c), InHeader(req[c]),
                      NEW i \in 1 .. Len(buf[c].rest)
               PROVE  buf[c].rest[i] # LF
    BY DEF NoLineLeft, InHeader
  <2>1. LineFree(buf[c])
    BY <1>1, BetweenPasses DEF Content, Reading, Static, Dynamic, Refused, InHeader
  <2> QED
    BY <2>1 DEF LineFree, LineFreeUpTo
<1> QED
  BY <1>1, StreamInvariant, PTL

(* A socket is read exactly while its request is not complete, for every   *)
(* interleaving of the connections' visits (lisod.c main: FD_CLR once      *)
(* req->phase is REQ_DONE; pl_reset_conn sets it again).                   *)
THEOREM BackpressureHolds == Spec => []Backpressure
<1>1. ASSUME StreamInv PROVE Backpressure
  <2> SUFFICES ASSUME NEW c \in Client, pc = "select", InPool(c)
               PROVE  /\ req[c].phase = "DONE" => fd[c] \notin read_set
                      /\ req[c].phase \in {"START", "HEADER", "BODY"} => fd[c] \in read_set
    BY DEF Backpressure
  <2> QED
    BY <1>1, BetweenPasses DEF Selected, Early
<1> QED
  BY <1>1, StreamInvariant, PTL

-----------------------------------------------------------------------------
(* Who is awaited                                                          *)

(* A request received in full of which nothing was served yet.             *)
Unbegun(c) ==
  req[c].phase = "DONE" /\ (resp[c].phase = "READY" \/ cgi[c].phase = "READY")

(* A connection with no descriptor in a set while select waits.            *)
Stranded(c) ==
  InPool(c) /\ fd[c] \notin read_set \cup write_set /\ pipe[c]["srv_in"] \notin read_set

StrandedUnbegun ==
  pc = "select" => \A c \in Client : Stranded(c) => Unbegun(c)

(* The clearing of write_set at the end of a CGI response (lisod.c main)   *)
(* is the one way to forget a connection: whoever is not watched by select *)
(* holds a request that was complete when the one before it ended.  No     *)
(* connection is forgotten while a request is read, streamed or answered.  *)
THEOREM OnlyUnbegunIsStranded == Spec => []StrandedUnbegun
<1>1. ASSUME StreamInv PROVE StrandedUnbegun
  <2> SUFFICES ASSUME NEW c \in Client, pc = "select", Stranded(c)
               PROVE  Unbegun(c)
    BY DEF StrandedUnbegun
  <2>1. /\ Content(req[c], resp[c], cgi[c], buf[c])
        /\ Selected(req[c], resp[c], cgi[c], fd[c] \in read_set, fd[c] \in write_set,
                    pipe[c]["srv_in"] \in read_set, "recv")
        /\ fd[c] \notin read_set \cup write_set /\ pipe[c]["srv_in"] \notin read_set
    BY <1>1, BetweenPasses DEF Stranded
  <2>2. req[c].phase = "DONE"
    BY <2>1 DEF Selected, Content, Reading, Static, Dynamic, Refused, InHeader
  <2>3. resp[c].phase \in {"HEADER", "BODY"} \/ resp[c].phase = "READY"
          \/ cgi[c].phase \in {"READY", "SRV_TO_CGI", "CGI_TO_SRV", "DONE"}
    BY <2>1, <2>2 DEF Content, Reading, Static, Dynamic, Refused, InHeader
  <2> QED
    BY <2>1, <2>2, <2>3 DEF Selected, Early, Unbegun
<1> QED
  BY <1>1, StreamInvariant, PTL

(* A server without CGI programs forgets nobody: the socket that           *)
(* liso_reset_or_close has put in a set is taken out again only behind     *)
(* cn_serve_dynamic (lisod.c main).                                        *)
THEOREM AwaitedWithoutCgi ==
  ASSUME CgiUri = {}
  PROVE  Spec => []Awaited
<1>1. ASSUME StreamInv PROVE Awaited
  <2> SUFFICES ASSUME NEW c \in Client, pc = "select", Stranded(c)
               PROVE  FALSE
    BY DEF Awaited, Stranded
  <2>1. /\ ReqOK(req[c]) /\ Content(req[c], resp[c], cgi[c], buf[c])
        /\ Selected(req[c], resp[c], cgi[c], fd[c] \in read_set, fd[c] \in write_set,
                    pipe[c]["srv_in"] \in read_set, "recv")
        /\ fd[c] \notin read_set \cup write_set /\ pipe[c]["srv_in"] \notin read_set
    BY <1>1, BetweenPasses DEF Stranded, StreamInv, RInv, ConnOK
  <2>2. req[c].phase = "DONE"
    BY <2>1 DEF Selected, Content, Reading, Static, Dynamic, Refused, InHeader
  <2>3. req[c].type # "DYNAMIC"
    BY <2>1, <2>2 DEF ReqOK, Located
  <2>4. resp[c].phase \in {"READY", "HEADER", "BODY"}
    BY <2>1, <2>2, <2>3 DEF Content, Reading, Static, Dynamic, Refused, InHeader
  <2> QED
    BY <2>1, <2>2, <2>4 DEF Selected, Early
<1> QED
  BY <1>1, StreamInvariant, PTL

-----------------------------------------------------------------------------
(* When a response is sent                                                 *)

(* The four places where one is sent: the request is complete or refused,  *)
(* and for_select has stopped the reading.                                 *)
LEMMA SendingWaits ==
  ASSUME StreamInv, ServeDynamic \/ SendErrorPage \/ SendHeader \/ SendBody
  PROVE  /\ conn \in Client /\ \A c \in Client \ {conn} : out'[c] = out[c]
         /\ \/ out' = out
            \/ req[conn].phase = "ABORT" /\ resp[conn].phase = "ABORT"
            \/ req[conn].phase = "DONE" /\ fd[conn] \notin read_set
<1> DEFINE rq == req[conn]
           rs == resp[conn]
           cg == cgi[conn]
<1>1. /\ Visiting /\ pc \in {"dynamic", "static"}
      /\ IInv /\ RInv /\ out \in [Client -> Seq(OutUnit)]
  BY DEF ServeDynamic, ServingDynamic, SendErrorPage, SendHeader, SendBody, ServingStatic,
         At, Visiting, StreamInv, SentInv, OutTaken
<1>2. /\ conn \in Client /\ Content(rq, rs, cg, buf[conn])
      /\ Selected(rq, rs, cg, fd[conn] \in read_set, fd[conn] \in write_set,
                  pipe[conn]["srv_in"] \in read_set, pc)
  BY <1>1, VisitFacts DEF ConnOK
<1>3. ASSUME out' # out
      PROVE  /\ rs.phase \in {"ABORT", "HEADER", "BODY"} \/ cg.buf_phase = "SEND"
             /\ \E q : out' = [out EXCEPT ![conn] = q]
  BY <1>3 DEF ServeDynamic, ServingDynamic, SendErrorPage, SendHeader, SendBody,
              ServingStatic, Delivered
<1>4. ASSUME out' # out
      PROVE  rq.phase = "DONE" \/ (rq.phase = "ABORT" /\ rs.phase = "ABORT")
  BY <1>2, <1>3, <1>4, NewFacts DEF Content, Reading, Static, Dynamic, Refused
<1>5. rq.phase = "DONE" => fd[conn] \notin read_set
  BY <1>1, <1>2 DEF Selected, Early
<1>6. \A c \in Client \ {conn} : out'[c] = out[c]
  BY <1>1, <1>2, <1>3
<1> QED
  BY <1>2, <1>4, <1>5, <1>6

(* Nobody else sends anything.                                             *)
LEMMA OthersSendNothing ==
  ASSUME [Next]_vars
  PROVE  UNCHANGED out \/ ServeDynamic \/ SendErrorPage \/ SendHeader \/ SendBody
<1> USE DEF loopVars, poolVars, setVars, readyVars, fdVars, msgVars, tlsVars, netVars,
            ioVars
<1>1. CASE Select \/ AcceptSkip \/ AcceptRefuse \/ AcceptConn \/ RecvSkip \/ LogErr \/ Prepare
  BY <1>1 DEF Select, AcceptSkip, AcceptRefuse, AcceptConn, RecvSkip, LogErr, Prepare
<1>2. CASE Handshake \/ HandshakeFail \/ RecvIgnore \/ RecvData
  BY <1>2 DEF Handshake, HandshakeFail, RecvIgnore, RecvData
<1>3. CASE InitCgiSkip \/ InitCgi \/ ForSelect
  BY <1>3 DEF InitCgiSkip, InitCgi, ForSelect
<1>4. CASE InitCgiNoPipe \/ InitCgiFail
  BY <1>4 DEF InitCgiNoPipe, InitCgiFail, CgiFailed
<1>5. CASE ToCgi \/ WriteSome \/ WriteShort \/ WriteFail \/ WriteDone
  BY <1>5 DEF ToCgi, WriteSome, WriteShort, WriteFail, WriteDone, writeUnchanged
<1>6. CASE FromCgiSkip \/ FromCgi \/ FromCgiEof \/ FromCgiFail
  BY <1>6 DEF FromCgiSkip, FromCgi, FromCgiEof, FromCgiFail
<1>7. CASE DynamicSkip \/ DynamicEnd \/ StaticSkip \/ MaxFd \/ LoopEnd \/ UNCHANGED vars
  BY <1>7 DEF DynamicSkip, DynamicEnd, StaticSkip, MaxFd, LoopEnd, vars
<1>8. CASE Clients
  BY <1>8 DEF Clients, Connect, ClientSend, ClientRead, ClientHalfClose, ClientLeave
<1>9. CASE Programs
  BY <1>9 DEF Programs, CgiRead, CgiEof, CgiWrite, CgiErr, CgiExit, cgiUnchanged
<1> QED
  BY <1>1, <1>2, <1>3, <1>4, <1>5, <1>6, <1>7, <1>8, <1>9 DEF Next, Server

(* What a dropped connection held is not taken from it: it has left.       *)
LEMMA DropTakesNothing ==
  ASSUME conn \in Client, fd \in [Client -> Fd \cup {NoFd}], DropConn(conn)
  PROVE  \A c \in Client : ~Takes(c)
<1>1. fd'[conn] = NoFd
  BY DEF DropConn
<1>2. \A c \in Client \ {conn} : inq'[c] = inq[c] /\ pend'[c] = pend[c]
  BY DEF DropConn
<1> QED
  BY <1>1, <1>2 DEF Takes, InPool

(* cn_recv takes data only while the request is not complete; of a refused *)
(* one, and of a handshake, nothing is kept.                               *)
LEMMA TakenForRequest ==
  ASSUME StreamInv, Handshake \/ HandshakeFail \/ RecvIgnore \/ RecvData,
         NEW c \in Client, Takes(c)
  PROVE  \/ req[c].phase \in {"START", "HEADER", "BODY"}
         \/ req[c].phase = "ABORT" /\ UNCHANGED <<req[c], buf[c], last_buf[c]>>
<1>1. Receiving /\ IInv /\ RInv
  BY DEF Handshake, HandshakeFail, RecvIgnore, RecvData, StreamInv
<1>2. /\ conn \in Client /\ fd \in [Client -> Fd \cup {NoFd}]
      /\ req[conn].phase \in {"START", "HEADER", "BODY", "ABORT"}
  BY <1>1, ReceivingFacts, VisitFacts DEF IInv, CoreType, PoolTypeOK
<1>3. ~DropConn(conn)
  BY <1>2, DropTakesNothing
<1>4. c = conn
  <2>1. \/ UNCHANGED <<inq, pend>>
        \/ (\E t : inq' = [inq EXCEPT ![conn] = t]) /\ UNCHANGED pend
        \/ /\ \E t : inq' = [inq EXCEPT ![conn] = t]
           /\ \E u : pend' = [pend EXCEPT ![conn] = u]
    <3>1. CASE Handshake
      BY <3>1 DEF Handshake
    <3>2. CASE HandshakeFail
      BY <1>3, <3>2 DEF HandshakeFail
    <3>3. CASE RecvIgnore
      BY <1>3, <3>3 DEF RecvIgnore
    <3>4. CASE RecvData
      BY <1>3, <3>4 DEF RecvData
    <3> QED
      BY <3>1, <3>2, <3>3, <3>4
  <2>2. inq'[c] # inq[c] \/ pend'[c] # pend[c]
    BY DEF Takes
  <2>3. c # conn => inq'[c] = inq[c] /\ pend'[c] = pend[c]
    <3>1. DOMAIN inq = Client /\ DOMAIN pend = Client
      BY DEF StreamInv, WireInv
    <3> QED
      BY <2>1, <3>1
  <2> QED
    BY <2>2, <2>3
<1>5. CASE req[conn].phase = "ABORT"
  <2>1. CASE Handshake
    BY <1>4, <1>5, <2>1 DEF Handshake, msgVars
  <2>2. CASE RecvIgnore
    BY <1>3, <1>4, <1>5, <2>2 DEF RecvIgnore, Overfull
  <2>3. ~HandshakeFail /\ ~RecvData
    BY <1>3, <1>5 DEF HandshakeFail, RecvData, Ignored
  <2> QED
    BY <2>1, <2>2, <2>3
<1> QED
  BY <1>2, <1>4, <1>5

(* The other handlers, clients and programs take nothing.                  *)
LEMMA OthersTakeNothing ==
  ASSUME StreamInv, [Next]_vars, NEW c \in Client, Takes(c)
  PROVE  Handshake \/ HandshakeFail \/ RecvIgnore \/ RecvData
<1>1. inq' # inq \/ pend' # pend
  BY DEF Takes
<1>2. IInv /\ RInv /\ sent \in [Client -> Nat] /\ fd \in [Client -> Fd \cup {NoFd}]
  BY DEF StreamInv, WireInv, IInv, CoreType, PoolTypeOK
<1>3. ASSUME DynamicEnd \/ ServeDynamic \/ SendErrorPage \/ SendHeader \/ SendBody
      PROVE  FALSE
  <2>1. Visiting
    BY <1>3 DEF DynamicEnd, ServeDynamic, ServingDynamic, SendErrorPage, SendHeader,
                SendBody, ServingStatic, At, Visiting
  <2>2. ~DropConn(conn)
    BY <1>2, <2>1, VisitFacts, DropTakesNothing
  <2>3. UNCHANGED <<inq, pend>>
    BY <1>3, <2>2 DEF DynamicEnd, ServeDynamic, SendErrorPage, SendHeader, SendBody,
                      Finish, staticUnchanged, tlsVars
  <2> QED
    BY <1>1, <2>3
<1>4. ASSUME AcceptRefuse PROVE FALSE
  <2>1. PICK d \in backlog : inq' = [inq EXCEPT ![d] = << >>] /\ UNCHANGED pend
    BY <1>4 DEF AcceptRefuse, Waiting, tlsVars
  <2>2. c # d
    BY <1>2, <2>1 DEF Takes, InPool, IInv, Newcomers
  <2> QED
    BY <2>1, <2>2 DEF Takes
<1>5. ASSUME Clients PROVE FALSE
  <2>1. PICK d \in Client :
          Connect(d) \/ ClientSend(d) \/ ClientRead(d) \/ ClientHalfClose(d) \/ ClientLeave(d)
    BY <1>5 DEF Clients
  <2>2. CASE ClientSend(d)
    <3>1. /\ \E q : inq' = [inq EXCEPT ![d] = q]
          /\ sent' = [sent EXCEPT ![d] = @ + 1] /\ UNCHANGED pend
      BY <2>2 DEF ClientSend, serverUnchanged, tlsVars
    <3>2. c = d
      BY <3>1 DEF Takes
    <3>3. sent'[c] = sent[c] + 1 /\ sent'[c] = sent[c]
      BY <1>2, <3>1, <3>2 DEF Takes
    <3> QED
      BY <1>2, <3>3
  <2> QED
    BY <1>1, <2>1, <2>2 DEF Connect, ClientRead, ClientHalfClose, ClientLeave,
                            serverUnchanged, tlsVars, ioVars
<1> USE DEF loopVars, poolVars, setVars, readyVars, fdVars, msgVars, tlsVars, netVars,
            ioVars
<1>6. ASSUME Select \/ AcceptSkip \/ AcceptConn \/ RecvSkip \/ LogErr \/ Prepare PROVE FALSE
  BY <1>1, <1>6 DEF Select, AcceptSkip, AcceptConn, RecvSkip, LogErr, Prepare
<1>7. ASSUME InitCgiSkip \/ InitCgiNoPipe \/ InitCgiFail \/ InitCgi \/ ForSelect PROVE FALSE
  BY <1>1, <1>7 DEF InitCgiSkip, InitCgiNoPipe, InitCgiFail, CgiFailed, InitCgi, ForSelect
<1>8. ASSUME ToCgi \/ WriteSome \/ WriteShort \/ WriteFail \/ WriteDone PROVE FALSE
  BY <1>1, <1>8 DEF ToCgi, WriteSome, WriteShort, WriteFail, WriteDone, writeUnchanged
<1>9. ASSUME FromCgiSkip \/ FromCgi \/ FromCgiEof \/ FromCgiFail PROVE FALSE
  BY <1>1, <1>9 DEF FromCgiSkip, FromCgi, FromCgiEof, FromCgiFail
<1>10. ASSUME DynamicSkip \/ StaticSkip \/ MaxFd \/ LoopEnd \/ UNCHANGED vars PROVE FALSE
  BY <1>1, <1>10 DEF DynamicSkip, StaticSkip, MaxFd, LoopEnd, vars
<1>11. ASSUME Programs PROVE FALSE
  BY <1>1, <1>11 DEF Programs, CgiRead, CgiEof, CgiWrite, CgiErr, CgiExit, cgiUnchanged,
                     serverUnchanged
<1> QED
  BY <1>3, <1>4, <1>5, <1>6, <1>7, <1>8, <1>9, <1>10, <1>11 DEF Next, Server

(* A unit is sent only for a complete request, on a socket that select does*)
(* not watch for the next one, or as the error page of a refused request;  *)
(* nothing is received behind a complete request, and what is received     *)
(* behind a refused one changes neither its buffers nor its request, in    *)
(* whatever order connections and programs get on (lisod.c main, conn.c    *)
(* cn_recv, cn_serve_static, cn_serve_dynamic).                            *)
THEOREM RepliesAwaitRequests == Spec => RepliesWait
<1> DEFINE Sends == \A c \in Client : out'[c] # out[c] =>
                      \/ req[c].phase = "DONE" /\ fd[c] \notin read_set
                      \/ req[c].phase = "ABORT" /\ resp[c].phase = "ABORT"
           Receives == \A c \in Client : Takes(c) =>
                         \/ req[c].phase \in {"START", "HEADER", "BODY"}
                         \/ /\ req[c].phase = "ABORT"
                            /\ UNCHANGED <<req[c], buf[c], last_buf[c]>>
<1>1. ASSUME StreamInv, [Next]_vars PROVE Sends
  <2>1. CASE UNCHANGED out
    BY <2>1
  <2>2. CASE ServeDynamic \/ SendErrorPage \/ SendHeader \/ SendBody
    BY <2>2, <1>1, SendingWaits
  <2> QED
    BY <1>1, <2>1, <2>2, OthersSendNothing
<1>2. ASSUME StreamInv, [Next]_vars PROVE Receives
  BY <1>2, OthersTakeNothing, TakenForRequest
<1>3. StreamInv /\ [Next]_vars => [\A c \in Client :
       /\ out'[c] # out[c] =>
            \/ req[c].phase = "DONE" /\ fd[c] \notin read_set
            \/ req[c].phase = "ABORT" /\ resp[c].phase = "ABORT"
       /\ Takes(c) =>
            \/ req[c].phase \in {"START", "HEADER", "BODY"}
            \/ /\ req[c].phase = "ABORT"
               /\ UNCHANGED <<req[c], buf[c], last_buf[c]>>]_vars
  BY <1>1, <1>2
<1> QED
  BY <1>3, StreamInvariant, PTL DEF Spec, RepliesWait
=============================================================================
