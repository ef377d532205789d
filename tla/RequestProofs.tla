---------------------------- MODULE RequestProofs ----------------------------
(***************************************************************************)
(* Theorems about the requests: what a connection holds at each handler,   *)
(* for every set of clients, every stream of bytes they send and every     *)
(* value of the bounds.  The inductive invariant RInv says which response, *)
(* program, buffer and selected descriptors go with the phase of a request;*)
(* it rests on IInv of LisoProofs, and on ConnProofs for what cn_parse_req *)
(* leaves.                                                                 *)
(***************************************************************************)
EXTENDS LisoProofs, ConnProofs

-----------------------------------------------------------------------------
(* What the program sends                                                  *)

(* A buffer that holds units to send, within its capacity.                 *)
SendBufOK(b) ==
  /\ b \in [p: Nat, rest: Seq(OutUnit)]
  /\ BufSz(b) <= BUFSZ

(* Which response, CGI program and buffer go with a request: while it is   *)
(* read they wait, a static one is answered from a file and a dynamic one  *)
(* by its program, and a refused one by an error page.                     *)
Reading(rq, rs, cg, b) ==
  /\ InHeader(rq)
  /\ rs.phase = "READY" /\ cg = NewCgi
  /\ BufOK(b) /\ LineFree(b)

Static(rq, rs, cg, b) ==
  /\ rq.phase \in {"BODY", "DONE"} /\ rq.type = "STATIC"
  /\ cg.phase = "DISABLED" /\ cg.buf_phase = "RECV"
  /\ \/ rs.phase = "READY" /\ BufOK(b)
     \/ rs.phase \in {"HEADER", "BODY"} /\ rq.phase = "DONE" /\ SendBufOK(b)

Dynamic(rq, rs, cg, b) ==
  /\ rq.phase \in {"BODY", "DONE"} /\ rq.type = "DYNAMIC"
  /\ rs.phase = "DISABLED"
  /\ \/ /\ cg.phase \in {"READY", "SRV_TO_CGI"} /\ cg.buf_phase = "RECV"
        /\ BufOK(b)
     \/ /\ cg.phase = "CGI_TO_SRV"
        /\ rq.phase = "DONE" /\ SendBufOK(b)
     \/ /\ cg.phase = "DONE" /\ cg.buf_phase = "SEND"
        /\ rq.phase = "DONE" /\ b = NewBuf

Refused(rq, rs, cg) ==
  /\ rq.phase = "ABORT" /\ rs.phase = "ABORT"
  /\ cg.phase \notin {"CGI_TO_SRV", "DONE"} /\ cg.buf_phase = "RECV"

Content(rq, rs, cg, b) ==
  \/ Reading(rq, rs, cg, b) \/ Static(rq, rs, cg, b)
  \/ Dynamic(rq, rs, cg, b) \/ Refused(rq, rs, cg)

(* Which of the socket (r: in read_set, w: in write_set) and the program's *)
(* output (o: in read_set) are selected, at handler st of the visit.       *)
Early == {"logerr", "prepare", "init_cgi", "for_select"}

Selected(rq, rs, cg, r, w, o, st) ==
  /\ rq.phase \in {"START", "HEADER", "BODY"} => r
  /\ rq.phase = "ABORT" => r \/ w
  /\ rq.phase = "DONE" =>
       /\ r => st \in Early
       /\ rs.phase = "READY" => w \/ st \in {"logerr", "prepare"} \/ CgiUri # {}
       /\ rs.phase \in {"HEADER", "BODY"} => w \/ st \in {"init_cgi", "for_select"}
       /\ cg.phase = "SRV_TO_CGI" => st \in Early \cup {"to_cgi", "write"}
       /\ cg.phase = "CGI_TO_SRV" => o
       /\ cg.phase = "DONE" => w

-----------------------------------------------------------------------------
(* The invariant of the requests                                           *)

(* The handler at which a connection stands: "recv" if it is not visited.  *)
Stage(c) ==
  IF pc \notin {"select", "accept", "accept_ssl"} /\ cur <= Len(conns) /\ conns[cur] = c
  THEN pc ELSE "recv"

MsgType ==
  /\ req \in [Client -> ReqType]
  /\ last_buf \in [Client -> Seq(InUnit)]
  /\ resp \in [Client -> RespType]
  /\ buf \in [Client -> BufType]

Fresh(c) ==
  /\ req[c] = NewReq /\ last_buf[c] = << >> /\ resp[c] = NewResp
  /\ cgi[c] = NewCgi /\ buf[c] = NewBuf

ConnOK(c) ==
  /\ ReqOK(req[c]) /\ Len(last_buf[c]) <= BUFSZ /\ BufSz(buf[c]) <= BUFSZ
  /\ Content(req[c], resp[c], cgi[c], buf[c])
  /\ Selected(req[c], resp[c], cgi[c], fd[c] \in read_set, fd[c] \in write_set,
              pipe[c]["srv_in"] \in read_set, Stage(c))

(* The connections whose turn is still to come in this pass.               *)
Unvisited(c) ==
  \/ pc \in {"accept", "accept_ssl"}
  \/ pc # "select" /\ idx[c] > cur
  \/ pc = "recv" /\ idx[c] = cur

ReadyRead ==
  \A c \in Client :
    InPool(c) /\ Unvisited(c) /\ fd[c] \in read_ready => fd[c] \in read_set

RInv ==
  /\ MsgType
  /\ \A c \in Client : IF InPool(c) THEN ConnOK(c) ELSE Fresh(c)
  /\ ReadyRead

-----------------------------------------------------------------------------
(* The invariant of the wire                                               *)

(* What is still to come from c: sent but not read, or not sent yet.       *)
OnlyRecords(c) ==
  /\ inq[c] \in Seq(RecordUnit)
  /\ \A n \in sent[c] + 1 .. Len(Segments[c]) : Segments[c][n] \in Seq(RecordUnit)

WireInv ==
  /\ inq \in [Client -> Seq(WireUnit)]
  /\ pend \in [Client -> Seq(InUnit)]
  /\ ssl \in [Client -> {"none", "handshake", "accepted"}]
  /\ sent \in [Client -> Nat]
  /\ \A c \in Client :
       /\ c \notin Tls => inq[c] \in Seq(InUnit) /\ ssl[c] = "none"
       /\ c \in Tls /\ InPool(c) => ssl[c] # "none"
       /\ ssl[c] = "accepted" => OnlyRecords(c)
       /\ \A j \in 1 .. Len(inq[c]) : inq[c][j] = HelloDone =>
            /\ \A k \in j + 1 .. Len(inq[c]) : inq[c][k] \in RecordUnit
            /\ \A n \in sent[c] + 1 .. Len(Segments[c]) : Segments[c][n] \in Seq(RecordUnit)

-----------------------------------------------------------------------------
(* The invariant of what is sent                                           *)

(* What is left of the buffer while it is written to a program.            *)
WriteLeft ==
  /\ wr \in [rsize: Nat, took: Nat]
  /\ pc = "write" => wr.took <= wr.rsize /\ wr.rsize <= Len(buf[conns[cur]].rest)

(* A client reads what was sent to it, and no more.                        *)
OutTaken ==
  /\ out \in [Client -> Seq(OutUnit)]
  /\ taken \in [Client -> Nat]
  /\ \A c \in Client : taken[c] <= Len(out[c])

SentInv == WriteLeft /\ OutTaken /\ proc \in [Client -> ProcType]

-----------------------------------------------------------------------------
(* Buffers, requests and responses                                         *)

LEMMA BufFacts ==
  ASSUME NEW b, BufOK(b) \/ SendBufOK(b)
  PROVE  b \in BufType /\ BufSz(b) <= BUFSZ
<1>1. /\ b.p \in Nat /\ b.rest \in Seq(InUnit \cup OutUnit)
      /\ b = [p |-> b.p, rest |-> b.rest] /\ BufSz(b) <= BUFSZ
  BY DEF BufOK, SendBufOK
<1>2. b.p + Len(b.rest) <= BUFSZ /\ Len(b.rest) \in Nat
  BY <1>1 DEF BufSz
<1>3. b.p \in 0 .. BUFSZ
  BY <1>1, <1>2, ConnAssumption
<1> QED
  BY <1>1, <1>3 DEF BufType

(* What req_new, resp_new, cgi_new and buf_new give is well formed, and    *)
(* empty.                                                                  *)
LEMMA NewFacts ==
  /\ ReqOK(NewReq) /\ NewReq.phase = "START"
  /\ NewResp \in RespType /\ NewResp.phase = "READY" /\ NewResp.mmbuf = << >>
  /\ NewCgi \in CgiType /\ NewCgi.phase = "IDLE" /\ NewCgi.buf_phase = "RECV"
  /\ BufOK(NewBuf) /\ NewBuf.rest = << >> /\ NewBuf.p = 0 /\ SendBufOK(NewBuf)
<1>1. NewReq \in ReqType /\ NewReq.phase = "START"
  BY DEF NewReq, ReqType, Methods
<1>2. NewResp \in RespType /\ NewResp.phase = "READY" /\ NewResp.mmbuf = << >>
  <2>1. << >> \in Seq(OutUnit)
    OBVIOUS
  <2>2. 200 \in Status
    BY DEF Status
  <2> QED
    BY <2>1, <2>2 DEF NewResp, RespType
<1>3. NewCgi \in CgiType /\ NewCgi.phase = "IDLE" /\ NewCgi.buf_phase = "RECV"
  BY DEF NewCgi, CgiType
<1>4. BufOK(NewBuf) /\ NewBuf.rest = << >> /\ NewBuf.p = 0
  BY NewBufFacts DEF NewBuf
<1>5. NewBuf \in [p: Nat, rest: Seq(OutUnit)]
  BY DEF NewBuf, BufOf
<1>6. BufSz(NewBuf) <= BUFSZ
  BY <1>4 DEF BufOK
<1>7. ReqOK(NewReq)
  BY <1>1 DEF ReqOK
<1> QED
  BY <1>1, <1>2, <1>3, <1>4, <1>5, <1>6, <1>7 DEF SendBufOK

(* What fresh structures make of a connection.                             *)
LEMMA FreshContent ==
  /\ Content(NewReq, NewResp, NewCgi, NewBuf)
  /\ \A w, o, st : Selected(NewReq, NewResp, NewCgi, TRUE, w, o, st)
<1>1. LineFree(NewBuf)
  BY NewFacts DEF LineFree, LineFreeUpTo
<1> QED
  BY <1>1, NewFacts DEF Content, Reading, Selected, InHeader

(* A header, a file and an error page are made of units to send.           *)
LEMMA RespHdrFacts ==
  ASSUME NEW status \in Status, NEW len \in Nat, NEW alive \in BOOLEAN
  PROVE  /\ RespHdr(status, len, alive) \in Seq(OutUnit)
         /\ Len(RespHdr(status, len, alive)) = HDRSZ
<1> DEFINE u(i) == [k |-> "head", status |-> status, len |-> len, alive |-> alive,
                    part |-> i]
           h == [i \in 1 .. HDRSZ |-> u(i)]
<1>1. \A i \in 1 .. HDRSZ : u(i) \in OutUnit
  BY DEF OutUnit
<1>2. HDRSZ \in Nat
  BY ConnAssumption
<1> HIDE DEF u
<1>3. h \in Seq(OutUnit) /\ Len(h) = HDRSZ
  BY <1>1, <1>2
<1> QED
  BY <1>3 DEF RespHdr, u

(* A mapped file is a sequence of units to send.                           *)
LEMMA FileFacts ==
  ASSUME NEW u \in Uri, FileSize[u] > 0
  PROVE  FileSize[u] \in Nat /\ FileUnits(u) \in Seq(OutUnit)
<1> DEFINE x(i) == [k |-> "file", uri |-> u, i |-> i]
           n == FileSize[u]
<1>1. n \in Nat
  BY ConnAssumption
<1>2. \A i \in 1 .. n : x(i) \in OutUnit
  BY <1>1 DEF OutUnit
<1> HIDE DEF x, n
<1>3. [i \in 1 .. n |-> x(i)] \in Seq(OutUnit)
  BY <1>1, <1>2
<1> QED
  BY <1>1, <1>3 DEF FileUnits, x, n

(* An error page is a header and one unit, which the buffer has room for.  *)
LEMMA ErrorPageFacts ==
  ASSUME NEW rq \in ReqType, NEW rs \in RespType
  PROVE  /\ ErrorPage(rq, rs) \in Seq(OutUnit)
         /\ Len(ErrorPage(rq, rs)) = HDRSZ + 1 /\ HDRSZ + 1 <= BUFSZ
<1>1. rs.status \in Status /\ rq.alive \in BOOLEAN
  BY DEF ReqType, RespType
<1> DEFINE m == RespMsg(rs.status)
           n == Len(m)
<1>2. m \in Seq(OutUnit) /\ Len(m) = 1
  <2>1. [k |-> "page", status |-> rs.status] \in OutUnit
    BY <1>1 DEF OutUnit
  <2> QED
    BY <2>1 DEF RespMsg
<1> HIDE DEF m
<1>3. n \in Nat
  BY <1>2
<1> HIDE DEF n
<1> DEFINE h == RespHdr(rs.status, n, rq.alive)
<1>4. h \in Seq(OutUnit) /\ Len(h) = HDRSZ
  BY <1>1, <1>3, RespHdrFacts
<1>5. ErrorPage(rq, rs) = h \o m
  BY DEF ErrorPage, m, n
<1> HIDE DEF h
<1>6. h \o m \in Seq(OutUnit) /\ Len(h \o m) = Len(h) + Len(m)
  BY <1>2, <1>4, ConcatProperties
<1>7. HDRSZ \in Nat /\ HDRSZ < BUFSZ /\ BUFSZ \in Nat
  BY ConnAssumption
<1> QED
  BY <1>2, <1>4, <1>5, <1>6, <1>7

(* Moving data_p on in a buffer of units to send.                          *)
LEMMA AdvanceSent ==
  ASSUME NEW b, SendBufOK(b), NEW n \in 1 .. Len(b.rest)
  PROVE  SendBufOK(Advance(b, n))
<1> DEFINE m == Len(b.rest)
           t == SubSeq(b.rest, n + 1, m)
           q == b.p + n
<1>1. /\ b.p \in Nat /\ m \in Nat /\ b.rest \in Seq(OutUnit) /\ n <= m /\ n \in Nat
      /\ b.p + m <= BUFSZ
  BY DEF SendBufOK, BufSz
<1>2. t \in Seq(OutUnit) /\ Len(t) = m - n
  <2>1. \A i \in n + 1 .. m : b.rest[i] \in OutUnit
    BY <1>1
  <2>2. t \in Seq(OutUnit) /\ Len(t) = IF n + 1 <= m THEN m - (n + 1) + 1 ELSE 0
    BY <1>1, <2>1, SubSeqProperties
  <2> QED
    BY <1>1, <2>2
<1>3. Advance(b, n) = [p |-> q, rest |-> t] /\ q \in Nat
  BY <1>1 DEF Advance
<1> HIDE DEF t
<1>4. q + Len(t) <= BUFSZ
  BY <1>1, <1>2
<1> HIDE DEF q
<1> DEFINE a == Advance(b, n)
<1>5. a \in [p: Nat, rest: Seq(OutUnit)] /\ a.p = q /\ a.rest = t
  BY <1>2, <1>3
<1> HIDE DEF a
<1>6. SendBufOK(a)
  BY <1>4, <1>5 DEF SendBufOK, BufSz
<1> QED
  BY <1>6 DEF a

(* A buffer filled with units to send.                                     *)
LEMMA FilledFacts ==
  ASSUME NEW units \in Seq(OutUnit), Len(units) <= BUFSZ
  PROVE  SendBufOK(BufOf(units)) /\ BufOf(units).rest = units
<1>1. BufOf(units) \in [p: Nat, rest: Seq(OutUnit)]
  BY DEF BufOf
<1>2. BufOf(units).p = 0 /\ BufOf(units).rest = units
  BY DEF BufOf
<1>3. 0 + Len(units) <= BUFSZ
  OBVIOUS
<1> QED
  BY <1>1, <1>2, <1>3 DEF SendBufOK, BufSz

-----------------------------------------------------------------------------
(* What cn_parse_req leaves of a connection                                *)

(* liso_conn_err gives up a request in any state in which no output of a   *)
(* program is awaited.                                                     *)
LEMMA RefusedFacts ==
  ASSUME NEW rq, ReqOK(rq), NEW rs \in RespType, NEW status \in Status, NEW cg \in CgiType,
         cg.phase \notin {"CGI_TO_SRV", "DONE"}, cg.buf_phase = "RECV", NEW b
  PROVE  /\ AbortReq(rq) \in ReqType /\ ReqOK(AbortReq(rq))
         /\ AbortResp(rs, status) \in RespType
         /\ Content(AbortReq(rq), AbortResp(rs, status), cg, b)
         /\ AbortReq(rq).phase = "ABORT" /\ AbortResp(rs, status).phase = "ABORT"
<1>1. AbortReq(rq) \in ReqType /\ AbortReq(rq).phase = "ABORT"
  BY DEF ReqOK, AbortReq, ReqType
<1>2. AbortResp(rs, status) \in RespType /\ AbortResp(rs, status).phase = "ABORT"
  BY DEF AbortResp, RespType
<1> QED
  BY <1>1, <1>2 DEF ReqOK, Content, Refused

(* The transitions cn_parse_req makes in the CGI and the response fit the  *)
(* request it leaves.                                                      *)
LEMMA ParsedContent ==
  ASSUME NEW rq, rq.phase \in {"START", "HEADER", "BODY"}, NEW rs \in RespType,
         NEW cg \in CgiType, NEW b, Content(rq, rs, cg, b),
         NEW r, ParsedOK(r),
         rq.phase = "BODY" => r.req.type = rq.type /\ r.req.phase \in {"BODY", "DONE"},
         r.status = 0
  PROVE  /\ CgiParsed(cg, r.req) \in CgiType /\ RespParsed(rs, r.req) \in RespType
         /\ Content(r.req, RespParsed(rs, r.req), CgiParsed(cg, r.req), r.buf)
         /\ rs.phase = "READY" => RespParsed(rs, r.req).phase \in {"READY", "DISABLED"}
         /\ CgiParsed(cg, r.req).phase \in {"IDLE", "READY", "SRV_TO_CGI", "DISABLED"}
<1> DEFINE q == r.req
           c1 == CgiParsed(cg, q)
           r1 == RespParsed(rs, q)
<1>1. /\ q \in ReqType /\ q.phase \in {"START", "HEADER", "BODY", "DONE"}
      /\ BufOK(r.buf) /\ (InHeader(q) => LineFree(r.buf))
  BY DEF ParsedOK, ReqOK, ReqType
<1>2. q.type \in {"STATIC", "DYNAMIC"}
  BY <1>1 DEF ReqType
<1>3. /\ cg.buf_phase = "RECV"
      /\ InHeader(rq) => rs.phase = "READY" /\ cg = NewCgi
      /\ ~InHeader(rq) =>
           /\ rq.phase = "BODY"
           /\ \/ rq.type = "STATIC" /\ cg.phase = "DISABLED" /\ rs.phase = "READY"
              \/ rq.type = "DYNAMIC" /\ rs.phase = "DISABLED"
                   /\ cg.phase \in {"READY", "SRV_TO_CGI"}
  BY NewFacts DEF Content, Reading, Static, Dynamic, Refused, InHeader
<1>4. /\ c1 \in CgiType /\ c1.buf_phase = cg.buf_phase
      /\ ~InBody(q) => c1 = cg
      /\ InBody(q) /\ q.type = "STATIC" => c1.phase = "DISABLED"
      /\ InBody(q) /\ q.type = "DYNAMIC" => c1.phase = IF cg.phase = "IDLE" THEN "READY"
                                                       ELSE cg.phase
  BY <1>2 DEF CgiParsed, CgiType
<1>5. /\ r1 \in RespType
      /\ InBody(q) /\ q.type = "DYNAMIC" => r1.phase = "DISABLED"
      /\ ~(InBody(q) /\ q.type = "DYNAMIC") => r1 = rs
  BY DEF RespParsed, RespType
<1> HIDE DEF q, c1, r1
<1>6. CASE InHeader(q)
  <2>1. InHeader(rq) /\ ~InBody(q)
    BY <1>6, <1>3 DEF q, InHeader, InBody
  <2>2. Reading(q, r1, c1, r.buf)
    BY <1>1, <1>3, <1>4, <1>5, <1>6, <2>1 DEF Reading
  <2> QED
    BY <1>3, <1>4, <1>5, <2>1, <2>2, NewFacts DEF Content, q, c1, r1
<1>7. CASE ~InHeader(q) /\ q.type = "STATIC"
  <2>1. InBody(q) /\ q.phase \in {"BODY", "DONE"}
    BY <1>1, <1>7 DEF InHeader, InBody
  <2>2. rs.phase = "READY"
    BY <1>3, <1>7 DEF q
  <2>3. Static(q, r1, c1, r.buf)
    BY <1>1, <1>3, <1>4, <1>5, <1>7, <2>1, <2>2 DEF Static
  <2> QED
    BY <1>4, <1>5, <1>7, <2>1, <2>2, <2>3 DEF Content, q, c1, r1
<1>8. CASE ~InHeader(q) /\ q.type = "DYNAMIC"
  <2>1. InBody(q) /\ q.phase \in {"BODY", "DONE"}
    BY <1>1, <1>8 DEF InHeader, InBody
  <2>2. cg.phase \in {"IDLE", "READY", "SRV_TO_CGI"}
    BY <1>3, <1>8, NewFacts DEF q
  <2>3. Dynamic(q, r1, c1, r.buf)
    BY <1>1, <1>3, <1>4, <1>5, <1>8, <2>1, <2>2 DEF Dynamic
  <2> QED
    BY <1>4, <1>5, <1>8, <2>1, <2>2, <2>3 DEF Content, q, c1, r1
<1> QED
  BY <1>2, <1>6, <1>7, <1>8

-----------------------------------------------------------------------------
(* A handler works on the connection it visits: it changes no structure of *)
(* another one, and in the two sets only what is free or its own.          *)

Visiting == cur <= Len(conns) /\ pc \notin {"select", "accept", "accept_ssl"}

Mine == {f \in Fd : fdt[f] = Free \/ \E x \in Ends \cup {"sock"} : fdt[f] = Own(conn, x)}

OthersKept ==
  /\ \A f \in Fd \ Mine : /\ f \in read_set' <=> f \in read_set
                          /\ f \in write_set' <=> f \in write_set
  /\ \A c \in Client \ {conn} : pipe'[c] = pipe[c]

(* The structures a handler leaves at the connection it visits.            *)
Left(rq, lb, rs, cg, b) ==
  /\ req' = [req EXCEPT ![conn] = rq] /\ last_buf' = [last_buf EXCEPT ![conn] = lb]
  /\ resp' = [resp EXCEPT ![conn] = rs] /\ cgi' = [cgi EXCEPT ![conn] = cg]
  /\ buf' = [buf EXCEPT ![conn] = b]

LeftOK(rq, lb, rs, cg, b) ==
  /\ ReqOK(rq) /\ lb \in Seq(InUnit) /\ Len(lb) <= BUFSZ
  /\ rs \in RespType /\ b \in BufType /\ BufSz(b) <= BUFSZ
  /\ Content(rq, rs, cg, b)

(* The selected descriptors at the next handler.                           *)
SelectedNext(rq, rs, cg) ==
  Selected(rq, rs, cg, fd[conn] \in read_set', fd[conn] \in write_set',
           pipe'[conn]["srv_in"] \in read_set', pc')

Handled(rq, lb, rs, cg, b) ==
  /\ Visiting
  /\ pc' \in Labels \ {"select", "accept", "accept_ssl", "recv"}
  /\ UNCHANGED <<conns, idx, fd, cur, read_ready>>
  /\ OthersKept
  /\ Left(rq, lb, rs, cg, b) /\ LeftOK(rq, lb, rs, cg, b) /\ SelectedNext(rq, rs, cg)

(* The connection visited, and what RInv says of it.                       *)
LEMMA VisitFacts ==
  ASSUME IInv, RInv, Visiting
  PROVE  /\ conn \in Client /\ idx[conn] = cur /\ InPool(conn)
         /\ fd[conn] \in Fd /\ fdt[fd[conn]] = Own(conn, "sock")
         /\ Stage(conn) = pc
         /\ req[conn] \in ReqType /\ resp[conn] \in RespType /\ cgi[conn] \in CgiType
         /\ last_buf[conn] \in Seq(InUnit) /\ buf[conn] \in BufType
         /\ ConnOK(conn)
         /\ \A e \in Ends : pipe[conn][e] # fd[conn]
<1>1. /\ CoreType /\ PoolIndexed /\ FdsOwned
      /\ conn \in Client /\ idx[conn] = cur /\ fd[conn] \in Fd /\ fd[conn] # NoFd
  BY ConnFacts DEF IInv, Visiting
<1>2. InPool(conn) /\ fdt[fd[conn]] = Own(conn, "sock")
  BY <1>1 DEF InPool, FdsOwned
<1>3. Stage(conn) = pc
  BY DEF Stage, Visiting, conn
<1>4. \A e \in Ends : pipe[conn][e] # fd[conn]
  <2> SUFFICES ASSUME NEW e \in Ends, pipe[conn][e] = fd[conn] PROVE FALSE
    OBVIOUS
  <2>1. fdt[fd[conn]] = Own(conn, e)
    BY <1>1 DEF FdsOwned
  <2> QED
    BY <1>2, <2>1, OwnFacts DEF Ends
<1>5. ConnOK(conn)
  BY <1>1, <1>2 DEF RInv
<1>6. /\ req[conn] \in ReqType /\ resp[conn] \in RespType /\ cgi[conn] \in CgiType
      /\ last_buf[conn] \in Seq(InUnit) /\ buf[conn] \in BufType
  BY <1>1 DEF RInv, MsgType, CoreType
<1> QED
  BY <1>1, <1>2, <1>3, <1>4, <1>5, <1>6

(* The descriptors of another connection are not the visited one's.        *)
LEMMA NotMine ==
  ASSUME IInv, conn \in Client, NEW c \in Client \ {conn}
  PROVE  /\ InPool(c) => fd[c] \in Fd \ Mine
         /\ \A e \in Ends : pipe[c][e] # NoFd => pipe[c][e] \in Fd \ Mine
<1>1. CoreType /\ FdsOwned
  BY DEF IInv
<1>2. ASSUME InPool(c) PROVE fd[c] \in Fd \ Mine
  <2>1. fd[c] \in Fd /\ fdt[fd[c]] = Own(c, "sock")
    BY <1>1, <1>2 DEF InPool, FdsOwned, CoreType, PoolTypeOK
  <2> QED
    BY <2>1, OwnFacts DEF Mine
<1>3. ASSUME NEW e \in Ends, pipe[c][e] # NoFd PROVE pipe[c][e] \in Fd \ Mine
  <2>1. pipe[c][e] \in Fd /\ fdt[pipe[c][e]] = Own(c, e)
    BY <1>1, <1>3 DEF FdsOwned, CoreType, PoolTypeOK
  <2> QED
    BY <2>1, OwnFacts DEF Mine
<1> QED
  BY <1>2, <1>3

(* Another connection of the pool keeps its place in what RInv says.       *)
LEMMA OthersAlike ==
  ASSUME IInv, IInv', conn \in Client, OthersKept, NEW c \in Client \ {conn},
         InPool(c), fd'[c] = fd[c]
  PROVE  /\ fd'[c] \in read_set' <=> fd[c] \in read_set
         /\ fd'[c] \in write_set' <=> fd[c] \in write_set
         /\ pipe'[c]["srv_in"] \in read_set' <=> pipe[c]["srv_in"] \in read_set
<1>1. fd[c] \in Fd \ Mine
  BY NotMine
<1>2. pipe'[c] = pipe[c]
  BY DEF OthersKept
<1>3. pipe[c]["srv_in"] # NoFd => pipe[c]["srv_in"] \in Fd \ Mine
  BY NotMine DEF Ends
<1>4. NoFd \notin read_set /\ NoFd \notin read_set'
  <2>1. NoFd \notin Fd
    BY LisoAssumption DEF Fd, NoFd
  <2>2. read_set \subseteq Fd /\ read_set' \subseteq Fd
    BY DEF IInv, CoreType, PoolTypeOK
  <2> QED
    BY <2>1, <2>2
<1> QED
  BY <1>1, <1>2, <1>3, <1>4 DEF OthersKept

(* A handler that keeps the connection it visits keeps RInv.               *)
LEMMA HandledInv ==
  ASSUME IInv, IInv', RInv, NEW rq, NEW lb, NEW rs, NEW cg, NEW b,
         Handled(rq, lb, rs, cg, b)
  PROVE  RInv'
<1>1. /\ conn \in Client /\ idx[conn] = cur /\ InPool(conn) /\ conn' = conn
      /\ MsgType /\ CoreType /\ CoreType' /\ ReadyRead
  BY VisitFacts DEF Handled, IInv, RInv, conn
<1>2. UNCHANGED <<conns, idx, fd, cur, read_ready>> /\ Visiting /\ OthersKept
  BY DEF Handled
<1>3. /\ req' = [req EXCEPT ![conn] = rq] /\ last_buf' = [last_buf EXCEPT ![conn] = lb]
      /\ resp' = [resp EXCEPT ![conn] = rs] /\ cgi' = [cgi EXCEPT ![conn] = cg]
      /\ buf' = [buf EXCEPT ![conn] = b]
  BY DEF Handled, Left
<1>4. /\ ReqOK(rq) /\ rq \in ReqType /\ lb \in Seq(InUnit) /\ Len(lb) <= BUFSZ
      /\ rs \in RespType /\ b \in BufType /\ BufSz(b) <= BUFSZ
      /\ Content(rq, rs, cg, b)
  BY DEF Handled, LeftOK, ReqOK
<1>5. MsgType'
  BY <1>1, <1>3, <1>4 DEF MsgType
<1>6. /\ req'[conn] = rq /\ last_buf'[conn] = lb /\ resp'[conn] = rs
      /\ cgi'[conn] = cg /\ buf'[conn] = b
  BY <1>1, <1>3 DEF MsgType, CoreType
<1>7. \A c \in Client \ {conn} :
        /\ req'[c] = req[c] /\ last_buf'[c] = last_buf[c] /\ resp'[c] = resp[c]
        /\ cgi'[c] = cgi[c] /\ buf'[c] = buf[c]
  BY <1>1, <1>3 DEF MsgType, CoreType
<1>8. /\ pc \notin {"select", "accept", "accept_ssl"} /\ cur <= Len(conns)
      /\ pc' \notin {"select", "accept", "accept_ssl", "recv"} /\ pc' \in Labels
  BY DEF Handled, Visiting
<1>9. Stage(conn)' = pc'
  BY <1>1, <1>2, <1>8 DEF Stage, conn
<1>10. ConnOK(conn)'
  <2>1. Selected(rq, rs, cg, fd[conn] \in read_set', fd[conn] \in write_set',
                 pipe'[conn]["srv_in"] \in read_set', pc')
    BY DEF Handled, SelectedNext
  <2> QED
    BY <1>1, <1>2, <1>4, <1>6, <1>9, <2>1 DEF ConnOK
<1>11. ASSUME NEW c \in Client PROVE IF InPool(c)' THEN ConnOK(c)' ELSE Fresh(c)'
  <2>1. CASE c = conn
    BY <1>1, <1>2, <1>10, <2>1 DEF InPool
  <2>2. CASE c # conn /\ ~InPool(c)
    BY <1>2, <1>7, <2>2 DEF InPool, Fresh, RInv
  <2>3. CASE c # conn /\ InPool(c)
    <3>1. ConnOK(c)
      BY <2>3 DEF RInv
    <3>2. Stage(c) = "recv" /\ Stage(c)' = "recv"
      BY <1>1, <1>2, <2>3 DEF Stage, conn
    <3>3. /\ fd'[c] \in read_set' <=> fd[c] \in read_set
          /\ fd'[c] \in write_set' <=> fd[c] \in write_set
          /\ pipe'[c]["srv_in"] \in read_set' <=> pipe[c]["srv_in"] \in read_set
      BY <1>1, <1>2, <2>3, OthersAlike
    <3>4. Selected(req[c], resp[c], cgi[c], fd[c] \in read_set, fd[c] \in write_set,
                   pipe[c]["srv_in"] \in read_set, "recv")
      BY <3>1, <3>2 DEF ConnOK
    <3>5. Selected(req[c], resp[c], cgi[c], fd'[c] \in read_set', fd'[c] \in write_set',
                   pipe'[c]["srv_in"] \in read_set', "recv")
      BY <3>3, <3>4 DEF Selected
    <3> QED
      BY <1>2, <1>7, <2>3, <3>1, <3>2, <3>5 DEF ConnOK, InPool
  <2> QED
    BY <2>1, <2>2, <2>3
<1>12. ReadyRead'
  <2> SUFFICES ASSUME NEW c \in Client, InPool(c)', Unvisited(c)', fd'[c] \in read_ready'
               PROVE  fd'[c] \in read_set'
    BY DEF ReadyRead
  <2>1. idx[c] > cur
    BY <1>2, <1>8 DEF Unvisited
  <2>2. c # conn /\ Unvisited(c) /\ InPool(c) /\ fd[c] \in read_ready
    BY <1>1, <1>2, <1>8, <2>1 DEF Unvisited, InPool, CoreType, PoolTypeOK
  <2>3. fd[c] \in read_set
    BY <1>1, <2>2 DEF ReadyRead
  <2> QED
    BY <1>1, <1>2, <2>2, <2>3, OthersAlike
<1> QED
  BY <1>5, <1>11, <1>12 DEF RInv

-----------------------------------------------------------------------------
(* The steps that end the visit of a connection, and those between visits  *)

(* A step that changes no structure, no descriptor and no set.             *)
LEMMA SameRequests ==
  ASSUME RInv, UNCHANGED <<fd, pipe, read_set, write_set, req, last_buf, resp, cgi, buf>>,
         \A c \in Client : InPool(c) => \/ Stage(c)' = Stage(c)
                                        \/ Stage(c) = "max_fd" /\ Stage(c)' = "recv",
         ReadyRead'
  PROVE  RInv'
<1>1. MsgType'
  BY DEF RInv, MsgType
<1>2. ASSUME NEW c \in Client PROVE IF InPool(c)' THEN ConnOK(c)' ELSE Fresh(c)'
  <2>1. CASE ~InPool(c)
    BY <2>1 DEF InPool, Fresh, RInv
  <2>2. CASE InPool(c)
    <3>1. ConnOK(c)
      BY <2>2 DEF RInv
    <3>2. Selected(req[c], resp[c], cgi[c], fd[c] \in read_set, fd[c] \in write_set,
                   pipe[c]["srv_in"] \in read_set, Stage(c))
      BY <3>1 DEF ConnOK
    <3>3. Selected(req[c], resp[c], cgi[c], fd[c] \in read_set, fd[c] \in write_set,
                   pipe[c]["srv_in"] \in read_set, Stage(c)')
      BY <2>2, <3>2 DEF Selected, Early
    <3> QED
      BY <2>2, <3>1, <3>3 DEF ConnOK, InPool
  <2> QED
    BY <2>1, <2>2
<1> QED
  BY <1>1, <1>2 DEF RInv

(* A connection dropped leaves fresh structures for the next one.          *)
LEMMA DropRInv ==
  ASSUME IInv, IInv', RInv, DropStep
  PROVE  RInv'
<1>0. PICK k \in Client : k = conn
  BY VisitFacts DEF DropStep, Visiting
<1>1. /\ Visiting /\ k = conn /\ idx[k] = cur /\ InPool(k)
      /\ fd[k] \in Fd /\ fdt[fd[k]] = Own(k, "sock")
      /\ MsgType /\ CoreType /\ PoolIndexed /\ FdsOwned /\ ReadyRead
  BY <1>0, VisitFacts DEF IInv, RInv, DropStep, Visiting
<1>2. /\ UNCHANGED <<cur, read_ready>> /\ pc' = "recv"
      /\ idx' = DelIdx(k) /\ fd' = [fd EXCEPT ![k] = NoFd]
      /\ pipe' = [pipe EXCEPT ![k] = NoPipes]
      /\ read_set' = DelReadSet(k) /\ write_set' = write_set \ {fd[k]}
      /\ req' = [req EXCEPT ![k] = NewReq] /\ last_buf' = [last_buf EXCEPT ![k] = << >>]
      /\ resp' = [resp EXCEPT ![k] = NewResp] /\ cgi' = [cgi EXCEPT ![k] = NewCgi]
      /\ buf' = [buf EXCEPT ![k] = NewBuf]
  BY <1>0 DEF DropStep, DropConn, Revisit, loopVars, readyVars
<1>3. MsgType'
  <2>1. NewReq \in ReqType /\ NewResp \in RespType /\ NewBuf \in BufType
    BY NewFacts, BufFacts DEF ReqOK
  <2> QED
    BY <1>1, <1>2, <2>1 DEF MsgType
<1>4. fd'[k] = NoFd /\ Fresh(k)'
  BY <1>1, <1>2 DEF MsgType, CoreType, PoolTypeOK, Fresh
<1>5. \A c \in Client \ {k} :
        /\ fd'[c] = fd[c] /\ pipe'[c] = pipe[c]
        /\ req'[c] = req[c] /\ last_buf'[c] = last_buf[c] /\ resp'[c] = resp[c]
        /\ cgi'[c] = cgi[c] /\ buf'[c] = buf[c]
  BY <1>1, <1>2 DEF MsgType, CoreType, PoolTypeOK
<1>6. OthersKept
  <2>1. fd[k] \in Mine
    BY <1>1 DEF Mine
  <2>2. \A e \in Ends : pipe[k][e] \in Fd => pipe[k][e] \in Mine
    BY <1>1, LisoAssumption DEF Mine, FdsOwned, Fd, NoFd
  <2>3. read_set' = (read_set \cup {fd[k]})
                      \ {pipe[k]["srv_in"], pipe[k]["srv_err"], fd[k]}
    BY <1>2 DEF DelReadSet, ResetReadSet
  <2>4. \A f \in Fd \ Mine : /\ f # fd[k]
                             /\ f # pipe[k]["srv_in"] /\ f # pipe[k]["srv_err"]
    BY <2>1, <2>2 DEF Ends
  <2>5. \A f \in Fd \ Mine : /\ f \in read_set' <=> f \in read_set
                             /\ f \in write_set' <=> f \in write_set
    BY <1>2, <2>3, <2>4
  <2> QED
    BY <1>1, <1>5, <2>5 DEF OthersKept
<1>7. ASSUME NEW c \in Client \ {k}, InPool(c)
      PROVE  /\ fd'[c] \in read_set' <=> fd[c] \in read_set
             /\ fd'[c] \in write_set' <=> fd[c] \in write_set
             /\ pipe'[c]["srv_in"] \in read_set' <=> pipe[c]["srv_in"] \in read_set
  BY <1>1, <1>5, <1>6, <1>7, OthersAlike
<1>8. \A c \in Client \ {k} : idx'[c] = idx[c] \/ c = conns[Len(conns)]
  BY <1>1, <1>2 DEF DelIdx, CoreType, PoolTypeOK
<1>9. ASSUME NEW c \in Client PROVE IF InPool(c)' THEN ConnOK(c)' ELSE Fresh(c)'
  <2>1. CASE c = k
    BY <1>4, <2>1 DEF InPool
  <2>2. CASE c # k /\ ~InPool(c)
    BY <1>5, <2>2 DEF InPool, Fresh, RInv
  <2>3. CASE c # k /\ InPool(c)
    <3>1. ConnOK(c)
      BY <2>3 DEF RInv
    <3>2. Stage(c) = "recv" /\ Stage(c)' = "recv"
      BY <1>1, <1>2, <2>3 DEF Stage, conn
    <3>3. Selected(req[c], resp[c], cgi[c], fd[c] \in read_set, fd[c] \in write_set,
                   pipe[c]["srv_in"] \in read_set, "recv")
      BY <3>1, <3>2 DEF ConnOK
    <3>4. Selected(req[c], resp[c], cgi[c], fd'[c] \in read_set', fd'[c] \in write_set',
                   pipe'[c]["srv_in"] \in read_set', "recv")
      BY <1>7, <2>3, <3>3 DEF Selected
    <3> QED
      BY <1>5, <2>3, <3>1, <3>2, <3>4 DEF ConnOK, InPool
  <2> QED
    BY <2>1, <2>2, <2>3
<1>10. ReadyRead'
  <2> SUFFICES ASSUME NEW c \in Client, InPool(c)', Unvisited(c)', fd'[c] \in read_ready'
               PROVE  fd'[c] \in read_set'
    BY DEF ReadyRead
  <2>1. c # k /\ InPool(c)
    BY <1>4, <1>5 DEF InPool
  <2>2. PICK i \in 1 .. Len(conns) : conns[i] = c /\ idx[c] = i
    BY <1>1, <2>1 DEF PoolIndexed, InPool
  <2>3. i # cur /\ cur \in Nat /\ Len(conns) \in Nat /\ cur <= Len(conns)
    BY <1>1, <2>1, <2>2, LenProperties DEF conn, CoreType, PoolTypeOK, Visiting
  <2>4. idx[c] > cur
    <3>1. CASE idx'[c] = idx[c]
      <4>1. idx'[c] >= cur
        BY <1>2, <2>2, <2>3, <3>1 DEF Unvisited
      <4> QED
        BY <2>2, <2>3, <3>1, <4>1
    <3>2. CASE c = conns[Len(conns)]
      <4>1. Len(conns) \in 1 .. Len(conns) /\ idx[c] = Len(conns)
        BY <1>1, <2>3, <3>2 DEF PoolIndexed, CoreType, PoolTypeOK
      <4> QED
        BY <2>2, <2>3, <4>1
    <3> QED
      BY <1>8, <2>1, <3>1, <3>2
  <2>5. fd[c] \in read_set
    BY <1>1, <1>2, <1>5, <2>1, <2>4 DEF ReadyRead, Unvisited, Visiting
  <2> QED
    BY <1>7, <2>1, <2>5
<1> QED
  BY <1>3, <1>9, <1>10 DEF RInv

(* select, the accepts that add nothing, the end of a visit and of the     *)
(* loop, clients and programs change nothing of what a connection holds.   *)
LEMMA BetweenRInv ==
  ASSUME IInv, RInv,
         \/ Select \/ AcceptSkip \/ AcceptRefuse \/ MaxFd \/ LoopEnd \/ Clients \/ Programs
         \/ UNCHANGED vars
  PROVE  RInv'
<1> USE DEF loopVars, poolVars, setVars, readyVars, fdVars, msgVars
<1>1. UNCHANGED <<fd, pipe, read_set, write_set, req, last_buf, resp, cgi, buf, conns, idx>>
  <2>1. CASE Select \/ AcceptSkip \/ AcceptRefuse \/ MaxFd \/ LoopEnd
    BY <2>1 DEF Select, AcceptSkip, AcceptRefuse, MaxFd, LoopEnd
  <2>2. CASE Clients
    BY <2>2 DEF Clients, Connect, ClientSend, ClientRead, ClientHalfClose, ClientLeave,
                serverUnchanged
  <2>3. CASE Programs
    BY <2>3 DEF Programs, CgiRead, CgiEof, CgiWrite, CgiErr, CgiExit, cgiUnchanged,
                serverUnchanged
  <2>4. CASE UNCHANGED vars
    BY <2>4 DEF vars
  <2> QED
    BY <2>1, <2>2, <2>3, <2>4
<1>2. ReadyRead /\ idx \in [Client -> Nat] /\ cur \in Nat /\ Len(conns) \in Nat /\ PoolIndexed
  BY LenProperties DEF RInv, IInv, CoreType, PoolTypeOK
<1>3. CASE Select
  <2>1. pc = "select" /\ pc' = "accept" /\ read_ready' \subseteq read_set
    BY <1>3 DEF Select
  <2>2. ReadyRead'
    BY <1>1, <2>1 DEF ReadyRead
  <2>3. \A c : Stage(c) = "recv" /\ Stage(c)' = "recv"
    BY <2>1 DEF Stage
  <2> QED
    BY <1>1, <2>2, <2>3, SameRequests
<1>4. CASE AcceptSkip \/ AcceptRefuse
  <2>1. pc \in {"accept", "accept_ssl"} /\ pc' \in {"accept_ssl", "recv"} /\ read_ready' = read_ready
    BY <1>4 DEF AcceptSkip, AcceptRefuse, Accepting, AfterAccept
  <2>2. ReadyRead'
    BY <1>1, <1>2, <2>1 DEF ReadyRead, Unvisited, InPool
  <2>3. \A c : Stage(c) = "recv" /\ Stage(c)' = "recv"
    BY <2>1 DEF Stage
  <2> QED
    BY <1>1, <2>2, <2>3, SameRequests
<1>5. CASE MaxFd
  <2>1. /\ pc = "max_fd" /\ pc' = "recv" /\ cur' = cur + 1 /\ cur <= Len(conns)
        /\ read_ready' = read_ready
    BY <1>5 DEF MaxFd, At
  <2>2. \A c \in Client : idx[c] >= cur + 1 <=> idx[c] > cur
    BY <1>2
  <2>3. ReadyRead'
    BY <1>1, <1>2, <2>1, <2>2 DEF ReadyRead, Unvisited, InPool
  <2>4. \A c \in Client : InPool(c) => \/ Stage(c)' = Stage(c)
                                       \/ Stage(c) = "max_fd" /\ Stage(c)' = "recv"
    BY <2>1 DEF Stage
  <2> QED
    BY <1>1, <2>3, <2>4, SameRequests
<1>6. CASE LoopEnd
  <2>1. pc = "recv" /\ pc' = "select" /\ read_ready' = {}
    BY <1>6 DEF LoopEnd
  <2>2. ReadyRead'
    BY <2>1 DEF ReadyRead
  <2>3. \A c : Stage(c) = "recv" /\ Stage(c)' = "recv"
    BY <2>1 DEF Stage
  <2> QED
    BY <1>1, <2>2, <2>3, SameRequests
<1>7. CASE Clients \/ Programs \/ UNCHANGED vars
  <2>1. UNCHANGED <<pc, cur, read_ready>>
    BY <1>7 DEF Clients, Connect, ClientSend, ClientRead, ClientHalfClose, ClientLeave,
         Programs, CgiRead, CgiEof, CgiWrite, CgiErr, CgiExit, cgiUnchanged,
         serverUnchanged, vars
  <2>2. ReadyRead'
    BY <1>1, <1>2, <2>1 DEF ReadyRead, Unvisited, InPool
  <2>3. \A c : Stage(c)' = Stage(c)
    BY <1>1, <2>1 DEF Stage
  <2> QED
    BY <1>1, <2>2, <2>3, SameRequests
<1> QED
  BY <1>3, <1>4, <1>5, <1>6, <1>7

(* A connection accepted reads, on fresh structures.                       *)
LEMMA AcceptRInv ==
  ASSUME IInv, RInv, AcceptConn
  PROVE  RInv'
<1>1. PICK k \in Client, f \in FreeFds :
        /\ k \in backlog
        /\ fd' = [fd EXCEPT ![k] = f] /\ read_set' = read_set \cup {f}
        /\ idx' = [idx EXCEPT ![k] = Len(conns) + 1]
        /\ UNCHANGED <<write_set, read_ready, pipe, req, last_buf, resp, cgi, buf>>
        /\ pc \in {"accept", "accept_ssl"} /\ pc' \in {"accept_ssl", "recv"}
  BY DEF AcceptConn, Accepting, AfterAccept, Waiting, readyVars, msgVars, IInv, CoreType
<1>2. /\ CoreType /\ FdsOwned /\ MsgType /\ ReadyRead
      /\ f \in Fd /\ fdt[f] = Free /\ ~InPool(k) /\ f # NoFd
  BY <1>1, LisoAssumption DEF IInv, RInv, Newcomers, FreeFds, InPool, Fd, NoFd
<1>3. fd'[k] = f /\ \A c \in Client \ {k} : fd'[c] = fd[c]
  BY <1>1, <1>2 DEF CoreType, PoolTypeOK
<1>4. \A c : Stage(c) = "recv" /\ Stage(c)' = "recv"
  BY <1>1 DEF Stage
<1>5. MsgType'
  BY <1>1, <1>2 DEF MsgType
<1>6. ASSUME NEW c \in Client, InPool(c)
      PROVE  /\ fd[c] \in read_set' <=> fd[c] \in read_set
             /\ pipe[c]["srv_in"] \in read_set' <=> pipe[c]["srv_in"] \in read_set
  <2>1. fd[c] # f
    BY <1>2, <1>6, OwnFacts DEF FdsOwned, InPool
  <2>2. pipe[c]["srv_in"] # f
    BY <1>2, OwnFacts DEF FdsOwned, Ends
  <2> QED
    BY <1>1, <2>1, <2>2
<1>7. ASSUME NEW c \in Client PROVE IF InPool(c)' THEN ConnOK(c)' ELSE Fresh(c)'
  <2>1. CASE c = k
    <3>1. Fresh(k)
      BY <1>2 DEF RInv
    <3>2. /\ req'[k] = NewReq /\ last_buf'[k] = << >> /\ resp'[k] = NewResp
          /\ cgi'[k] = NewCgi /\ buf'[k] = NewBuf
      BY <1>1, <3>1 DEF Fresh
    <3>3. f \in read_set'
      BY <1>1
    <3>4. Selected(NewReq, NewResp, NewCgi, fd'[k] \in read_set', fd'[k] \in write_set',
                   pipe'[k]["srv_in"] \in read_set', Stage(k)')
      BY <1>3, <3>3, FreshContent
    <3>5. Len(<< >>) <= BUFSZ /\ BufSz(NewBuf) <= BUFSZ
      BY NewFacts, ConnAssumption DEF BufOK
    <3> QED
      BY <1>2, <1>3, <2>1, <3>2, <3>4, <3>5, NewFacts, FreshContent DEF ConnOK, InPool
  <2>2. CASE c # k /\ ~InPool(c)
    BY <1>1, <1>3, <2>2 DEF InPool, Fresh, RInv
  <2>3. CASE c # k /\ InPool(c)
    <3>1. ConnOK(c)
      BY <2>3 DEF RInv
    <3>2. Selected(req[c], resp[c], cgi[c], fd[c] \in read_set, fd[c] \in write_set,
                   pipe[c]["srv_in"] \in read_set, "recv")
      BY <1>4, <3>1 DEF ConnOK
    <3>3. Selected(req[c], resp[c], cgi[c], fd'[c] \in read_set', fd'[c] \in write_set',
                   pipe'[c]["srv_in"] \in read_set', "recv")
      BY <1>1, <1>3, <1>6, <2>3, <3>2
    <3> QED
      BY <1>1, <1>3, <1>4, <2>3, <3>1, <3>3 DEF ConnOK, InPool
  <2> QED
    BY <2>1, <2>2, <2>3
<1>8. ReadyRead'
  <2> SUFFICES ASSUME NEW c \in Client, InPool(c)', Unvisited(c)', fd'[c] \in read_ready'
               PROVE  fd'[c] \in read_set'
    BY DEF ReadyRead
  <2>1. CASE c = k
    BY <1>1, <1>3, <2>1
  <2>2. CASE c # k
    BY <1>1, <1>2, <1>3, <2>2 DEF ReadyRead, Unvisited, InPool
  <2> QED
    BY <2>1, <2>2
<1> QED
  BY <1>5, <1>7, <1>8 DEF RInv

-----------------------------------------------------------------------------
(* The handlers that only pass on, and those that receive                  *)

(* What is left alone is left as it was.                                   *)
LEMMA KeptFacts ==
  ASSUME IInv, RInv, Visiting
  PROVE  /\ req = [req EXCEPT ![conn] = req[conn]]
         /\ last_buf = [last_buf EXCEPT ![conn] = last_buf[conn]]
         /\ resp = [resp EXCEPT ![conn] = resp[conn]]
         /\ cgi = [cgi EXCEPT ![conn] = cgi[conn]]
         /\ buf = [buf EXCEPT ![conn] = buf[conn]]
         /\ LeftOK(req[conn], last_buf[conn], resp[conn], cgi[conn], buf[conn])
<1>1. MsgType /\ cgi \in [Client -> CgiType]
  BY DEF RInv, IInv, CoreType
<1>2. LeftOK(req[conn], last_buf[conn], resp[conn], cgi[conn], buf[conn])
  BY VisitFacts DEF LeftOK, ConnOK
<1> QED
  BY <1>1, <1>2 DEF MsgType

(* A handler with nothing to do leaves what is selected fit for the next.  *)
Passes(rq, rs, cg, st, next) ==
  \/ st = "recv" /\ next = "logerr"
  \/ st = "logerr" /\ next = "prepare"
  \/ /\ st = "prepare" /\ next = "init_cgi"
     /\ ~(rq.type = "STATIC" /\ rq.phase = "DONE" /\ rs.phase = "READY")
  \/ st = "init_cgi" /\ next = "for_select"
  \/ st \in {"to_cgi", "write"} /\ next = "write"
  \/ /\ st = "to_cgi" /\ next = "from_cgi"
     /\ ~(rq.type = "DYNAMIC" /\ cg.phase = "SRV_TO_CGI")
  \/ st = "from_cgi" /\ next = "dynamic"
  \/ st = "dynamic" /\ next = "static"
  \/ st = "static" /\ next = "max_fd"

(* A handler whose condition does not hold leaves what the next one needs of*)
(* the sets: nothing it would have changed was due.                        *)
LEMMA PassesFacts ==
  ASSUME NEW rq, NEW rs, NEW cg, NEW b, NEW r, NEW w, NEW o, NEW st, NEW next,
         Content(rq, rs, cg, b), Selected(rq, rs, cg, r, w, o, st),
         Passes(rq, rs, cg, st, next)
  PROVE  Selected(rq, rs, cg, r, w, o, next)
<1>1. rq.phase = "DONE" => rs.phase # "READY" \/ rq.type = "STATIC"
  BY DEF Content, Reading, Static, Dynamic, Refused, InHeader
<1>2. rq.phase = "DONE" /\ cg.phase = "SRV_TO_CGI" => rq.type = "DYNAMIC"
  BY DEF Content, Reading, Static, Dynamic, Refused, InHeader
<1> QED
  BY <1>1, <1>2 DEF Selected, Passes, Early

(* So a handler that has nothing to do keeps the invariant.                *)
LEMMA PassRInv ==
  ASSUME IInv, IInv', RInv, Visiting, pc' \in Labels,
         Passes(req[conn], resp[conn], cgi[conn], pc, pc'),
         UNCHANGED <<poolVars, setVars, fd, pipe, msgVars, cur, read_ready>>
  PROVE  RInv'
<1> DEFINE rq == req[conn]
           rs == resp[conn]
           cg == cgi[conn]
           b == buf[conn]
           lb == last_buf[conn]
<1>1. /\ UNCHANGED <<conns, idx, fd, cur, read_ready, pipe, read_set, write_set>>
      /\ UNCHANGED <<req, last_buf, resp, cgi, buf>>
  BY DEF poolVars, setVars, msgVars
<1>2. Left(rq, lb, rs, cg, b) /\ LeftOK(rq, lb, rs, cg, b)
  BY <1>1, KeptFacts DEF Left
<1>3. Content(rq, rs, cg, b) /\ Passes(rq, rs, cg, pc, pc')
  BY <1>2 DEF LeftOK
<1>4. Selected(rq, rs, cg, fd[conn] \in read_set, fd[conn] \in write_set,
               pipe[conn]["srv_in"] \in read_set, pc)
  BY VisitFacts DEF ConnOK
<1>5. pc' \notin {"select", "accept", "accept_ssl", "recv"}
  BY <1>3 DEF Passes
<1> HIDE DEF rq, rs, cg, b, lb
<1>6. Selected(rq, rs, cg, fd[conn] \in read_set, fd[conn] \in write_set,
               pipe[conn]["srv_in"] \in read_set, pc')
  BY <1>3, <1>4, PassesFacts
<1>7. SelectedNext(rq, rs, cg)
  BY <1>1, <1>6 DEF SelectedNext
<1>8. OthersKept
  BY <1>1 DEF OthersKept
<1>9. Handled(rq, lb, rs, cg, b)
  BY <1>1, <1>2, <1>5, <1>7, <1>8 DEF Handled
<1> QED
  BY <1>9, HandledInv

(* A step that leaves the connection selected as it was, or selects its    *)
(* socket for writing as well.                                             *)
LEMMA WatchedKept ==
  ASSUME IInv, RInv, Visiting,
         read_set' = read_set \/ read_set' = read_set \ {fd[conn]},
         \/ write_set' = write_set \/ write_set' = write_set \cup {fd[conn]}
         \/ write_set' = write_set \ {fd[conn]},
         UNCHANGED pipe
  PROVE  OthersKept
<1>1. fd[conn] \in Mine
  BY VisitFacts DEF Mine
<1> QED
  BY <1>1 DEF OthersKept

(* liso_conn_err, called by a handler for a connection that is read or fed *)
(* to its program: an error page is due, and the socket is written.        *)
LEMMA ErrRInv ==
  ASSUME IInv, IInv', RInv, Visiting,
         pc' \in Labels \ {"select", "accept", "accept_ssl", "recv"},
         UNCHANGED <<conns, idx, fd, cur, read_ready>>,
         OthersKept, NEW rq, ReqOK(rq), NEW status \in Status, ConnErr(conn, rq, status),
         NEW lb \in Seq(InUnit), Len(lb) <= BUFSZ,
         last_buf' = [last_buf EXCEPT ![conn] = lb],
         NEW cg \in CgiType, cg.phase \notin {"CGI_TO_SRV", "DONE"}, cg.buf_phase = "RECV",
         cgi' = [cgi EXCEPT ![conn] = cg],
         NEW b \in BufType, BufSz(b) <= BUFSZ, buf' = [buf EXCEPT ![conn] = b]
  PROVE  RInv'
<1> DEFINE q == AbortReq(rq)
           s == AbortResp(resp[conn], status)
<1>1. resp[conn] \in RespType /\ conn \in Client /\ MsgType
  BY VisitFacts DEF RInv
<1>2. /\ q \in ReqType /\ ReqOK(q) /\ s \in RespType /\ Content(q, s, cg, b)
      /\ q.phase = "ABORT"
  BY <1>1, RefusedFacts
<1>3. /\ req' = [req EXCEPT ![conn] = q] /\ resp' = [resp EXCEPT ![conn] = s]
      /\ write_set' = write_set \cup {fd[conn]}
  BY DEF ConnErr
<1> HIDE DEF q, s
<1>4. SelectedNext(q, s, cg)
  BY <1>2, <1>3 DEF SelectedNext, Selected
<1>5. Left(q, lb, s, cg, b) /\ LeftOK(q, lb, s, cg, b)
  BY <1>2, <1>3 DEF Left, LeftOK
<1>6. Handled(q, lb, s, cg, b)
  BY <1>4, <1>5 DEF Handled
<1> QED
  BY <1>6, HandledInv

-----------------------------------------------------------------------------
(* What smart_recv returns                                                 *)

LEMMA TakeSkipFacts ==
  ASSUME NEW S, NEW s \in Seq(S), NEW n \in Nat
  PROVE  /\ Take(s, n) \in Seq(S) /\ Len(Take(s, n)) <= n /\ Len(Take(s, n)) <= Len(s)
         /\ n <= Len(s) => Len(Take(s, n)) = n
         /\ Skip(s, n) \in Seq(S)
         /\ Len(Skip(s, n)) = IF n <= Len(s) THEN Len(s) - n ELSE 0
         /\ \A i \in 1 .. Len(s) - n : Skip(s, n)[i] = s[n + i]
<1> DEFINE m == Len(s)
           k == Least(n, m)
           t == SubSeq(s, 1, k)
           u == SubSeq(s, n + 1, m)
<1>1. m \in Nat /\ k \in Nat /\ k <= n /\ k <= m /\ (n <= m => k = n)
  BY DEF Least
<1>2. \A i \in 1 .. m : s[i] \in S
  OBVIOUS
<1> HIDE DEF m, k
<1>3. t \in Seq(S) /\ Len(t) = IF 1 <= k THEN k - 1 + 1 ELSE 0
  <2>1. \A i \in 1 .. k : s[i] \in S
    BY <1>1, <1>2
  <2> QED
    BY <1>1, <2>1, SubSeqProperties
<1>4. /\ u \in Seq(S) /\ Len(u) = IF n + 1 <= m THEN m - (n + 1) + 1 ELSE 0
      /\ \A i \in 1 .. m - (n + 1) + 1 : u[i] = s[n + 1 + i - 1]
  <2>1. \A i \in n + 1 .. m : s[i] \in S
    BY <1>1, <1>2
  <2> QED
    BY <1>1, <2>1, SubSeqProperties
<1>5. Take(s, n) = t /\ Skip(s, n) = u
  BY DEF Take, Skip, m, k
<1> HIDE DEF t, u
<1>6. Len(t) = k
  BY <1>1, <1>3
<1>7. Len(u) = (IF n <= m THEN m - n ELSE 0) /\ \A i \in 1 .. m - n : u[i] = s[n + i]
  BY <1>1, <1>4
<1> QED
  BY <1>1, <1>3, <1>4, <1>5, <1>6, <1>7 DEF m

(* t is what remains of s once its first units are gone.                   *)
Remains(t, s) ==
  \E k \in 0 .. Len(s) :
    Len(t) = Len(s) - k /\ \A i \in 1 .. Len(s) - k : t[i] = s[k + i]

(* A sequence is what remains of itself, and so is each of its ends.       *)
LEMMA RemainsFacts ==
  ASSUME NEW S, NEW s \in Seq(S)
  PROVE  /\ Remains(s, s)
         /\ \A n \in Nat : Remains(Skip(s, n), s)
<1>1. Remains(s, s)
  <2>1. 0 \in 0 .. Len(s) /\ \A i \in 1 .. Len(s) - 0 : s[i] = s[0 + i]
    OBVIOUS
  <2> QED
    BY <2>1 DEF Remains
<1>2. ASSUME NEW n \in Nat PROVE Remains(Skip(s, n), s)
  <2>1. Len(Skip(s, n)) = IF n <= Len(s) THEN Len(s) - n ELSE 0
    BY TakeSkipFacts
  <2>2. \A i \in 1 .. Len(s) - n : Skip(s, n)[i] = s[n + i]
    BY TakeSkipFacts
  <2> DEFINE t == Skip(s, n)
  <2> HIDE DEF t
  <2>3. CASE n <= Len(s)
    <3>1. n \in 0 .. Len(s) /\ Len(t) = Len(s) - n
      BY <2>1, <2>3 DEF t
    <3>2. Remains(t, s)
      BY <2>2, <3>1 DEF Remains, t
    <3> QED
      BY <3>2 DEF t
  <2>4. CASE n > Len(s)
    <3>1. Len(s) \in 0 .. Len(s) /\ Len(t) = Len(s) - Len(s) /\ 1 .. Len(s) - Len(s) = {}
      BY <2>1, <2>4 DEF t
    <3>2. Remains(t, s)
      BY <3>1 DEF Remains
    <3> QED
      BY <3>2 DEF t
  <2> QED
    BY <2>3, <2>4
<1> QED
  BY <1>1, <1>2

(* A set of numbers that is not empty: CHOOSE finds its least element.     *)
LEMMA ChooseLeast ==
  ASSUME NEW n \in Nat, NEW T \in SUBSET (1 .. n), T # {},
         NEW m, m = CHOOSE i \in T : \A j \in T : i <= j
  PROVE  m \in T /\ \A j \in T : m <= j
<1>1. PICK i \in T : \A j \in T : i <= j
  BY LeastNumber
<1> QED
  BY <1>1

(* At most n units of requests, never a message of the handshake or a Mac: *)
(* what is received is clear text, and what remains comes after it.        *)
LEMMA RecvFacts ==
  ASSUME WireInv, NEW c \in Client, c \in Tls => ssl[c] = "accepted", NEW n \in Nat,
         NEW r \in RecvResults(c, n)
  PROVE  /\ r.data \in Seq(InUnit) /\ Len(r.data) <= n
         /\ r.pend \in Seq(InUnit)
         /\ r.inq \in Seq(WireUnit) /\ Remains(r.inq, inq[c])
<1>1. /\ inq[c] \in Seq(WireUnit) /\ pend[c] \in Seq(InUnit)
      /\ c \notin Tls => inq[c] \in Seq(InUnit) /\ ssl[c] = "none"
      /\ ssl[c] = "accepted" => inq[c] \in Seq(RecordUnit)
  BY DEF WireInv, OnlyRecords
<1>2. << >> \in Seq(InUnit) /\ Len(<< >>) <= n
  OBVIOUS
<1>3. /\ Remains(inq[c], inq[c])
      /\ \A k \in Nat : /\ Skip(inq[c], k) \in Seq(WireUnit)
                        /\ Remains(Skip(inq[c], k), inq[c])
  BY <1>1, RemainsFacts, TakeSkipFacts
<1>4. CASE r = Nothing(c)
  BY <1>1, <1>2, <1>3, <1>4 DEF Nothing
<1>5. CASE ssl[c] = "none" /\ r = RecvPlain(c, n)
  <2>1. inq[c] \in Seq(InUnit)
    BY <1>1, <1>5
  <2>2. Take(inq[c], n) \in Seq(InUnit) /\ Len(Take(inq[c], n)) <= n
    BY <2>1, TakeSkipFacts
  <2> QED
    BY <1>2, <1>3, <1>5, <2>2 DEF RecvPlain
<1>6. CASE ssl[c] # "none" /\ r = RecvTls(c, n)
  <2> DEFINE macs == {i \in 1 .. Len(inq[c]) : inq[c][i] = Mac}
             m == CHOOSE i \in macs : \A j \in macs : i <= j
             record == SubSeq(inq[c], 1, m - 1)
  <2>1. inq[c] \in Seq(RecordUnit) /\ Len(inq[c]) \in Nat
    BY <1>1, <1>6
  <2>2. CASE pend[c] # << >>
    <3>1. r = [data |-> Take(pend[c], n), inq |-> inq[c], pend |-> Skip(pend[c], n)]
      BY <1>6, <2>2 DEF RecvTls
    <3>2. /\ Take(pend[c], n) \in Seq(InUnit) /\ Len(Take(pend[c], n)) <= n
          /\ Skip(pend[c], n) \in Seq(InUnit)
      BY <1>1, TakeSkipFacts
    <3> QED
      BY <1>1, <1>3, <3>1, <3>2
  <2>3. CASE pend[c] = << >> /\ macs = {}
    BY <1>4, <1>6, <2>3 DEF RecvTls
  <2>4. CASE pend[c] = << >> /\ macs # {}
    <3>1. r = [data |-> Take(record, n), inq |-> Skip(inq[c], m), pend |-> Skip(record, n)]
      BY <1>6, <2>4 DEF RecvTls
    <3>2. m \in macs /\ \A j \in macs : m <= j
      <4>1. macs \in SUBSET (1 .. Len(inq[c]))
        OBVIOUS
      <4> HIDE DEF macs
      <4> QED
        BY <2>1, <2>4, <4>1, ChooseLeast
    <3> HIDE DEF m
    <3>3. m \in 1 .. Len(inq[c]) /\ \A j \in 1 .. m - 1 : inq[c][j] # Mac
      <4>1. m \in 1 .. Len(inq[c])
        BY <2>1, <3>2
      <4>2. ASSUME NEW j \in 1 .. m - 1, inq[c][j] = Mac PROVE FALSE
        <5>1. j \in macs /\ j < m
          BY <2>1, <4>1, <4>2
        <5> HIDE DEF macs
        <5> QED
          BY <3>2, <4>1, <5>1
      <4> QED
        BY <4>1, <4>2
    <3> HIDE DEF macs
    <3>4. \A j \in 1 .. m - 1 : inq[c][j] \in InUnit
      <4>1. \A j \in 1 .. m - 1 : inq[c][j] \in RecordUnit
        BY <2>1, <3>3
      <4> QED
        BY <3>3, <4>1 DEF RecordUnit
    <3>5. record \in Seq(InUnit)
      BY <2>1, <3>3, <3>4, SubSeqProperties
    <3> HIDE DEF record
    <3>6. /\ Take(record, n) \in Seq(InUnit) /\ Len(Take(record, n)) <= n
          /\ Skip(record, n) \in Seq(InUnit)
      BY <3>5, TakeSkipFacts
    <3>7. Skip(inq[c], m) \in Seq(WireUnit) /\ Remains(Skip(inq[c], m), inq[c])
      BY <1>3, <2>1, <3>3
    <3> QED
      BY <3>1, <3>6, <3>7
  <2> QED
    BY <2>2, <2>3, <2>4
<1> QED
  BY <1>4, <1>5, <1>6 DEF RecvResults

-----------------------------------------------------------------------------
(* The handlers that receive                                               *)

(* cn_recv is called only for a connection whose request is not complete:  *)
(* neither the units kept nor those received can meet a response.          *)
LEMMA ReceivingFacts ==
  ASSUME IInv, RInv, Receiving
  PROVE  /\ Visiting /\ pc = "recv" /\ fd[conn] \in read_set
         /\ req[conn].phase \in {"START", "HEADER", "BODY", "ABORT"}
         /\ cgi[conn].phase \notin {"CGI_TO_SRV", "DONE"} /\ cgi[conn].buf_phase = "RECV"
         /\ req[conn].phase # "ABORT" => BufOK(buf[conn])
         /\ InHeader(req[conn]) => LineFree(buf[conn])
<1>1. Visiting /\ pc = "recv" /\ fd[conn] \in read_ready
  BY DEF Receiving, At, Visiting
<1>2. /\ conn \in Client /\ idx[conn] = cur /\ InPool(conn) /\ Stage(conn) = "recv"
      /\ req[conn] \in ReqType /\ ConnOK(conn)
  BY <1>1, VisitFacts
<1>3. fd[conn] \in read_set
  BY <1>1, <1>2 DEF RInv, ReadyRead, Unvisited
<1>4. Selected(req[conn], resp[conn], cgi[conn], fd[conn] \in read_set,
               fd[conn] \in write_set, pipe[conn]["srv_in"] \in read_set, "recv")
  BY <1>2 DEF ConnOK
<1>5. req[conn].phase # "DONE"
  BY <1>3, <1>4 DEF Selected, Early
<1>6. req[conn].phase \in {"START", "HEADER", "BODY", "ABORT"}
  BY <1>2, <1>5 DEF ReqType
<1>7. Content(req[conn], resp[conn], cgi[conn], buf[conn])
  BY <1>2 DEF ConnOK
<1>8. /\ cgi[conn].phase \notin {"CGI_TO_SRV", "DONE"} /\ cgi[conn].buf_phase = "RECV"
      /\ req[conn].phase # "ABORT" => BufOK(buf[conn])
      /\ InHeader(req[conn]) => LineFree(buf[conn])
  BY <1>5, <1>7, NewFacts DEF Content, Reading, Static, Dynamic, Refused, InHeader
<1> QED
  BY <1>1, <1>3, <1>6, <1>8

(* A connection that reads is not in a handshake that is not over.         *)
LEMMA ClearFacts ==
  ASSUME IInv, RInv, WireInv, Receiving, ssl[conn] # "handshake"
  PROVE  conn \in Client /\ (conn \in Tls => ssl[conn] = "accepted")
<1>1. conn \in Client /\ InPool(conn)
  BY ReceivingFacts, VisitFacts
<1>2. /\ ssl[conn] \in {"none", "handshake", "accepted"}
      /\ conn \in Tls => ssl[conn] # "none"
  BY <1>1 DEF WireInv
<1> QED
  BY <1>1, <1>2

(* recv_ignore: what is read is dropped, and a header that fills the buffer*)
(* is refused.                                                             *)
LEMMA RecvIgnoreRInv ==
  ASSUME IInv, IInv', RInv, RecvIgnore
  PROVE  RInv'
<1>1. Receiving
  BY DEF RecvIgnore
<1>2. /\ Visiting /\ pc = "recv"
      /\ cgi[conn].phase \notin {"CGI_TO_SRV", "DONE"} /\ cgi[conn].buf_phase = "RECV"
  BY <1>1, ReceivingFacts
<1>3. CASE DropConn(conn) /\ UNCHANGED <<readyVars, netVars>>
  BY <1>2, <1>3, DropRInv DEF DropStep, Visiting
<1>4. CASE /\ Overfull(conn) /\ ConnErr(conn, req[conn], 400)
           /\ pc' = "logerr"
           /\ UNCHANGED <<loopVars, poolVars, read_set, readyVars, fdVars, last_buf, cgi, buf>>
  <2>1. UNCHANGED <<conns, idx, fd, cur, read_ready, pipe, read_set, last_buf, cgi, buf>>
    BY <1>4 DEF loopVars, poolVars, readyVars, fdVars
  <2>2. OthersKept
    BY <1>2, <1>4, <2>1, WatchedKept DEF ConnErr
  <2>3. ReqOK(req[conn]) /\ 400 \in Status /\ cgi[conn] \in CgiType
    BY <1>2, VisitFacts DEF ConnOK, Status
  <2>4. /\ last_buf[conn] \in Seq(InUnit) /\ Len(last_buf[conn]) <= BUFSZ
        /\ buf[conn] \in BufType /\ BufSz(buf[conn]) <= BUFSZ
    BY <1>2, VisitFacts DEF ConnOK
  <2>5. /\ last_buf' = [last_buf EXCEPT ![conn] = last_buf[conn]]
        /\ cgi' = [cgi EXCEPT ![conn] = cgi[conn]]
        /\ buf' = [buf EXCEPT ![conn] = buf[conn]]
    BY <1>2, <2>1, KeptFacts
  <2>6. pc' \in Labels \ {"select", "accept", "accept_ssl", "recv"}
    BY <1>4 DEF Labels
  <2> QED
    BY <1>2, <1>4, <2>1, <2>2, <2>3, <2>4, <2>5, <2>6, ErrRInv
<1>5. CASE /\ UNCHANGED <<req, resp, write_set>> /\ pc' = "logerr"
           /\ UNCHANGED <<loopVars, poolVars, read_set, readyVars, fdVars, last_buf, cgi, buf>>
  <2>1. Passes(req[conn], resp[conn], cgi[conn], pc, pc') /\ pc' \in Labels
    BY <1>2, <1>5 DEF Passes, Labels
  <2> QED
    BY <1>2, <1>5, <2>1, PassRInv DEF loopVars, poolVars, setVars, readyVars, fdVars, msgVars
<1> QED
  BY <1>3, <1>4, <1>5 DEF RecvIgnore

(* The buffer after recv: what it held, then what was received.            *)
LEMMA ReceivedFacts ==
  ASSUME NEW b, BufOK(b), NEW data \in Seq(InUnit), Len(data) <= BUFSZ - BufSz(b)
  PROVE  LET a == [b EXCEPT !.rest = @ \o data]
         IN /\ BufOK(a) /\ BufSz(b) \in Nat /\ a.p <= BufSz(b) /\ BufSz(b) <= BufSz(a)
            /\ LineFree(b) => LineFreeUpTo(a, BufSz(b) - a.p)
<1> DEFINE t == b.rest \o data
           a == [b EXCEPT !.rest = @ \o data]
<1>1. b \in [p: Nat, rest: Seq(InUnit)] /\ BufSz(b) <= BUFSZ /\ BUFSZ \in Nat
  BY ConnAssumption DEF BufOK
<1>2. /\ t \in Seq(InUnit) /\ Len(t) = Len(b.rest) + Len(data)
      /\ \A i \in 1 .. Len(b.rest) : t[i] = b.rest[i]
  <2>1. b.rest \in Seq(InUnit)
    BY <1>1
  <2>2. /\ t \in Seq(InUnit) /\ Len(t) = Len(b.rest) + Len(data)
        /\ \A i \in 1 .. Len(b.rest) + Len(data) :
             t[i] = IF i <= Len(b.rest) THEN b.rest[i] ELSE data[i - Len(b.rest)]
    BY <2>1, ConcatProperties
  <2> HIDE DEF t
  <2> QED
    BY <2>1, <2>2
<1>3. a = [b EXCEPT !.rest = t]
  BY <1>1
<1> HIDE DEF t, a
<1>4. a \in [p: Nat, rest: Seq(InUnit)] /\ a.p = b.p /\ a.rest = t
  BY <1>1, <1>2, <1>3
<1>5. /\ b.p \in Nat /\ Len(b.rest) \in Nat /\ Len(data) \in Nat
      /\ BufSz(b) = b.p + Len(b.rest) /\ BufSz(a) = b.p + Len(t)
  BY <1>1, <1>4 DEF BufSz
<1>6. BufSz(a) <= BUFSZ /\ BufSz(b) \in Nat /\ b.p <= BufSz(b) /\ BufSz(b) <= BufSz(a)
  BY <1>1, <1>2, <1>5
<1>7. LineFree(b) => LineFreeUpTo(a, BufSz(b) - a.p)
  <2>1. BufSz(b) - a.p = Len(b.rest)
    BY <1>4, <1>5
  <2> QED
    BY <1>2, <1>4, <2>1 DEF LineFree, LineFreeUpTo
<1> QED
  BY <1>4, <1>6, <1>7 DEF BufOK, a

(* cn_recv and cn_parse_req: what the parser leaves is what RInv allows.   *)
LEMMA RecvDataRInv ==
  ASSUME IInv, IInv', RInv, WireInv, RecvData
  PROVE  RInv'
<1>1. Receiving /\ ssl[conn] # "handshake" /\ req[conn].phase # "ABORT" /\ RecvRoom(conn) > 0
  <2>1. RecvRoom(conn) \in Int
    <3>1. Visiting
      BY ReceivingFacts DEF RecvData
    <3>2. buf[conn].p \in Nat /\ Len(buf[conn].rest) \in Nat
      BY <3>1, VisitFacts DEF BufType
    <3> QED
      BY <3>2, ConnAssumption DEF RecvRoom, BufSz
  <2> QED
    BY <2>1 DEF RecvData, Ignored, Overfull
<1>2. /\ Visiting /\ pc = "recv" /\ fd[conn] \in read_set
      /\ req[conn].phase \in {"START", "HEADER", "BODY"}
      /\ cgi[conn].phase \notin {"CGI_TO_SRV", "DONE"} /\ cgi[conn].buf_phase = "RECV"
      /\ BufOK(buf[conn]) /\ (InHeader(req[conn]) => LineFree(buf[conn]))
  BY <1>1, ReceivingFacts
<1>3. PICK r \in RecvResults(conn, RecvRoom(conn)) :
       \/ /\ r.data = << >>
          /\ DropConn(conn)
          /\ UNCHANGED <<readyVars, netVars, out, proc>>
       \/ LET b == [buf[conn] EXCEPT !.rest = @ \o r.data]
              p == ParseReq(req[conn], b, last_buf[conn], BufSz(buf[conn]))
          IN /\ last_buf' = [last_buf EXCEPT ![conn] = p.last]
             /\ buf' = [buf EXCEPT ![conn] = p.buf]
             /\ IF p.status # 0
                THEN ConnErr(conn, p.req, p.status) /\ UNCHANGED cgi
                ELSE /\ req' = [req EXCEPT ![conn] = p.req]
                     /\ cgi' = [cgi EXCEPT ![conn] = CgiParsed(cgi[conn], p.req)]
                     /\ resp' = [resp EXCEPT ![conn] = RespParsed(resp[conn], p.req)]
                     /\ UNCHANGED write_set
             /\ pc' = "logerr"
             /\ UNCHANGED <<loopVars, poolVars, read_set, readyVars, fdVars>>
  BY DEF RecvData
<1>4. CASE DropConn(conn) /\ UNCHANGED <<readyVars, netVars, out, proc>>
  BY <1>2, <1>4, DropRInv DEF DropStep, Visiting
<1> DEFINE b == [buf[conn] EXCEPT !.rest = @ \o r.data]
           p == ParseReq(req[conn], b, last_buf[conn], BufSz(buf[conn]))
<1>5. r.data \in Seq(InUnit) /\ Len(r.data) <= RecvRoom(conn)
  <2>1. RecvRoom(conn) \in Nat
    <3>1. BufSz(buf[conn]) \in Nat
      BY <1>2 DEF BufOK, BufSz
    <3> QED
      BY <1>1, <3>1, ConnAssumption DEF RecvRoom
  <2> QED
    BY <1>1, <2>1, ClearFacts, RecvFacts
<1>6. /\ conn \in Client /\ ReqOK(req[conn]) /\ resp[conn] \in RespType
      /\ cgi[conn] \in CgiType
      /\ last_buf[conn] \in Seq(InUnit) /\ Len(last_buf[conn]) <= BUFSZ
      /\ Content(req[conn], resp[conn], cgi[conn], buf[conn])
      /\ Selected(req[conn], resp[conn], cgi[conn], fd[conn] \in read_set,
                  fd[conn] \in write_set, pipe[conn]["srv_in"] \in read_set, "recv")
  BY <1>2, VisitFacts DEF ConnOK
<1>7. /\ BufOK(b) /\ BufSz(buf[conn]) \in Nat /\ b.p <= BufSz(buf[conn])
      /\ BufSz(buf[conn]) <= BufSz(b)
      /\ InHeader(req[conn]) => LineFreeUpTo(b, BufSz(buf[conn]) - b.p)
  BY <1>2, <1>5, ReceivedFacts DEF RecvRoom
<1> HIDE DEF b
<1>8. /\ ParsedOK(p)
      /\ req[conn].phase = "BODY" => p.req.type = req[conn].type /\ p.req.phase \in {"BODY", "DONE"}
  BY <1>2, <1>6, <1>7, ParseReqFacts
<1> HIDE DEF p
<1>9. ASSUME pc' = "logerr", last_buf' = [last_buf EXCEPT ![conn] = p.last],
             buf' = [buf EXCEPT ![conn] = p.buf],
             UNCHANGED <<loopVars, poolVars, read_set, readyVars, fdVars>>,
             p.status # 0, ConnErr(conn, p.req, p.status), UNCHANGED cgi
      PROVE  RInv'
  <2>1. UNCHANGED <<conns, idx, fd, cur, read_ready, pipe, read_set>>
    BY <1>9 DEF loopVars, poolVars, readyVars, fdVars
  <2>2. OthersKept
    BY <1>2, <1>9, <2>1, WatchedKept DEF ConnErr
  <2>3. ReqOK(p.req) /\ p.status \in Status
    BY <1>8, <1>9 DEF ParsedOK, ParserStatus, Status
  <2>4. /\ p.last \in Seq(InUnit) /\ Len(p.last) <= BUFSZ
        /\ p.buf \in BufType /\ BufSz(p.buf) <= BUFSZ
    BY <1>8, BufFacts DEF ParsedOK
  <2>5. cgi' = [cgi EXCEPT ![conn] = cgi[conn]]
    BY <1>2, <1>9, KeptFacts
  <2>6. pc' \in Labels \ {"select", "accept", "accept_ssl", "recv"}
    BY <1>9 DEF Labels
  <2> QED
    BY <1>2, <1>6, <1>9, <2>1, <2>2, <2>3, <2>4, <2>5, <2>6, ErrRInv
<1>10. ASSUME pc' = "logerr", last_buf' = [last_buf EXCEPT ![conn] = p.last],
              buf' = [buf EXCEPT ![conn] = p.buf],
              UNCHANGED <<loopVars, poolVars, read_set, readyVars, fdVars>>,
              p.status = 0, req' = [req EXCEPT ![conn] = p.req],
              cgi' = [cgi EXCEPT ![conn] = CgiParsed(cgi[conn], p.req)],
              resp' = [resp EXCEPT ![conn] = RespParsed(resp[conn], p.req)],
              UNCHANGED write_set
       PROVE  RInv'
  <2> DEFINE c1 == CgiParsed(cgi[conn], p.req)
             r1 == RespParsed(resp[conn], p.req)
  <2>1. UNCHANGED <<conns, idx, fd, cur, read_ready, pipe, read_set, write_set>>
    BY <1>10 DEF loopVars, poolVars, readyVars, fdVars
  <2>2. OthersKept
    BY <1>2, <2>1, WatchedKept
  <2>3. /\ r1 \in RespType /\ Content(p.req, r1, c1, p.buf)
        /\ c1.phase \notin {"CGI_TO_SRV", "DONE"}
    BY <1>2, <1>6, <1>8, <1>10, ParsedContent
  <2> HIDE DEF c1, r1
  <2>4. /\ p.last \in Seq(InUnit) /\ Len(p.last) <= BUFSZ /\ ReqOK(p.req)
        /\ p.buf \in BufType /\ BufSz(p.buf) <= BUFSZ /\ p.req.phase # "ABORT"
    BY <1>8, <1>10, BufFacts DEF ParsedOK
  <2>5. SelectedNext(p.req, r1, c1)
    <3>1. pc' \in Early /\ pc' \in {"logerr", "prepare"} /\ pc' \in Early \cup {"to_cgi", "write"}
      BY <1>10 DEF Early
    <3>2. fd[conn] \in read_set'
      BY <1>2, <2>1
    <3>3. r1.phase \notin {"HEADER", "BODY"}
      <4>1. resp[conn].phase \in {"READY", "DISABLED"}
        BY <1>2, <1>6 DEF Content, Reading, Static, Dynamic, Refused
      <4>2. r1.phase \in {resp[conn].phase, "DISABLED"}
        BY <1>6 DEF r1, RespParsed, RespType
      <4> QED
        BY <4>1, <4>2
    <3> QED
      BY <2>3, <2>4, <3>1, <3>2, <3>3 DEF SelectedNext, Selected
  <2>6. Left(p.req, p.last, r1, c1, p.buf) /\ LeftOK(p.req, p.last, r1, c1, p.buf)
    BY <1>10, <2>3, <2>4 DEF Left, LeftOK, r1, c1
  <2>7. pc' \in Labels \ {"select", "accept", "accept_ssl", "recv"}
    BY <1>10 DEF Labels
  <2>8. Handled(p.req, p.last, r1, c1, p.buf)
    BY <1>2, <2>1, <2>2, <2>5, <2>6, <2>7 DEF Handled
  <2> QED
    BY <2>8, HandledInv
<1> QED
  BY <1>3, <1>4, <1>9, <1>10 DEF p, b

-----------------------------------------------------------------------------
(* The handlers up to the writing loop                                     *)

(* Opening and closing: only descriptors of the connection visited, or free*)
(* ones, leave or enter the sets.                                          *)
LEMMA MineFacts ==
  ASSUME IInv, RInv, Visiting
  PROVE  /\ fd[conn] \in Mine /\ FreeFds \subseteq Mine
         /\ \A e \in Ends : pipe[conn][e] # NoFd => pipe[conn][e] \in Mine
         /\ NoFd \notin Fd
<1>1. fd[conn] \in Mine
  BY VisitFacts DEF Mine
<1>2. FreeFds \subseteq Mine
  BY DEF Mine, FreeFds
<1>3. ASSUME NEW e \in Ends, pipe[conn][e] # NoFd PROVE pipe[conn][e] \in Mine
  <2>1. conn \in Client /\ FdsOwned /\ CoreType
    BY VisitFacts DEF IInv
  <2>2. pipe[conn][e] \in Fd /\ fdt[pipe[conn][e]] = Own(conn, e)
    BY <1>3, <2>1 DEF FdsOwned, CoreType, PoolTypeOK
  <2> QED
    BY <2>2 DEF Mine
<1>4. NoFd \notin Fd
  BY LisoAssumption DEF NoFd, Fd
<1> QED
  BY <1>1, <1>2, <1>3, <1>4

(* A file that is there: its header fills the buffer; else an error page.  *)
LEMMA PrepareRInv ==
  ASSUME IInv, IInv', RInv, Prepare
  PROVE  RInv'
<1> DEFINE rq == req[conn]
           rs == resp[conn]
           cg == cgi[conn]
           b == buf[conn]
           lb == last_buf[conn]
           size == FileSize[rq.uri]
<1>1. /\ pc = "prepare" /\ pc' = "init_cgi" /\ Visiting
      /\ UNCHANGED <<conns, idx, fd, pipe, cur, read_ready, read_set, last_buf, cgi>>
  BY DEF Prepare, At, Visiting, ConnErr, loopVars, poolVars, readyVars, msgVars
<1>2. /\ conn \in Client /\ ReqOK(rq) /\ rs \in RespType /\ cg \in CgiType
      /\ lb \in Seq(InUnit) /\ Len(lb) <= BUFSZ /\ b \in BufType /\ BufSz(b) <= BUFSZ
      /\ Content(rq, rs, cg, b)
      /\ Selected(rq, rs, cg, fd[conn] \in read_set, fd[conn] \in write_set,
                  pipe[conn]["srv_in"] \in read_set, "prepare")
  BY <1>1, VisitFacts DEF ConnOK
<1>3. pc' \in Labels \ {"select", "accept", "accept_ssl", "recv"}
  BY <1>1 DEF Labels
<1>4. /\ last_buf' = [last_buf EXCEPT ![conn] = lb]
      /\ cgi' = [cgi EXCEPT ![conn] = cg]
      /\ req = [req EXCEPT ![conn] = rq] /\ resp = [resp EXCEPT ![conn] = rs]
      /\ buf = [buf EXCEPT ![conn] = b]
  BY <1>1, KeptFacts
<1>5. CASE ~Preparing
  <2>1. UNCHANGED <<req, last_buf, resp, cgi, buf, write_set>>
    BY <1>5 DEF Prepare, msgVars
  <2>2. Passes(rq, rs, cg, pc, pc')
    BY <1>1, <1>5 DEF Passes, Preparing
  <2> QED
    BY <1>1, <1>3, <2>1, <2>2, PassRInv DEF poolVars, setVars, msgVars, Prepare
<1>6. CASE Preparing
  <2>1. rq.type = "STATIC" /\ rq.phase = "DONE" /\ rs.phase = "READY"
    BY <1>6 DEF Preparing
  <2>2. cg.phase = "DISABLED" /\ cg.buf_phase = "RECV" /\ rq.uri \in Uri /\ rq.alive \in BOOLEAN
    BY <1>2, <2>1 DEF Content, Reading, Static, Dynamic, Refused, InHeader, ReqOK, Located,
                      ReqType
  <2>3. CASE size > 0 /\ FreeFds # {}
    <3> DEFINE file == FileUnits(rq.uri)
               hdr == RespHdr(200, size, rq.alive)
               r1 == [rs EXCEPT !.phase = "HEADER", !.mmbuf = file]
    <3>1. /\ resp' = [resp EXCEPT ![conn] = r1] /\ buf' = [buf EXCEPT ![conn] = BufOf(hdr)]
          /\ UNCHANGED <<req, write_set>>
      BY <1>2, <1>6, <2>3 DEF Prepare, RInv, MsgType
    <3>2. file \in Seq(OutUnit) /\ size \in Nat
      BY <2>2, <2>3, FileFacts
    <3>3. hdr \in Seq(OutUnit) /\ Len(hdr) <= BUFSZ
      <4>1. 200 \in Status
        BY DEF Status
      <4> HIDE DEF size
      <4>2. hdr \in Seq(OutUnit) /\ Len(hdr) = HDRSZ
        BY <2>2, <3>2, <4>1, RespHdrFacts
      <4> QED
        BY <4>2, ConnAssumption
    <3>4. r1 \in RespType /\ r1.phase = "HEADER"
      BY <1>2, <3>2 DEF RespType
    <3> HIDE DEF r1, hdr, file
    <3>5. SendBufOK(BufOf(hdr)) /\ BufOf(hdr) \in BufType /\ BufSz(BufOf(hdr)) <= BUFSZ
      BY <3>3, FilledFacts, BufFacts
    <3>6. Content(rq, r1, cg, BufOf(hdr))
      BY <2>1, <2>2, <3>4, <3>5 DEF Content, Static
    <3>7. OthersKept
      BY <1>1, <3>1, WatchedKept
    <3>8. SelectedNext(rq, r1, cg)
      BY <1>1, <1>2, <2>1, <2>2, <3>1, <3>4 DEF SelectedNext, Selected, Early
    <3>9. Left(rq, lb, r1, cg, BufOf(hdr)) /\ LeftOK(rq, lb, r1, cg, BufOf(hdr))
      BY <1>2, <1>4, <3>1, <3>4, <3>5, <3>6 DEF Left, LeftOK
    <3>10. Handled(rq, lb, r1, cg, BufOf(hdr))
      BY <1>1, <1>3, <3>7, <3>8, <3>9 DEF Handled
    <3> QED
      BY <3>10, HandledInv
  <2>4. CASE ~(size > 0 /\ FreeFds # {})
    <3>1. ConnErr(conn, rq, 404) /\ UNCHANGED buf
      BY <1>6, <2>4 DEF Prepare
    <3>2. OthersKept
      BY <1>1, <3>1, WatchedKept DEF ConnErr
    <3>3. 404 \in Status
      BY DEF Status
    <3>4. buf' = [buf EXCEPT ![conn] = b]
      BY <1>4, <3>1
    <3> HIDE DEF rq, rs, cg, b, lb
    <3> QED
      BY <1>1, <1>2, <1>3, <1>4, <2>2, <3>1, <3>2, <3>3, <3>4, ErrRInv
  <2> QED
    BY <2>3, <2>4
<1> QED
  BY <1>5, <1>6

(* The handlers that have nothing to do, those that only write to a pipe or*)
(* read the program's stderr, and the handshake.                           *)
LEMMA PassingRInv ==
  ASSUME IInv, IInv', RInv,
         \/ RecvSkip \/ Handshake \/ LogErr \/ InitCgiSkip \/ ToCgi \/ WriteSome
         \/ WriteShort \/ FromCgiSkip \/ DynamicSkip \/ StaticSkip
  PROVE  RInv'
<1> USE DEF loopVars, poolVars, setVars, readyVars, fdVars, msgVars
<1>1. /\ Visiting
      /\ UNCHANGED <<poolVars, setVars, fd, pipe, msgVars, cur, read_ready>>
  BY DEF RecvSkip, Handshake, Receiving, LogErr, InitCgiSkip, ToCgi, WriteSome, WriteShort,
         FromCgiSkip, DynamicSkip, StaticSkip, At, Visiting, writeUnchanged
<1>2. Passes(req[conn], resp[conn], cgi[conn], pc, pc')
  BY DEF RecvSkip, Handshake, Receiving, LogErr, InitCgiSkip, ToCgi, WriteSome, WriteShort,
         FromCgiSkip, DynamicSkip, StaticSkip, At, Passes
<1>3. pc' \in Labels
  BY <1>2 DEF Passes, Labels
<1> QED
  BY <1>1, <1>2, <1>3, PassRInv

(* cn_init_cgi, with the pipes it makes or without: the program is started,*)
(* or an error page is due.                                                *)
LEMMA InitCgiRInv ==
  ASSUME IInv, IInv', RInv, InitCgiNoPipe \/ InitCgiFail \/ InitCgi
  PROVE  RInv'
<1> DEFINE rq == req[conn]
           rs == resp[conn]
           cg == cgi[conn]
           b == buf[conn]
           lb == last_buf[conn]
<1>1. /\ pc = "init_cgi" /\ pc' = "for_select" /\ Visiting
      /\ rq.type = "DYNAMIC" /\ cg.phase = "READY"
      /\ UNCHANGED <<conns, idx, fd, cur, read_ready, last_buf, buf>>
  BY DEF InitCgiNoPipe, InitCgiFail, InitCgi, CgiFailed, Starting, At, Visiting, loopVars,
         poolVars, readyVars
<1>2. /\ conn \in Client /\ ReqOK(rq) /\ rs \in RespType /\ cg \in CgiType
      /\ lb \in Seq(InUnit) /\ Len(lb) <= BUFSZ /\ b \in BufType /\ BufSz(b) <= BUFSZ
      /\ Content(rq, rs, cg, b)
      /\ Selected(rq, rs, cg, fd[conn] \in read_set, fd[conn] \in write_set,
                  pipe[conn]["srv_in"] \in read_set, "init_cgi")
  BY <1>1, VisitFacts DEF ConnOK
<1>3. pc' \in Labels \ {"select", "accept", "accept_ssl", "recv"}
  BY <1>1 DEF Labels
<1>4. /\ last_buf' = [last_buf EXCEPT ![conn] = lb]
      /\ req = [req EXCEPT ![conn] = rq] /\ resp = [resp EXCEPT ![conn] = rs]
      /\ buf' = [buf EXCEPT ![conn] = b]
  BY <1>1, KeptFacts
<1>5. cg.buf_phase = "RECV"
  BY <1>1, <1>2, NewFacts DEF Content, Reading, Static, Dynamic, Refused
<1>6. CASE InitCgiNoPipe \/ InitCgiFail
  <2> DEFINE c1 == [cg EXCEPT !.phase = "ABORT"]
  <2>1. ConnErr(conn, rq, 500) /\ cgi' = [cgi EXCEPT ![conn] = c1] /\ read_set' = read_set
    BY <1>6 DEF InitCgiNoPipe, InitCgiFail, CgiFailed
  <2>2. \A c \in Client \ {conn} : pipe'[c] = pipe[c]
    <3>1. pipe' = pipe \/ \E p : pipe' = [pipe EXCEPT ![conn] = p]
      BY <1>6 DEF InitCgiNoPipe, InitCgiFail
    <3> QED
      BY <3>1 DEF IInv, CoreType, PoolTypeOK
  <2>3. write_set' = write_set \cup {fd[conn]}
    BY <2>1 DEF ConnErr
  <2>4. OthersKept
    BY <1>1, <2>1, <2>2, <2>3, MineFacts DEF OthersKept
  <2>5. c1 \in CgiType /\ c1.phase = "ABORT" /\ c1.buf_phase = "RECV"
    BY <1>2, <1>5 DEF CgiType
  <2>6. 500 \in Status
    BY DEF Status
  <2> HIDE DEF c1, rq, rs, cg, b, lb
  <2> QED
    BY <1>1, <1>2, <1>3, <1>4, <2>1, <2>4, <2>5, <2>6, ErrRInv
<1>7. CASE InitCgi
  <2> DEFINE c1 == [cg EXCEPT !.phase = "SRV_TO_CGI"]
  <2>1. /\ cgi' = [cgi EXCEPT ![conn] = c1] /\ UNCHANGED <<write_set, req, resp>>
    BY <1>7 DEF InitCgi
  <2>2. PICK p \in NewPipes :
          /\ pipe' = [pipe EXCEPT ![conn] =
                        [e \in Ends |-> IF e \in SrvEnds THEN p[e] ELSE NoFd]]
          /\ read_set' = read_set \cup {p["srv_err"]}
    BY <1>7 DEF InitCgi
  <2>3. p["srv_err"] \in FreeFds
    BY NewPipesFacts DEF Ends
  <2>4. \A c \in Client \ {conn} : pipe'[c] = pipe[c]
    BY <2>2 DEF IInv, CoreType, PoolTypeOK
  <2>5. OthersKept
    BY <1>1, <2>1, <2>2, <2>3, <2>4, MineFacts DEF OthersKept
  <2>6. fd[conn] \in read_set' <=> fd[conn] \in read_set
    <3>1. fdt[fd[conn]] # Free
      BY <1>1, VisitFacts, OwnFacts
    <3> QED
      BY <2>2, <2>3, <3>1 DEF FreeFds
  <2>7. c1.phase = "SRV_TO_CGI" /\ c1.buf_phase = "RECV"
    BY <1>2, <1>5 DEF CgiType
  <2>8. Content(rq, rs, c1, b)
    BY <1>1, <1>2, <1>5, <2>7, NewFacts DEF Content, Reading, Static, Dynamic, Refused
  <2>9. SelectedNext(rq, rs, c1)
    <3>1. rq.phase = "DONE" => rs.phase = "DISABLED"
      BY <1>1, <1>2, NewFacts DEF Content, Reading, Static, Dynamic, Refused, InHeader
    <3> QED
      BY <1>1, <1>2, <2>1, <2>6, <2>7, <3>1 DEF SelectedNext, Selected, Early
  <2> HIDE DEF c1, rq, rs, cg, b, lb
  <2>10. Left(rq, lb, rs, c1, b) /\ LeftOK(rq, lb, rs, c1, b)
    BY <1>2, <1>4, <2>1, <2>8 DEF Left, LeftOK
  <2>11. Handled(rq, lb, rs, c1, b)
    BY <1>1, <1>3, <2>5, <2>9, <2>10 DEF Handled
  <2> QED
    BY <2>11, HandledInv
<1> QED
  BY <1>6, <1>7

(* A request received in full stops the reading, and a static response is  *)
(* written: the selected descriptors now fit a request that waits.         *)
LEMMA ForSelectRInv ==
  ASSUME IInv, IInv', RInv, ForSelect
  PROVE  RInv'
<1> DEFINE rq == req[conn]
           rs == resp[conn]
           cg == cgi[conn]
           b == buf[conn]
           lb == last_buf[conn]
<1>1. /\ pc = "for_select" /\ pc' = "to_cgi" /\ Visiting
      /\ UNCHANGED <<conns, idx, fd, pipe, cur, read_ready, req, last_buf, resp, cgi, buf>>
      /\ read_set' = IF rq.phase = "DONE" THEN read_set \ {fd[conn]} ELSE read_set
      /\ write_set' = IF rq.phase = "DONE" /\ rq.type = "STATIC"
                      THEN write_set \cup {fd[conn]} ELSE write_set
  BY DEF ForSelect, At, Visiting, loopVars, poolVars, readyVars, fdVars, msgVars
<1>2. /\ conn \in Client /\ Content(rq, rs, cg, b)
      /\ pipe[conn]["srv_in"] # fd[conn]
      /\ Selected(rq, rs, cg, fd[conn] \in read_set, fd[conn] \in write_set,
                  pipe[conn]["srv_in"] \in read_set, "for_select")
  BY <1>1, VisitFacts DEF ConnOK, Ends
<1>3. Left(rq, lb, rs, cg, b) /\ LeftOK(rq, lb, rs, cg, b)
  BY <1>1, KeptFacts DEF Left
<1>4. OthersKept
  BY <1>1, WatchedKept
<1>5. rq.phase = "DONE" /\ rs.phase # "DISABLED" => rq.type = "STATIC"
  BY <1>2 DEF Content, Reading, Static, Dynamic, Refused, InHeader
<1>6. SelectedNext(rq, rs, cg)
  BY <1>1, <1>2, <1>5 DEF SelectedNext, Selected, Early
<1>7. pc' \in Labels \ {"select", "accept", "accept_ssl", "recv"}
  BY <1>1 DEF Labels
<1> HIDE DEF rq, rs, cg, b, lb
<1>8. Handled(rq, lb, rs, cg, b)
  BY <1>1, <1>3, <1>4, <1>6, <1>7 DEF Handled
<1> QED
  BY <1>8, HandledInv

-----------------------------------------------------------------------------
(* The handlers that stream to and from the program                        *)

(* The program has gone: an error page is due.                             *)
LEMMA WriteFailRInv ==
  ASSUME IInv, IInv', RInv, WriteFail
  PROVE  RInv'
<1> DEFINE cg == cgi[conn]
           b == buf[conn]
           lb == last_buf[conn]
<1>1. /\ pc = "write" /\ pc' = "from_cgi" /\ Visiting /\ cg.phase = "SRV_TO_CGI"
      /\ UNCHANGED <<conns, idx, fd, pipe, cur, read_ready, read_set, last_buf, cgi, buf>>
      /\ ConnErr(conn, req[conn], 500)
  BY DEF WriteFail, At, Visiting, poolVars, readyVars, writeUnchanged, IInv, Writing, conn
<1>2. /\ ReqOK(req[conn]) /\ cg \in CgiType /\ Content(req[conn], resp[conn], cg, b)
      /\ lb \in Seq(InUnit) /\ Len(lb) <= BUFSZ /\ b \in BufType /\ BufSz(b) <= BUFSZ
  BY <1>1, VisitFacts DEF ConnOK
<1>3. pc' \in Labels \ {"select", "accept", "accept_ssl", "recv"} /\ 500 \in Status
  BY <1>1 DEF Labels, Status
<1>4. /\ last_buf' = [last_buf EXCEPT ![conn] = lb]
      /\ cgi' = [cgi EXCEPT ![conn] = cg] /\ buf' = [buf EXCEPT ![conn] = b]
  BY <1>1, KeptFacts
<1>5. cg.buf_phase = "RECV"
  BY <1>1, <1>2, NewFacts DEF Content, Reading, Static, Dynamic, Refused
<1>6. OthersKept
  BY <1>1, WatchedKept DEF ConnErr
<1> HIDE DEF cg, b, lb
<1> QED
  BY <1>1, <1>2, <1>3, <1>4, <1>5, <1>6, ErrRInv

(* All of the buffer is written; after the last of the body the program's  *)
(* output is selected.                                                     *)
LEMMA WriteDoneRInv ==
  ASSUME IInv, IInv', RInv, WriteDone
  PROVE  RInv'
<1> DEFINE rq == req[conn]
           rs == resp[conn]
           cg == cgi[conn]
           b == buf[conn]
           lb == last_buf[conn]
<1>1. /\ pc = "write" /\ pc' = "from_cgi" /\ Visiting /\ cg.phase = "SRV_TO_CGI"
      /\ UNCHANGED <<conns, idx, fd, cur, read_ready, write_set, req, last_buf, resp>>
      /\ buf' = [buf EXCEPT ![conn] = NewBuf]
  BY DEF WriteDone, At, Visiting, poolVars, readyVars, writeUnchanged, IInv, Writing, conn
<1>2. /\ conn \in Client /\ ReqOK(rq) /\ rs \in RespType /\ cg \in CgiType
      /\ lb \in Seq(InUnit) /\ Len(lb) <= BUFSZ
      /\ Content(rq, rs, cg, b)
      /\ Selected(rq, rs, cg, fd[conn] \in read_set, fd[conn] \in write_set,
                  pipe[conn]["srv_in"] \in read_set, "write")
      /\ pipe[conn]["srv_in"] # fd[conn]
  BY <1>1, VisitFacts DEF ConnOK, Ends
<1>3. pc' \in Labels \ {"select", "accept", "accept_ssl", "recv"}
  BY <1>1 DEF Labels
<1>4. /\ last_buf' = [last_buf EXCEPT ![conn] = lb]
      /\ req' = [req EXCEPT ![conn] = rq] /\ resp' = [resp EXCEPT ![conn] = rs]
      /\ cgi = [cgi EXCEPT ![conn] = cg]
  BY <1>1, KeptFacts
<1>5. /\ cg.buf_phase = "RECV"
      /\ \/ rq.phase = "ABORT" /\ rs.phase = "ABORT"
         \/ rq.phase \in {"BODY", "DONE"} /\ rq.type = "DYNAMIC" /\ rs.phase = "DISABLED"
  BY <1>1, <1>2, NewFacts DEF Content, Reading, Static, Dynamic, Refused
<1>6. NewBuf \in BufType /\ BufSz(NewBuf) <= BUFSZ /\ BufOK(NewBuf) /\ SendBufOK(NewBuf)
  BY NewFacts, BufFacts
<1>7. CASE rq.phase = "DONE"
  <2> DEFINE c1 == [cg EXCEPT !.phase = "CGI_TO_SRV"]
  <2>1. /\ pipe' = [pipe EXCEPT ![conn]["srv_out"] = NoFd]
        /\ read_set' = read_set \cup {pipe[conn]["srv_in"]}
        /\ cgi' = [cgi EXCEPT ![conn] = c1]
    BY <1>7 DEF WriteDone, ClosePipe
  <2>2. /\ pipe'[conn]["srv_in"] = pipe[conn]["srv_in"]
        /\ \A c \in Client \ {conn} : pipe'[c] = pipe[c]
    BY <1>2, <2>1 DEF IInv, CoreType, PoolTypeOK, Ends
  <2>3. OthersKept
    <3>1. pipe[conn]["srv_in"] # NoFd => pipe[conn]["srv_in"] \in Mine
      BY <1>1, MineFacts DEF Ends
    <3>2. \A f \in Fd \ Mine : f \in read_set' <=> f \in read_set
      BY <1>1, <2>1, <3>1, MineFacts
    <3> QED
      BY <1>1, <2>2, <3>2 DEF OthersKept
  <2>4. c1.phase = "CGI_TO_SRV"
    BY <1>2 DEF CgiType
  <2>5. Content(rq, rs, c1, NewBuf)
    BY <1>5, <1>6, <1>7, <2>4 DEF Content, Dynamic
  <2>6. SelectedNext(rq, rs, c1)
    BY <1>1, <1>2, <1>5, <1>7, <2>1, <2>2, <2>4 DEF SelectedNext, Selected, Early
  <2> HIDE DEF c1, rq, rs, cg, b, lb
  <2>7. Left(rq, lb, rs, c1, NewBuf) /\ LeftOK(rq, lb, rs, c1, NewBuf)
    BY <1>1, <1>2, <1>4, <1>6, <2>1, <2>5 DEF Left, LeftOK
  <2>8. Handled(rq, lb, rs, c1, NewBuf)
    BY <1>1, <1>3, <2>3, <2>6, <2>7 DEF Handled
  <2> QED
    BY <2>8, HandledInv
<1>8. CASE rq.phase # "DONE"
  <2>1. UNCHANGED <<pipe, read_set, cgi>>
    BY <1>8 DEF WriteDone
  <2>2. OthersKept
    BY <1>1, <2>1, WatchedKept
  <2>3. Content(rq, rs, cg, NewBuf)
    BY <1>1, <1>5, <1>6, <1>8 DEF Content, Dynamic, Refused
  <2>4. SelectedNext(rq, rs, cg)
    BY <1>1, <1>2, <1>8, <2>1 DEF SelectedNext, Selected
  <2> HIDE DEF rq, rs, cg, b, lb
  <2>5. Left(rq, lb, rs, cg, NewBuf) /\ LeftOK(rq, lb, rs, cg, NewBuf)
    BY <1>1, <1>2, <1>4, <1>6, <2>1, <2>3 DEF Left, LeftOK
  <2>6. Handled(rq, lb, rs, cg, NewBuf)
    BY <1>1, <1>3, <2>2, <2>4, <2>5 DEF Handled
  <2> QED
    BY <2>6, HandledInv
<1> QED
  BY <1>7, <1>8

(* One read of the program's output: units to send, the end, or an error.  *)
LEMMA FromCgiRInv ==
  ASSUME IInv, IInv', RInv, SentInv, FromCgi \/ FromCgiEof \/ FromCgiFail
  PROVE  RInv'
<1> DEFINE rq == req[conn]
           rs == resp[conn]
           cg == cgi[conn]
           b == buf[conn]
           lb == last_buf[conn]
<1>1. /\ pc = "from_cgi" /\ pc' = "dynamic" /\ Visiting
      /\ rq.type = "DYNAMIC" /\ cg.phase = "CGI_TO_SRV" /\ cg.buf_phase = "RECV"
      /\ UNCHANGED <<conns, idx, fd, cur, read_ready, last_buf>>
      /\ write_set' = write_set \cup {fd[conn]}
  BY DEF FromCgi, FromCgiEof, FromCgiFail, Streaming, At, Visiting, ConnErr, loopVars,
         poolVars, readyVars, fdVars
<1>2. /\ conn \in Client /\ ReqOK(rq) /\ rs \in RespType /\ cg \in CgiType
      /\ lb \in Seq(InUnit) /\ Len(lb) <= BUFSZ
      /\ Content(rq, rs, cg, b)
      /\ Selected(rq, rs, cg, fd[conn] \in read_set, fd[conn] \in write_set,
                  pipe[conn]["srv_in"] \in read_set, "from_cgi")
  BY <1>1, VisitFacts DEF ConnOK
<1>3. pc' \in Labels \ {"select", "accept", "accept_ssl", "recv"}
  BY <1>1 DEF Labels
<1>4. /\ last_buf' = [last_buf EXCEPT ![conn] = lb]
      /\ req = [req EXCEPT ![conn] = rq] /\ resp = [resp EXCEPT ![conn] = rs]
  BY <1>1, KeptFacts
<1>5. rq.phase = "DONE" /\ rs.phase = "DISABLED"
  BY <1>1, <1>2, NewFacts DEF Content, Reading, Static, Dynamic, Refused
<1>6. NewBuf \in BufType /\ BufSz(NewBuf) <= BUFSZ
  BY NewFacts, BufFacts
<1>7. CASE FromCgi
  <2> DEFINE c1 == [cg EXCEPT !.buf_phase = "SEND"]
             units == Take(proc[conn].stdout, BUFSZ)
  <2>1. /\ UNCHANGED <<read_set, pipe, req, resp>>
        /\ cgi' = [cgi EXCEPT ![conn] = c1] /\ buf' = [buf EXCEPT ![conn] = BufOf(units)]
    BY <1>7 DEF FromCgi, fdVars
  <2>2. c1.phase = "CGI_TO_SRV"
    BY <1>1, <1>2 DEF CgiType
  <2>3. units \in Seq(OutUnit) /\ Len(units) <= BUFSZ
    <3>1. proc[conn].stdout \in Seq(OutUnit)
      BY <1>2 DEF SentInv, ProcType
    <3> QED
      BY <3>1, TakeSkipFacts, ConnAssumption
  <2> HIDE DEF units, c1
  <2>4. SendBufOK(BufOf(units)) /\ BufOf(units) \in BufType /\ BufSz(BufOf(units)) <= BUFSZ
    BY <2>3, FilledFacts, BufFacts
  <2>5. Content(rq, rs, c1, BufOf(units))
    BY <1>1, <1>5, <2>2, <2>4 DEF Content, Dynamic
  <2>6. SelectedNext(rq, rs, c1)
    BY <1>1, <1>2, <1>5, <2>1, <2>2 DEF SelectedNext, Selected, Early
  <2>7. OthersKept
    BY <1>1, <2>1, WatchedKept
  <2> HIDE DEF rq, rs, cg, b, lb
  <2>8. Left(rq, lb, rs, c1, BufOf(units)) /\ LeftOK(rq, lb, rs, c1, BufOf(units))
    BY <1>2, <1>4, <2>1, <2>4, <2>5 DEF Left, LeftOK
  <2>9. Handled(rq, lb, rs, c1, BufOf(units))
    BY <1>1, <1>3, <2>6, <2>7, <2>8 DEF Handled
  <2> QED
    BY <2>9, HandledInv
<1>8. CASE FromCgiEof
  <2> DEFINE c1 == [cg EXCEPT !.phase = "DONE", !.buf_phase = "SEND"]
  <2>1. /\ UNCHANGED <<req, resp>>
        /\ pipe' = [pipe EXCEPT ![conn]["srv_in"] = NoFd]
        /\ read_set' = read_set \ {pipe[conn]["srv_in"]}
        /\ cgi' = [cgi EXCEPT ![conn].phase = "DONE", ![conn].buf_phase = "SEND"]
        /\ buf' = [buf EXCEPT ![conn] = NewBuf]
    BY <1>8 DEF FromCgiEof, ClosePipe
  <2>2. cgi' = [cgi EXCEPT ![conn] = c1]
    BY <1>2, <2>1 DEF IInv, CoreType
  <2>3. c1.phase = "DONE" /\ c1.buf_phase = "SEND"
    BY <1>2 DEF CgiType
  <2>4. \A c \in Client \ {conn} : pipe'[c] = pipe[c]
    BY <2>1 DEF IInv, CoreType, PoolTypeOK
  <2>5. OthersKept
    <3>1. pipe[conn]["srv_in"] # NoFd => pipe[conn]["srv_in"] \in Mine
      BY <1>1, MineFacts DEF Ends
    <3>2. \A f \in Fd \ Mine : f \in read_set' <=> f \in read_set
      BY <1>1, <2>1, <3>1, MineFacts
    <3>3. \A f \in Fd \ Mine : f \in write_set' <=> f \in write_set
      BY <1>1, MineFacts
    <3> QED
      BY <2>4, <3>2, <3>3 DEF OthersKept
  <2> HIDE DEF c1
  <2>6. Content(rq, rs, c1, NewBuf)
    BY <1>1, <1>5, <2>3 DEF Content, Dynamic
  <2>7. SelectedNext(rq, rs, c1)
    BY <1>1, <1>2, <1>5, <2>1, <2>3 DEF SelectedNext, Selected, Early
  <2> HIDE DEF rq, rs, cg, b, lb
  <2>8. Left(rq, lb, rs, c1, NewBuf) /\ LeftOK(rq, lb, rs, c1, NewBuf)
    BY <1>2, <1>4, <1>6, <2>1, <2>2, <2>6 DEF Left, LeftOK
  <2>9. Handled(rq, lb, rs, c1, NewBuf)
    BY <1>1, <1>3, <2>5, <2>7, <2>8 DEF Handled
  <2> QED
    BY <2>9, HandledInv
<1>9. CASE FromCgiFail
  <2> DEFINE c1 == [cg EXCEPT !.phase = "ABORT"]
  <2>1. /\ ConnErr(conn, rq, 500) /\ UNCHANGED <<read_set, pipe>>
        /\ cgi' = [cgi EXCEPT ![conn] = c1] /\ buf' = [buf EXCEPT ![conn] = NewBuf]
    BY <1>9 DEF FromCgiFail, fdVars
  <2>2. c1 \in CgiType /\ c1.phase = "ABORT" /\ c1.buf_phase = "RECV"
    BY <1>1, <1>2 DEF CgiType
  <2>3. 500 \in Status
    BY DEF Status
  <2>4. OthersKept
    BY <1>1, <2>1, WatchedKept
  <2> HIDE DEF c1, rq, rs, cg, b, lb
  <2> QED
    BY <1>1, <1>2, <1>3, <1>4, <1>6, <2>1, <2>2, <2>3, <2>4, ErrRInv
<1> QED
  BY <1>7, <1>8, <1>9

-----------------------------------------------------------------------------
(* The handlers that send                                                  *)

(* liso_reset_or_close: what is left of the units received is parsed as the*)
(* next request, and the socket is read again unless that one is complete. *)
LEMMA ResetRInv ==
  ASSUME IInv, IInv', RInv, Visiting, pc' \in {"static", "max_fd"},
         UNCHANGED <<conns, idx, fd, cur, read_ready>>,
         NEW clear \in BOOLEAN, clear => CgiUri # {}, ResetOrClose(conn, clear)
  PROVE  RInv'
<1> DEFINE r == ParseReq(NewReq, BufOf(last_buf[conn]), << >>, 0)
           rq == IF r.status # 0 THEN AbortReq(r.req) ELSE r.req
           rs == IF r.status # 0 THEN AbortResp(NewResp, r.status)
                 ELSE RespParsed(NewResp, r.req)
           cg == CgiParsed(NewCgi, r.req)
<1>1. /\ pipe' = [pipe EXCEPT ![conn] = NoPipes]
      /\ read_set' = IF r.req.phase = "DONE" THEN ResetReadSet(conn) \ {fd[conn]}
                     ELSE ResetReadSet(conn)
      /\ write_set' = IF ~clear /\ (r.req.phase = "DONE" \/ r.status # 0)
                      THEN write_set \cup {fd[conn]} ELSE write_set \ {fd[conn]}
      /\ Left(rq, r.last, rs, cg, r.buf)
  BY DEF ResetOrClose, Left
<1>2. /\ conn \in Client /\ last_buf[conn] \in Seq(InUnit) /\ Len(last_buf[conn]) <= BUFSZ
      /\ fd[conn] \in Fd /\ fd[conn] # pipe[conn]["srv_in"] /\ fd[conn] # pipe[conn]["srv_err"]
  BY VisitFacts DEF ConnOK, Ends
<1>3. /\ ParsedOK(r)
      /\ r.req.phase \in {"START", "HEADER", "BODY", "DONE", "ABORT"}
  <2> DEFINE b == BufOf(last_buf[conn])
  <2>1. BufOK(b) /\ b.p = 0 /\ b.rest = last_buf[conn]
    BY <1>2, NewBufFacts
  <2> HIDE DEF b
  <2>2. b.p <= 0 /\ 0 <= BufSz(b) /\ 0 - b.p = 0
    BY <2>1 DEF BufSz, BufOK
  <2>3. LineFreeUpTo(b, 0 - b.p)
    BY <2>2 DEF LineFreeUpTo
  <2>4. << >> \in Seq(InUnit) /\ Len(<< >>) <= BUFSZ /\ 0 \in Nat
    BY ConnAssumption
  <2>5. ReqOK(NewReq) /\ NewReq.phase \in {"START", "HEADER", "BODY"}
    BY NewFacts
  <2>6. ParsedOK(ParseReq(NewReq, b, << >>, 0))
    BY <2>1, <2>2, <2>3, <2>4, <2>5, ParseReqFacts
  <2>7. ParsedOK(r)
    BY <2>6 DEF b
  <2> HIDE DEF r
  <2> QED
    BY <2>7 DEF ParsedOK, ReqOK, ReqType
<1> HIDE DEF r
<1>4. /\ r.last \in Seq(InUnit) /\ Len(r.last) <= BUFSZ /\ ReqOK(r.req)
      /\ r.buf \in BufType /\ BufSz(r.buf) <= BUFSZ
      /\ r.status # 0 <=> r.req.phase = "ABORT"
  BY <1>3, BufFacts DEF ParsedOK
<1>5. /\ ReqOK(rq) /\ rs \in RespType /\ cg \in CgiType /\ Content(rq, rs, cg, r.buf)
      /\ rs.phase \in {"READY", "DISABLED", "ABORT"}
      /\ cg.phase \in {"IDLE", "READY", "DISABLED"}
      /\ rq.phase = r.req.phase
  <2>1. CASE r.status # 0
    <3>1. ~InBody(r.req) /\ r.req.phase = "ABORT" /\ r.status \in Status
      BY <1>3, <1>4, <2>1 DEF InBody, ParsedOK, ParserStatus, Status
    <3>2. cg = NewCgi
      BY <3>1 DEF CgiParsed
    <3>3. /\ ReqOK(AbortReq(r.req)) /\ AbortReq(r.req).phase = "ABORT"
          /\ AbortResp(NewResp, r.status) \in RespType
          /\ AbortResp(NewResp, r.status).phase = "ABORT"
          /\ Content(AbortReq(r.req), AbortResp(NewResp, r.status), NewCgi, r.buf)
      <4>1. /\ NewCgi \in CgiType /\ NewCgi.buf_phase = "RECV"
            /\ NewCgi.phase \notin {"CGI_TO_SRV", "DONE"} /\ NewResp \in RespType
        BY NewFacts
      <4> QED
        BY <1>4, <3>1, <4>1, RefusedFacts
    <3>4. rq = AbortReq(r.req) /\ rs = AbortResp(NewResp, r.status)
      BY <2>1
    <3> HIDE DEF rq, rs, cg
    <3> QED
      BY <3>1, <3>2, <3>3, <3>4, NewFacts
  <2>2. CASE r.status = 0
    <3>1. Content(NewReq, NewResp, NewCgi, NewBuf)
      BY FreshContent
    <3>2. NewReq.phase \in {"START", "HEADER", "BODY"} /\ NewReq.phase # "BODY"
      BY NewFacts
    <3>3. /\ cg \in CgiType /\ RespParsed(NewResp, r.req) \in RespType
          /\ Content(r.req, RespParsed(NewResp, r.req), cg, r.buf)
          /\ RespParsed(NewResp, r.req).phase \in {"READY", "DISABLED"}
      BY <1>3, <2>2, <3>1, <3>2, NewFacts, ParsedContent
    <3>4. cg.phase \in {"IDLE", "READY", "DISABLED"}
      BY NewFacts DEF CgiParsed, CgiType
    <3> QED
      BY <1>4, <2>2, <3>3, <3>4
  <2> QED
    BY <2>1, <2>2
<1> HIDE DEF rq, rs, cg
<1>6. fd[conn] \in ResetReadSet(conn)
  BY <1>2 DEF ResetReadSet
<1>7. SelectedNext(rq, rs, cg)
  <2>1. CASE rq.phase = "DONE"
    <3>1. fd[conn] \notin read_set'
      BY <1>1, <1>5, <2>1
    <3>2. fd[conn] \in write_set' \/ CgiUri # {}
      BY <1>1, <1>5, <2>1
    <3> QED
      BY <1>5, <2>1, <3>1, <3>2 DEF SelectedNext, Selected
  <2>2. CASE rq.phase # "DONE"
    BY <1>1, <1>5, <1>6, <2>2 DEF SelectedNext, Selected
  <2> QED
    BY <2>1, <2>2
<1>8. OthersKept
  <2>1. \A c \in Client \ {conn} : pipe'[c] = pipe[c]
    BY <1>1 DEF IInv, CoreType, PoolTypeOK
  <2>2. \A f \in Fd \ Mine : /\ f # fd[conn]
                             /\ f # pipe[conn]["srv_in"] /\ f # pipe[conn]["srv_err"]
    BY MineFacts DEF Ends
  <2>3. \A f \in Fd \ Mine : /\ f \in read_set' <=> f \in read_set
                             /\ f \in write_set' <=> f \in write_set
    BY <1>1, <2>2 DEF ResetReadSet
  <2> QED
    BY <2>1, <2>3 DEF OthersKept
<1>9. LeftOK(rq, r.last, rs, cg, r.buf)
  BY <1>4, <1>5 DEF LeftOK
<1>10. pc' \in Labels \ {"select", "accept", "accept_ssl", "recv"}
  BY DEF Labels
<1>11. Handled(rq, r.last, rs, cg, r.buf)
  BY <1>1, <1>7, <1>8, <1>9, <1>10 DEF Handled
<1> QED
  BY <1>11, HandledInv

(* The end of a response closes the connection or resets it.               *)
LEMMA FinishRInv ==
  ASSUME IInv, IInv', RInv, Visiting, UNCHANGED <<readyVars, netVars>>,
         NEW clear \in BOOLEAN, clear => CgiUri # {},
         NEW next \in {"static", "max_fd"}, Finish(conn, clear, next)
  PROVE  RInv'
<1>1. CASE DropConn(conn)
  BY <1>1, DropRInv DEF DropStep, Visiting
<1>2. CASE /\ ResetOrClose(conn, clear) /\ pc' = next
           /\ UNCHANGED <<loopVars, poolVars, fd>>
  BY <1>2, ResetRInv DEF loopVars, poolVars, readyVars
<1> QED
  BY <1>1, <1>2 DEF Finish

(* The end of a program's response; only a dynamic request has one.        *)
LEMMA DynamicEndRInv ==
  ASSUME IInv, IInv', RInv, DynamicEnd
  PROVE  RInv'
<1>1. /\ Visiting /\ req[conn].type = "DYNAMIC" /\ cgi[conn].phase = "DONE"
      /\ Finish(conn, TRUE, "static") /\ UNCHANGED <<readyVars, netVars>>
  BY DEF DynamicEnd, ServingDynamic, ResponseEnded, At, Visiting
<1>2. ReqOK(req[conn]) /\ Content(req[conn], resp[conn], cgi[conn], buf[conn])
  BY <1>1, VisitFacts DEF ConnOK
<1>3. ~InHeader(req[conn]) /\ req[conn].phase # "ABORT"
  BY <1>1, <1>2, NewFacts DEF Content, Reading, Static, Dynamic, Refused, InHeader
<1>4. CgiUri # {}
  BY <1>1, <1>2, <1>3 DEF ReqOK, Located, InHeader, ReqType
<1> QED
  BY <1>1, <1>4, FinishRInv

(* cn_serve_dynamic: the buffer was filled from the program's output; once *)
(* it is sent as a whole the next part is read.                            *)
LEMMA ServeDynamicRInv ==
  ASSUME IInv, IInv', RInv, ServeDynamic
  PROVE  RInv'
<1> DEFINE rq == req[conn]
           rs == resp[conn]
           cg == cgi[conn]
           b == buf[conn]
           lb == last_buf[conn]
           c1 == [cg EXCEPT !.buf_phase = "RECV"]
<1>1. /\ pc = "dynamic" /\ Visiting /\ rq.type = "DYNAMIC" /\ cg.buf_phase = "SEND"
      /\ ~(b.rest = << >> /\ cg.phase = "DONE")
  BY DEF ServeDynamic, ServingDynamic, ResponseEnded, At, Visiting
<1>2. /\ conn \in Client /\ ReqOK(rq) /\ rs \in RespType /\ cg \in CgiType
      /\ lb \in Seq(InUnit) /\ Len(lb) <= BUFSZ /\ b \in BufType /\ BufSz(b) <= BUFSZ
      /\ Content(rq, rs, cg, b)
      /\ Selected(rq, rs, cg, fd[conn] \in read_set, fd[conn] \in write_set,
                  pipe[conn]["srv_in"] \in read_set, "dynamic")
  BY <1>1, VisitFacts DEF ConnOK
<1>3. /\ rq.phase = "DONE" /\ rs.phase = "DISABLED" /\ cg.phase = "CGI_TO_SRV"
      /\ SendBufOK(b)
  BY <1>1, <1>2, NewFacts DEF Content, Reading, Static, Dynamic, Refused
<1>4. \/ DropConn(conn) /\ UNCHANGED <<readyVars, netVars, out, proc>>
      \/ /\ \/ cgi' = [cgi EXCEPT ![conn].buf_phase = "RECV"] /\ write_set' = write_set \ {fd[conn]}
            \/ UNCHANGED <<cgi, write_set>>
         /\ pc' = "static"
         /\ UNCHANGED <<loopVars, poolVars, read_set, readyVars, fdVars, req, last_buf,
                        resp, buf>>
  BY DEF ServeDynamic
<1>5. CASE DropConn(conn) /\ UNCHANGED <<readyVars, netVars, out, proc>>
  BY <1>1, <1>5, DropRInv DEF DropStep, Visiting
<1>6. CASE /\ cgi' = [cgi EXCEPT ![conn].buf_phase = "RECV"]
           /\ write_set' = write_set \ {fd[conn]}
           /\ pc' = "static"
           /\ UNCHANGED <<loopVars, poolVars, read_set, readyVars, fdVars, req, last_buf,
                          resp, buf>>
  <2>1. /\ UNCHANGED <<conns, idx, fd, cur, read_ready, read_set, pipe, req, last_buf, resp, buf>>
    BY <1>6 DEF loopVars, poolVars, readyVars, fdVars
  <2>2. cgi' = [cgi EXCEPT ![conn] = c1]
    BY <1>2, <1>6 DEF IInv, CoreType
  <2>3. c1.phase = "CGI_TO_SRV"
    BY <1>2, <1>3 DEF CgiType
  <2>4. /\ req = [req EXCEPT ![conn] = rq] /\ last_buf = [last_buf EXCEPT ![conn] = lb]
        /\ resp = [resp EXCEPT ![conn] = rs] /\ buf = [buf EXCEPT ![conn] = b]
    BY <1>1, KeptFacts
  <2> HIDE DEF c1
  <2>5. Content(rq, rs, c1, b)
    BY <1>1, <1>3, <2>3 DEF Content, Dynamic
  <2>6. SelectedNext(rq, rs, c1)
    BY <1>1, <1>2, <1>3, <1>6, <2>1, <2>3 DEF SelectedNext, Selected, Early
  <2>7. OthersKept
    BY <1>1, <1>6, <2>1, WatchedKept
  <2>8. pc' \in Labels \ {"select", "accept", "accept_ssl", "recv"}
    BY <1>6 DEF Labels
  <2> HIDE DEF rq, rs, cg, b, lb
  <2>9. Left(rq, lb, rs, c1, b) /\ LeftOK(rq, lb, rs, c1, b)
    BY <1>2, <2>1, <2>2, <2>4, <2>5 DEF Left, LeftOK
  <2>10. Handled(rq, lb, rs, c1, b)
    BY <1>1, <2>1, <2>6, <2>7, <2>8, <2>9 DEF Handled
  <2> QED
    BY <2>10, HandledInv
<1>7. CASE /\ UNCHANGED <<cgi, write_set>>
           /\ pc' = "static"
           /\ UNCHANGED <<loopVars, poolVars, read_set, readyVars, fdVars, req, last_buf,
                          resp, buf>>
  <2>1. Passes(rq, rs, cg, pc, pc') /\ pc' \in Labels
    BY <1>1, <1>7 DEF Passes, Labels
  <2> QED
    BY <1>1, <1>7, <2>1, PassRInv DEF loopVars, poolVars, setVars, readyVars, fdVars, msgVars
<1> QED
  BY <1>4, <1>5, <1>6, <1>7

(* A TLS client that leaves during its handshake is dropped.               *)
LEMMA HandshakeFailRInv ==
  ASSUME IInv, IInv', RInv, HandshakeFail
  PROVE  RInv'
BY DropRInv DEF HandshakeFail, Receiving, At, DropStep

(* smart_send takes no more than it is given.                              *)
LEMMA SendFacts ==
  ASSUME SentInv, NEW c \in Client, NEW n \in Nat, NEW k \in SendResults(c, n)
  PROVE  k <= n
<1>1. Room(c) \in Int
  BY LisoAssumption DEF SentInv, OutTaken, Room
<1> QED
  BY <1>1 DEF SendResults, Least

(* A handler of the static response that sends a part of it.               *)
LEMMA PartSentRInv ==
  ASSUME IInv, IInv', RInv, Visiting, pc = "static", pc' = "max_fd",
         UNCHANGED staticUnchanged, UNCHANGED readyVars,
         NEW rs \in RespType, resp' = [resp EXCEPT ![conn] = rs],
         NEW b, SendBufOK(b), buf' = [buf EXCEPT ![conn] = b],
         \/ rs.phase = "ABORT" /\ resp[conn].phase = "ABORT"
         \/ rs.phase \in {"HEADER", "BODY"} /\ resp[conn].phase \in {"HEADER", "BODY"}
  PROVE  RInv'
<1> DEFINE rq == req[conn]
           cg == cgi[conn]
           lb == last_buf[conn]
<1>1. UNCHANGED <<conns, idx, fd, cur, read_ready, read_set, write_set, pipe, req, last_buf, cgi>>
  BY DEF staticUnchanged, loopVars, poolVars, setVars, fdVars, readyVars
<1>2. /\ conn \in Client /\ ReqOK(rq) /\ resp[conn] \in RespType /\ cg \in CgiType
      /\ lb \in Seq(InUnit) /\ Len(lb) <= BUFSZ
      /\ Content(rq, resp[conn], cg, buf[conn])
      /\ Selected(rq, resp[conn], cg, fd[conn] \in read_set, fd[conn] \in write_set,
                  pipe[conn]["srv_in"] \in read_set, "static")
  BY VisitFacts DEF ConnOK
<1>3. pc' \in Labels \ {"select", "accept", "accept_ssl", "recv"}
  BY DEF Labels
<1>4. req = [req EXCEPT ![conn] = rq] /\ last_buf = [last_buf EXCEPT ![conn] = lb]
      /\ cgi = [cgi EXCEPT ![conn] = cg]
  BY KeptFacts
<1>5. b \in BufType /\ BufSz(b) <= BUFSZ
  BY BufFacts
<1>6. Content(rq, rs, cg, b)
  <2>1. CASE rs.phase = "ABORT" /\ resp[conn].phase = "ABORT"
    BY <1>2, <2>1 DEF Content, Reading, Static, Dynamic, Refused
  <2>2. CASE rs.phase \in {"HEADER", "BODY"} /\ resp[conn].phase \in {"HEADER", "BODY"}
    BY <1>2, <2>2 DEF Content, Reading, Static, Dynamic, Refused
  <2> QED
    BY <2>1, <2>2
<1>7. rs.phase = "ABORT" => rq.phase = "ABORT"
  BY <1>2 DEF Content, Reading, Static, Dynamic, Refused
<1>8. SelectedNext(rq, rs, cg)
  BY <1>1, <1>2, <1>7 DEF SelectedNext, Selected, Early
<1>9. OthersKept
  BY <1>1, WatchedKept
<1> HIDE DEF rq, cg, lb
<1>10. Left(rq, lb, rs, cg, b) /\ LeftOK(rq, lb, rs, cg, b)
  BY <1>1, <1>2, <1>4, <1>5, <1>6 DEF Left, LeftOK
<1>11. Handled(rq, lb, rs, cg, b)
  BY <1>1, <1>3, <1>8, <1>9, <1>10 DEF Handled
<1> QED
  BY <1>11, HandledInv

(* cn_send_error_page                                                      *)
LEMMA SendErrorPageRInv ==
  ASSUME IInv, IInv', RInv, SendErrorPage
  PROVE  RInv'
<1> DEFINE page == ErrorPage(req[conn], resp[conn])
<1>1. Visiting /\ pc = "static" /\ resp[conn].phase = "ABORT" /\ UNCHANGED <<readyVars, netVars>>
  BY DEF SendErrorPage, ServingStatic, At, Visiting
<1>2. conn \in Client /\ req[conn] \in ReqType /\ resp[conn] \in RespType
  BY <1>1, VisitFacts
<1>3. page \in Seq(OutUnit) /\ Len(page) <= BUFSZ
  BY <1>2, ErrorPageFacts
<1>4. PICK n \in SendResults(conn, Len(page)) :
        \/ DropConn(conn)
        \/ Finish(conn, FALSE, "max_fd")
        \/ /\ n \in 1 .. Len(page) - 1
           /\ buf' = [buf EXCEPT ![conn] = Advance(BufOf(page), n)]
           /\ pc' = "max_fd"
           /\ UNCHANGED <<resp, staticUnchanged>>
  BY DEF SendErrorPage
<1> HIDE DEF page
<1>5. CASE DropConn(conn)
  BY <1>1, <1>5, DropRInv DEF DropStep, Visiting
<1>6. CASE Finish(conn, FALSE, "max_fd")
  BY <1>1, <1>6, FinishRInv
<1>7. CASE /\ n \in 1 .. Len(page) - 1
           /\ buf' = [buf EXCEPT ![conn] = Advance(BufOf(page), n)]
           /\ pc' = "max_fd"
           /\ UNCHANGED <<resp, staticUnchanged>>
  <2>1. SendBufOK(BufOf(page)) /\ BufOf(page).rest = page
    BY <1>3, FilledFacts
  <2>2. n \in 1 .. Len(BufOf(page).rest)
    BY <1>3, <1>7, <2>1
  <2>3. SendBufOK(Advance(BufOf(page), n))
    BY <2>1, <2>2, AdvanceSent
  <2>4. resp' = [resp EXCEPT ![conn] = resp[conn]]
    BY <1>1, <1>7, KeptFacts
  <2> QED
    BY <1>1, <1>2, <1>7, <2>3, <2>4, PartSentRInv
<1> QED
  BY <1>4, <1>5, <1>6, <1>7

(* The header is sent, in parts or as a whole.                             *)
LEMMA SendHeaderRInv ==
  ASSUME IInv, IInv', RInv, SentInv, SendHeader
  PROVE  RInv'
<1> DEFINE b == buf[conn]
           rs == resp[conn]
<1>1. Visiting /\ pc = "static" /\ rs.phase = "HEADER" /\ UNCHANGED <<readyVars, netVars>>
  BY DEF SendHeader, ServingStatic, At, Visiting
<1>2. conn \in Client /\ rs \in RespType /\ Content(req[conn], rs, cgi[conn], b)
  BY <1>1, VisitFacts DEF ConnOK
<1>3. SendBufOK(b)
  BY <1>1, <1>2 DEF Content, Reading, Static, Dynamic, Refused
<1>4. PICK n \in SendResults(conn, Len(b.rest)) :
        \/ DropConn(conn)
        \/ Finish(conn, FALSE, "max_fd")
        \/ /\ n > 0
           /\ buf' = [buf EXCEPT ![conn] = Advance(b, n)]
           /\ resp' = [resp EXCEPT ![conn].phase =
                         IF n = Len(b.rest) THEN "BODY" ELSE resp[conn].phase]
           /\ pc' = "max_fd"
           /\ UNCHANGED staticUnchanged
  BY DEF SendHeader
<1>5. CASE DropConn(conn)
  BY <1>1, <1>5, DropRInv DEF DropStep, Visiting
<1>6. CASE Finish(conn, FALSE, "max_fd")
  BY <1>1, <1>6, FinishRInv
<1>7. CASE /\ n > 0
           /\ buf' = [buf EXCEPT ![conn] = Advance(b, n)]
           /\ resp' = [resp EXCEPT ![conn].phase =
                         IF n = Len(b.rest) THEN "BODY" ELSE resp[conn].phase]
           /\ pc' = "max_fd"
           /\ UNCHANGED staticUnchanged
  <2>1. Len(b.rest) \in Nat /\ n \in Int /\ n <= Len(b.rest)
    <3>1. Len(b.rest) \in Nat
      BY <1>3 DEF SendBufOK
    <3>2. Room(conn) \in Int
      BY <1>2, LisoAssumption DEF SentInv, OutTaken, Room
    <3>3. n \in Int
      BY <3>1, <3>2 DEF SendResults, Least
    <3> QED
      BY <1>2, <3>1, <3>3, SendFacts
  <2>2. n \in 1 .. Len(b.rest)
    BY <1>7, <2>1
  <2>3. SendBufOK(Advance(b, n))
    BY <1>3, <2>2, AdvanceSent
  <2> DEFINE r1 == [rs EXCEPT !.phase = IF n = Len(b.rest) THEN "BODY" ELSE resp[conn].phase]
  <2>4. resp' = [resp EXCEPT ![conn] = r1]
    BY <1>2, <1>7 DEF RInv, MsgType
  <2>5. r1 \in RespType /\ r1.phase \in {"HEADER", "BODY"}
    BY <1>1, <1>2 DEF RespType
  <2> HIDE DEF r1
  <2> QED
    BY <1>1, <1>7, <2>3, <2>4, <2>5, PartSentRInv
<1> QED
  BY <1>4, <1>5, <1>6, <1>7

(* A part of the file is sent.                                             *)
LEMMA SendBodyRInv ==
  ASSUME IInv, IInv', RInv, SentInv, SendBody
  PROVE  RInv'
<1> DEFINE b == buf[conn]
           rs == resp[conn]
<1>1. Visiting /\ pc = "static" /\ rs.phase = "BODY" /\ UNCHANGED <<readyVars, netVars>>
  BY DEF SendBody, ServingStatic, At, Visiting
<1>2. conn \in Client /\ rs \in RespType /\ Content(req[conn], rs, cgi[conn], b)
  BY <1>1, VisitFacts DEF ConnOK
<1>3. SendBufOK(b)
  BY <1>1, <1>2 DEF Content, Reading, Static, Dynamic, Refused
<1>4. PICK n \in SendResults(conn, Least(BUFSZ, Len(rs.mmbuf))) :
        \/ DropConn(conn)
        \/ Finish(conn, FALSE, "max_fd")
        \/ /\ n > 0
           /\ resp' = [resp EXCEPT ![conn].mmbuf = Skip(rs.mmbuf, n)]
           /\ pc' = "max_fd"
           /\ UNCHANGED <<buf, staticUnchanged>>
  BY DEF SendBody, FileSent
<1>5. CASE DropConn(conn)
  BY <1>1, <1>5, DropRInv DEF DropStep, Visiting
<1>6. CASE Finish(conn, FALSE, "max_fd")
  BY <1>1, <1>6, FinishRInv
<1>7. CASE /\ n > 0
           /\ resp' = [resp EXCEPT ![conn].mmbuf = Skip(rs.mmbuf, n)]
           /\ pc' = "max_fd"
           /\ UNCHANGED <<buf, staticUnchanged>>
  <2>1. n \in Nat /\ rs.mmbuf \in Seq(OutUnit)
    <3>1. Len(rs.mmbuf) \in Nat /\ Least(BUFSZ, Len(rs.mmbuf)) \in Nat
      BY <1>2, ConnAssumption DEF RespType, Least
    <3>2. Room(conn) \in Int
      BY <1>2, LisoAssumption DEF SentInv, OutTaken, Room
    <3>3. n \in Int
      BY <3>1, <3>2 DEF SendResults, Least
    <3> QED
      BY <1>2, <1>7, <3>3 DEF RespType
  <2> DEFINE m == Skip(rs.mmbuf, n)
             r1 == [rs EXCEPT !.mmbuf = m]
  <2>2. m \in Seq(OutUnit)
    BY <2>1, TakeSkipFacts
  <2>3. resp' = [resp EXCEPT ![conn] = r1]
    BY <1>2, <1>7 DEF RInv, MsgType
  <2> HIDE DEF m
  <2>4. r1 \in RespType /\ r1.phase = "BODY"
    BY <1>1, <1>2, <2>2 DEF RespType
  <2>5. buf' = [buf EXCEPT ![conn] = b]
    BY <1>1, <1>7, KeptFacts
  <2> HIDE DEF r1, b
  <2> QED
    BY <1>1, <1>3, <1>7, <2>3, <2>4, <2>5, PartSentRInv
<1> QED
  BY <1>4, <1>5, <1>6, <1>7

-----------------------------------------------------------------------------
(* RInv is inductive, given the invariants of the wire and of what is sent *)

LEMMA InitRInv == Init => RInv
<1> SUFFICES ASSUME Init PROVE RInv
  OBVIOUS
<1> USE DEF Init
<1>1. \A c \in Client : Fresh(c) /\ ~InPool(c)
  BY DEF Fresh, InPool
<1>2. MsgType
  <2>1. NewReq \in ReqType /\ NewResp \in RespType /\ NewBuf \in BufType
    BY NewFacts, BufFacts DEF ReqOK
  <2> QED
    BY <2>1 DEF MsgType
<1>3. ReadyRead
  BY <1>1 DEF ReadyRead
<1> QED
  BY <1>1, <1>2, <1>3 DEF RInv

(* Every step of the server, of a client or of a program keeps RInv; one   *)
(* case per group of handlers.                                             *)
LEMMA NextRInv ==
  ASSUME IInv, IInv', RInv, WireInv, SentInv, [Next]_vars
  PROVE  RInv'
<1>1. CASE \/ Select \/ AcceptSkip \/ AcceptRefuse \/ MaxFd \/ LoopEnd \/ Clients \/ Programs
           \/ UNCHANGED vars
  BY <1>1, BetweenRInv
<1>2. CASE AcceptConn
  BY <1>2, AcceptRInv
<1>3. CASE RecvSkip \/ Handshake \/ HandshakeFail \/ RecvIgnore \/ RecvData
  BY <1>3, PassingRInv, HandshakeFailRInv, RecvIgnoreRInv, RecvDataRInv
<1>4. CASE LogErr \/ Prepare \/ InitCgiSkip
  BY <1>4, PassingRInv, PrepareRInv
<1>5. CASE InitCgiNoPipe \/ InitCgiFail \/ InitCgi
  BY <1>5, InitCgiRInv
<1>6. CASE ForSelect \/ ToCgi \/ WriteSome \/ WriteShort \/ WriteFail \/ WriteDone
  BY <1>6, PassingRInv, ForSelectRInv, WriteFailRInv, WriteDoneRInv
<1>7. CASE FromCgiSkip \/ FromCgi \/ FromCgiEof \/ FromCgiFail
  BY <1>7, PassingRInv, FromCgiRInv
<1>8. CASE DynamicSkip \/ DynamicEnd \/ ServeDynamic
  BY <1>8, PassingRInv, DynamicEndRInv, ServeDynamicRInv
<1>9. CASE StaticSkip \/ SendErrorPage \/ SendHeader \/ SendBody
  BY <1>9, PassingRInv, SendErrorPageRInv, SendHeaderRInv, SendBodyRInv
<1> QED
  BY <1>1, <1>2, <1>3, <1>4, <1>5, <1>6, <1>7, <1>8, <1>9 DEF Next, Server
=============================================================================
