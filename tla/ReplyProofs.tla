------------------------------ MODULE ReplyProofs ------------------------------
(***************************************************************************)
(* Theorems about what a connection sends and what its program is fed, for *)
(* every set of clients and every value of the bounds: files go out whole, *)
(* an http client is hung up on behind a response that has ended only, and *)
(* a program gets no unit beyond the length it was told.  Three inductive  *)
(* invariants on top of StreamInv of StreamProofs.                         *)
(***************************************************************************)
EXTENDS StreamProofs

-----------------------------------------------------------------------------
(* The invariant of the responses                                          *)

(* A response under way has something left to send, and what was sent of a *)
(* file and what is left of it make the whole; a program's response is over*)
(* only when the program is.                                               *)
Answered(c) ==
  /\ resp[c].phase \in {"HEADER", "BODY"} =>
       /\ resp[c].mmbuf # << >>
       /\ resp[c].phase = "HEADER" => buf[c].rest # << >>
       /\ link[c] # "gone" => EndsWith(out[c] \o Unsent(c), FileReply(req[c]))
  /\ cgi[c].phase = "CGI_TO_SRV" /\ cgi[c].buf_phase = "SEND" => buf[c].rest # << >>
  /\ cgi[c].phase = "DONE" => proc[c].st = "exit" /\ proc[c].stdout = << >>

ReplyInv == \A c \in Client : InPool(c) => Answered(c)

(* While a file goes out, units only move from what is left to what was    *)
(* sent.                                                                   *)
Continued(c) ==
  resp[c].phase \in {"HEADER", "BODY"} /\ resp'[c].phase \in {"HEADER", "BODY"}
  /\ link'[c] # "gone"
    => out'[c] \o Unsent(c)' = out[c] \o Unsent(c)
Answers(c) == Answered(c)' /\ Continued(c)
Moved == \A c \in Client : InPool(c)' => Continued(c)

-----------------------------------------------------------------------------
(* The invariant of the ready sets                                         *)

(* The connections to which nothing was sent yet in this pass; behind      *)
(* cn_serve_dynamic, those that cn_serve_static may serve.                 *)
Unserved(c) ==
  \/ pc \in {"accept", "accept_ssl"}
  \/ pc # "select" /\ idx[c] > cur
  \/ pc \notin {"select", "static", "max_fd"} /\ idx[c] = cur
  \/ pc = "static" /\ idx[c] = cur /\ resp[c].phase # "DISABLED"

(* What select found holds until the connection's turn, and no descriptor  *)
(* it found ready is given to a connection accepted since.                 *)
ReadyInv ==
  /\ \A c \in Client : InPool(c) =>
       /\ Unvisited(c) /\ fd[c] \in read_ready => inq[c] # << >> \/ link[c] # "open"
       /\ Unserved(c) /\ fd[c] \in write_ready => Room(c) > 0 \/ link[c] = "gone"
  /\ pc \in {"accept", "accept_ssl"} =>
       \A f \in read_ready \cup write_ready : fdt[f] # Free

-----------------------------------------------------------------------------
(* The invariant of the programs' input                                    *)

(* What a program was given, and what is left of the buffer to give it.    *)
Fed(p) == Len(p.seen) + Len(p.stdin)
Unwritten(c) ==
  IF Stage(c) = "write" THEN wr.rsize - wr.took ELSE Len(buf[c].rest)

(* A request complete as soon as read is started in the next visit, from a *)
(* buffer that has room.                                                   *)
ToStart(rq, cg, b, st) ==
  cg.phase = "READY" =>
    /\ rq.phase \in {"BODY", "DONE"}
    /\ st \in {"recv", "logerr", "prepare", "init_cgi", "static", "max_fd"}
    /\ st \in {"recv", "static", "max_fd"} => BufSz(b) < BUFSZ
    /\ Len(b.rest) + Most(rq.rsize, 0) <= rq.clen

(* A program that is fed: its input is open at the server's end only, and  *)
(* what it was given, what is buffered and what is still to come amount to *)
(* no more than the length it was told.                                    *)
Feeding(rq, cg, b, ends, p, st, left) ==
  cg.phase = "SRV_TO_CGI" =>
    /\ ends["srv_out"] # NoFd /\ ends["cgi_in"] = NoFd
    /\ ~p.eof /\ p.st \in {"run", "exit"}
    /\ p.st = "run" =>
         /\ rq.phase \in {"BODY", "DONE"}
         /\ Fed(p) + left + Most(rq.rsize, 0) <= Most(p.env.clen, 0)
    /\ rq.phase # "ABORT" /\ st \notin Early \cup {"to_cgi", "write"} => b = NewBuf

Bounded(rq, lb) ==
  /\ rq.phase = "BODY" => rq.rsize > 0
  /\ Len(lb) < BUFSZ

ConnFed(rq, lb, cg, b, ends, p, st, left) ==
  ToStart(rq, cg, b, st) /\ Feeding(rq, cg, b, ends, p, st, left) /\ Bounded(rq, lb)

NotOverfed(p) == p.st # "none" => Fed(p) <= Most(p.env.clen, 0)

FedConn(c) ==
  InPool(c) => ConnFed(req[c], last_buf[c], cgi[c], buf[c], pipe[c], proc[c],
                       Stage(c), Unwritten(c))

FedInv == \A c \in Client : FedConn(c) /\ NotOverfed(proc[c])

-----------------------------------------------------------------------------
(* The connections whose turn it is not                                    *)

AtTurn(c) == Visiting /\ c = conn

(* Only the visit of a connection changes what it holds.                   *)
LEMMA HandlersTouch ==
  ASSUME [Next]_vars
  PROVE  \/ UNCHANGED <<msgVars, out, fd, pipe>>
         \/ AcceptConn
         \/ /\ Visiting
            /\ req' = req \/ \E x : req' = [req EXCEPT ![conn] = x]
            /\ last_buf' = last_buf \/ \E x : last_buf' = [last_buf EXCEPT ![conn] = x]
            /\ resp' = resp \/ \E x : resp' = [resp EXCEPT ![conn] = x]
            /\ cgi' = cgi \/ \E x : cgi' = [cgi EXCEPT ![conn] = x]
            /\ buf' = buf \/ \E x : buf' = [buf EXCEPT ![conn] = x]
            /\ out' = out \/ \E x : out' = [out EXCEPT ![conn] = x]
            /\ fd' = fd \/ fd' = [fd EXCEPT ![conn] = NoFd]
            /\ pipe' = pipe \/ \E x : pipe' = [pipe EXCEPT ![conn] = x]
<1> USE DEF loopVars, poolVars, setVars, readyVars, fdVars, msgVars, tlsVars, netVars,
            ioVars
<1> DEFINE T == /\ Visiting
                /\ req' = req \/ \E x : req' = [req EXCEPT ![conn] = x]
                /\ last_buf' = last_buf \/ \E x : last_buf' = [last_buf EXCEPT ![conn] = x]
                /\ resp' = resp \/ \E x : resp' = [resp EXCEPT ![conn] = x]
                /\ cgi' = cgi \/ \E x : cgi' = [cgi EXCEPT ![conn] = x]
                /\ buf' = buf \/ \E x : buf' = [buf EXCEPT ![conn] = x]
                /\ out' = out \/ \E x : out' = [out EXCEPT ![conn] = x]
                /\ fd' = fd \/ fd' = [fd EXCEPT ![conn] = NoFd]
                /\ pipe' = pipe \/ \E x : pipe' = [pipe EXCEPT ![conn] = x]
<1>1. CASE Select \/ AcceptSkip \/ AcceptRefuse \/ RecvSkip \/ Handshake \/ LogErr
  BY <1>1 DEF Select, AcceptSkip, AcceptRefuse, RecvSkip, Handshake, LogErr
<1>2. CASE InitCgiSkip \/ ForSelect \/ ToCgi \/ WriteSome \/ WriteShort
  BY <1>2 DEF InitCgiSkip, ForSelect, ToCgi, WriteSome, WriteShort, writeUnchanged
<1>3. CASE FromCgiSkip \/ DynamicSkip \/ StaticSkip \/ MaxFd \/ LoopEnd \/ UNCHANGED vars
  BY <1>3 DEF FromCgiSkip, DynamicSkip, StaticSkip, MaxFd, LoopEnd, vars
<1>4. CASE Clients
  BY <1>4 DEF Clients, Connect, ClientSend, ClientRead, ClientHalfClose, ClientLeave,
              serverUnchanged
<1>5. CASE Programs
  BY <1>5 DEF Programs, CgiRead, CgiEof, CgiWrite, CgiErr, CgiExit, cgiUnchanged,
              serverUnchanged
<1>6. ASSUME DropConn(conn), UNCHANGED out \/ \E x : out' = [out EXCEPT ![conn] = x], Visiting
      PROVE  T
  BY <1>6 DEF DropConn
<1>7. ASSUME NEW clear, NEW next, Finish(conn, clear, next), Visiting,
             UNCHANGED out \/ \E x : out' = [out EXCEPT ![conn] = x]
      PROVE  T
  <2>1. CASE req[conn].alive
    BY <1>7, <2>1 DEF Finish, ResetOrClose
  <2>2. CASE ~req[conn].alive
    BY <1>6, <1>7, <2>2 DEF Finish
  <2> QED
    BY <2>1, <2>2
<1>8. CASE HandshakeFail \/ RecvIgnore
  <2>1. Visiting
    BY <1>8 DEF HandshakeFail, RecvIgnore, Receiving, At, Visiting
  <2>2. CASE DropConn(conn) /\ UNCHANGED out
    BY <1>6, <2>1, <2>2
  <2>3. CASE ~(DropConn(conn) /\ UNCHANGED out)
    BY <1>8, <2>1, <2>3 DEF HandshakeFail, RecvIgnore, ConnErr
  <2> QED
    BY <2>2, <2>3
<1>9. CASE RecvData
  <2>1. Visiting
    BY <1>9 DEF RecvData, Receiving, At, Visiting
  <2>2. CASE DropConn(conn) /\ UNCHANGED out
    BY <1>6, <2>1, <2>2
  <2>3. CASE ~(DropConn(conn) /\ UNCHANGED out)
    <3>1. T
      BY <1>9, <2>1, <2>3 DEF RecvData, ConnErr
    <3> QED
      BY <3>1
  <2> QED
    BY <2>2, <2>3
<1>10. CASE Prepare
  <2>1. Visiting
    BY <1>10 DEF Prepare, At, Visiting
  <2>2. T
    <3>1. UNCHANGED <<last_buf, cgi, out, fd, pipe>>
      BY <1>10 DEF Prepare
    <3>2. \/ UNCHANGED msgVars
          \/ ConnErr(conn, req[conn], 404) /\ UNCHANGED buf
          \/ /\ UNCHANGED req
             /\ \E x : resp' = [resp EXCEPT ![conn].phase = "HEADER", ![conn].mmbuf = x]
             /\ \E x : buf' = [buf EXCEPT ![conn] = x]
      BY <1>10 DEF Prepare
    <3>3. ASSUME NEW x, resp' = [resp EXCEPT ![conn].phase = "HEADER", ![conn].mmbuf = x]
          PROVE  \E y : resp' = [resp EXCEPT ![conn] = y]
      BY <3>3
    <3> QED
      BY <2>1, <3>1, <3>2, <3>3 DEF ConnErr
  <2> QED
    BY <2>2
<1>11. CASE InitCgiNoPipe \/ InitCgiFail
  <2>1. Visiting /\ CgiFailed
    BY <1>11 DEF InitCgiNoPipe, InitCgiFail, At, Visiting
  <2>2. pipe' = pipe \/ \E x : pipe' = [pipe EXCEPT ![conn] = x]
    BY <1>11 DEF InitCgiNoPipe, InitCgiFail
  <2> QED
    BY <2>1, <2>2 DEF CgiFailed, ConnErr
<1>12. CASE InitCgi \/ WriteFail \/ WriteDone
  <2>1. CASE InitCgi
    BY <2>1 DEF InitCgi, At, Visiting
  <2>2. CASE WriteFail
    BY <2>2 DEF WriteFail, ConnErr, At, Visiting, writeUnchanged
  <2>3. CASE WriteDone
    BY <2>3 DEF WriteDone, ClosePipe, At, Visiting, writeUnchanged
  <2> QED
    BY <1>12, <2>1, <2>2, <2>3
<1>13. CASE FromCgi \/ FromCgiEof \/ FromCgiFail
  <2>1. CASE FromCgi
    BY <2>1 DEF FromCgi, Streaming, At, Visiting
  <2>2. CASE FromCgiEof
    <3>1. \E x : cgi' = [cgi EXCEPT ![conn] = x]
      BY <2>2 DEF FromCgiEof
    <3> QED
      BY <2>2, <3>1 DEF FromCgiEof, Streaming, ClosePipe, At, Visiting
  <2>3. CASE FromCgiFail
    BY <2>3 DEF FromCgiFail, ConnErr, Streaming, At, Visiting
  <2> QED
    BY <1>13, <2>1, <2>2, <2>3
<1>14. CASE DynamicEnd \/ ServeDynamic
  <2>1. Visiting
    BY <1>14 DEF DynamicEnd, ServeDynamic, ServingDynamic, At, Visiting
  <2>2. CASE DynamicEnd
    BY <1>7, <2>1, <2>2 DEF DynamicEnd
  <2>3. CASE ServeDynamic
    <3>1. CASE DropConn(conn) /\ UNCHANGED out
      BY <1>6, <2>1, <3>1
    <3>2. CASE ~(DropConn(conn) /\ UNCHANGED out)
      BY <2>1, <2>3, <3>2 DEF ServeDynamic, Delivered
    <3> QED
      BY <3>1, <3>2
  <2> QED
    BY <1>14, <2>2, <2>3
<1>15. CASE SendErrorPage \/ SendHeader \/ SendBody
  <2>1. Visiting
    BY <1>15 DEF SendErrorPage, SendHeader, SendBody, ServingStatic, At, Visiting
  <2>2. UNCHANGED out \/ \E x : out' = [out EXCEPT ![conn] = x]
    BY <1>15 DEF SendErrorPage, SendHeader, SendBody, Delivered
  <2>3. \/ DropConn(conn)
        \/ \E clear, next : Finish(conn, clear, next)
        \/ /\ UNCHANGED staticUnchanged
           /\ buf' = buf \/ \E x : buf' = [buf EXCEPT ![conn] = x]
           /\ resp' = resp \/ \E x : resp' = [resp EXCEPT ![conn] = x]
    BY <1>15 DEF SendErrorPage, SendHeader, SendBody, staticUnchanged
  <2> QED
    BY <1>6, <1>7, <2>1, <2>2, <2>3 DEF staticUnchanged
<1> QED
  BY <1>1, <1>2, <1>3, <1>4, <1>5, <1>8, <1>9, <1>10, <1>11, <1>12, <1>13, <1>14, <1>15
     DEF Next, Server

(* The structures of the other connections stay as they are.               *)
LEMMA OthersStay ==
  ASSUME IInv, RInv, SentInv, [Next]_vars, NEW c \in Client, ~AtTurn(c)
  PROVE  /\ req'[c] = req[c] /\ resp'[c] = resp[c] /\ cgi'[c] = cgi[c] /\ buf'[c] = buf[c]
         /\ last_buf'[c] = last_buf[c] /\ out'[c] = out[c] /\ pipe'[c] = pipe[c]
         /\ \/ fd'[c] = fd[c]
            \/ AcceptConn /\ fd[c] = NoFd
<1>1. /\ MsgType /\ CoreType /\ FdsOwned /\ Newcomers
      /\ out \in [Client -> Seq(OutUnit)]
  BY DEF IInv, RInv, SentInv, OutTaken
<1>2. CASE UNCHANGED <<msgVars, out, fd, pipe>>
  BY <1>2 DEF msgVars
<1>3. CASE AcceptConn
  <2>1. UNCHANGED <<msgVars, out, pipe>>
    BY <1>3 DEF AcceptConn, ioVars
  <2>2. PICK k \in backlog : \E f : fd' = [fd EXCEPT ![k] = f]
    BY <1>3 DEF AcceptConn, Waiting
  <2>3. fd[k] = NoFd /\ (c # k => fd'[c] = fd[c])
    BY <1>1, <2>2 DEF Newcomers, CoreType, PoolTypeOK
  <2> QED
    BY <1>3, <2>1, <2>3 DEF msgVars
<1>4. CASE Visiting
  <2>1. conn \in Client /\ c # conn
    BY <1>4, VisitFacts DEF AtTurn
  <2> QED
    BY <1>1, <1>2, <1>3, <2>1, HandlersTouch DEF MsgType, CoreType, PoolTypeOK
<1> QED
  BY <1>2, <1>3, <1>4, HandlersTouch

(* What a step may change of a program's record, apart from its stderr and *)
(* the ends it holds.                                                      *)
SameProc(c) ==
  /\ proc'[c].st = proc[c].st /\ proc'[c].env = proc[c].env
  /\ proc'[c].stdin = proc[c].stdin /\ proc'[c].seen = proc[c].seen
  /\ proc'[c].eof = proc[c].eof /\ proc'[c].stdout = proc[c].stdout

(* A program is started, fed and read in the visit of its connection, and  *)
(* moves on its own while it runs.                                         *)
LEMMA ProcFrame ==
  ASSUME IInv, RInv, SentInv, [Next]_vars, NEW c \in Client
  PROVE  \/ SameProc(c)
         \/ AtTurn(c) /\ (InitCgi \/ WriteSome \/ FromCgi)
         \/ Programs /\ proc[c].st = "run"
<1> USE DEF loopVars, poolVars, setVars, readyVars, fdVars, msgVars, tlsVars, netVars,
            ioVars
<1>1. ASSUME UNCHANGED proc PROVE SameProc(c)
  BY <1>1 DEF SameProc
<1>2. proc \in [Client -> ProcType] /\ proc[c] \in ProcType
  BY DEF SentInv
<1>3. CASE Select \/ AcceptSkip \/ AcceptRefuse \/ AcceptConn \/ RecvSkip \/ Prepare
  BY <1>1, <1>3 DEF Select, AcceptSkip, AcceptRefuse, AcceptConn, RecvSkip, Prepare
<1>4. CASE Handshake \/ HandshakeFail \/ RecvIgnore \/ RecvData
  BY <1>1, <1>4 DEF Handshake, HandshakeFail, RecvIgnore, RecvData
<1>5. CASE InitCgiSkip \/ ForSelect
  BY <1>1, <1>5 DEF InitCgiSkip, ForSelect
<1>6. CASE InitCgiNoPipe \/ InitCgiFail
  <2>1. CgiFailed
    BY <1>6 DEF InitCgiNoPipe, InitCgiFail
  <2> QED
    BY <1>1, <2>1 DEF CgiFailed
<1>7. CASE ToCgi \/ WriteShort \/ WriteFail \/ WriteDone
  BY <1>1, <1>7 DEF ToCgi, WriteShort, WriteFail, WriteDone
<1>8. CASE FromCgiSkip \/ FromCgiEof \/ FromCgiFail
  BY <1>1, <1>8 DEF FromCgiSkip, FromCgiEof, FromCgiFail
<1>9. CASE DynamicSkip \/ DynamicEnd \/ StaticSkip \/ MaxFd \/ LoopEnd \/ UNCHANGED vars
  BY <1>1, <1>9 DEF DynamicSkip, DynamicEnd, StaticSkip, MaxFd, LoopEnd, vars
<1>10. CASE ServeDynamic \/ SendErrorPage \/ SendHeader \/ SendBody
  BY <1>1, <1>10 DEF ServeDynamic, SendErrorPage, SendHeader, SendBody, staticUnchanged
<1>11. CASE Clients
  BY <1>1, <1>11 DEF Clients, Connect, ClientSend, ClientRead, ClientHalfClose, ClientLeave
<1>12. CASE LogErr
  <2>1. proc' = proc \/ proc' = [proc EXCEPT ![conn].err = FALSE]
    BY <1>12 DEF LogErr
  <2>2. CASE proc' = proc
    BY <1>1, <2>2
  <2>3. CASE c # conn /\ proc' = [proc EXCEPT ![conn].err = FALSE]
    <3>1. proc'[c] = proc[c]
      BY <1>2, <2>3
    <3> QED
      BY <3>1 DEF SameProc
  <2>4. CASE c = conn /\ proc' = [proc EXCEPT ![conn].err = FALSE]
    <3>1. proc'[c] = [proc[c] EXCEPT !.err = FALSE]
      BY <1>2, <2>4
    <3> QED
      BY <1>2, <3>1 DEF SameProc, ProcType
  <2> QED
    BY <2>1, <2>2, <2>3, <2>4
<1>13. CASE InitCgi
  <2>1. Visiting
    BY <1>13 DEF InitCgi, At, Visiting
  <2>2. CASE c # conn
    <3>1. proc'[c] = [proc[c] EXCEPT !.held = {p \in @ : p[1] # conn}]
      BY <1>13, <2>2 DEF InitCgi
    <3> QED
      BY <1>2, <3>1 DEF SameProc, ProcType
  <2> QED
    BY <1>13, <2>1, <2>2 DEF AtTurn
<1>14. CASE WriteSome
  <2>1. Visiting
    BY <1>14 DEF WriteSome, At, Visiting
  <2>2. CASE c # conn
    <3>1. proc'[c] = proc[c]
      BY <1>2, <1>14, <2>2 DEF WriteSome
    <3> QED
      BY <3>1 DEF SameProc
  <2> QED
    BY <1>14, <2>1, <2>2 DEF AtTurn
<1>15. CASE FromCgi
  <2>1. Visiting
    BY <1>15 DEF FromCgi, Streaming, At, Visiting
  <2>2. CASE c # conn
    <3>1. proc'[c] = proc[c]
      BY <1>2, <1>15, <2>2 DEF FromCgi
    <3> QED
      BY <3>1 DEF SameProc
  <2> QED
    BY <1>15, <2>1, <2>2 DEF AtTurn
<1>16. CASE Programs
  <2>1. PICK k \in Client : CgiRead(k) \/ CgiEof(k) \/ CgiWrite(k) \/ CgiErr(k) \/ CgiExit(k)
    BY <1>16 DEF Programs
  <2>2. proc[k].st = "run"
    BY <2>1 DEF CgiRead, CgiEof, CgiWrite, CgiErr, CgiExit, Running
  <2>3. CASE c = k
    BY <1>16, <2>2, <2>3
  <2>4. CASE c # k
    <3>1. proc'[c] = proc[c]
      BY <1>2, <2>1, <2>4 DEF CgiRead, CgiEof, CgiWrite, CgiErr, CgiExit
    <3> QED
      BY <3>1 DEF SameProc
  <2> QED
    BY <2>3, <2>4
<1> QED
  BY <1>3, <1>4, <1>5, <1>6, <1>7, <1>8, <1>9, <1>10, <1>11, <1>12, <1>13, <1>14, <1>15,
     <1>16 DEF Next, Server

(* A client that is gone does not come back.                               *)
LEMMA GoneStays ==
  ASSUME IInv, [Next]_vars, NEW c \in Client
  PROVE  link[c] = "gone" => link'[c] = "gone"
<1>1. link \in [Client -> {"off", "open", "half", "gone"}]
  BY DEF IInv, CoreType
<1>2. CASE UNCHANGED link
  BY <1>2
<1>3. CASE Clients
  BY <1>1, <1>3 DEF Clients, Connect, ClientSend, ClientRead, ClientHalfClose, ClientLeave
<1>4. CASE Server \/ Programs \/ UNCHANGED vars
  <2>1. UNCHANGED netVars \/ UNCHANGED link
    BY <1>4 DEF Server, Select, AcceptSkip, AcceptRefuse, AcceptConn, RecvSkip, Handshake,
         HandshakeFail, RecvIgnore, RecvData, LogErr, Prepare, InitCgiSkip, InitCgiNoPipe,
         InitCgiFail, CgiFailed, InitCgi, ForSelect, ToCgi, WriteSome, WriteShort,
         WriteFail, WriteDone, writeUnchanged, FromCgiSkip, FromCgi, FromCgiEof,
         FromCgiFail, DynamicSkip, DynamicEnd, ServeDynamic, StaticSkip, SendErrorPage,
         SendHeader, SendBody, MaxFd, LoopEnd, Programs, CgiRead, CgiEof, CgiWrite,
         CgiErr, CgiExit, cgiUnchanged, vars
  <2> QED
    BY <1>2, <2>1 DEF netVars
<1> QED
  BY <1>3, <1>4 DEF Next

-----------------------------------------------------------------------------
(* What was sent and what is left                                          *)

(* A sequence ends with its last part.                                     *)
LEMMA EndsWithPart ==
  ASSUME NEW S, NEW s \in Seq(S), NEW t \in Seq(S)
  PROVE  EndsWith(s \o t, t)
<1> DEFINE w == s \o t
<1>1. /\ w \in Seq(S) /\ Len(w) = Len(s) + Len(t)
      /\ \A i \in 1 .. Len(s) + Len(t) : w[i] = IF i <= Len(s) THEN s[i] ELSE t[i - Len(s)]
  BY ConcatProperties
<1>2. Len(s) \in Nat /\ Len(t) \in Nat
  OBVIOUS
<1> HIDE DEF w
<1> DEFINE x == SubSeq(w, Len(s) + 1, Len(w))
<1>3. /\ x \in Seq(S) /\ Len(x) = Len(t)
      /\ \A i \in 1 .. Len(t) : x[i] = w[Len(s) + i]
  BY <1>1, <1>2, SubSeqProperties
<1> HIDE DEF x
<1>4. ASSUME NEW i \in 1 .. Len(t) PROVE x[i] = t[i]
  <2>1. /\ Len(s) + i \in 1 .. Len(s) + Len(t)
        /\ ~(Len(s) + i <= Len(s)) /\ (Len(s) + i) - Len(s) = i
    BY <1>2
  <2>2. w[Len(s) + i] = t[i]
    BY <1>1, <2>1
  <2> QED
    BY <1>3, <2>2
<1>5. x = t
  BY <1>3, <1>4
<1>6. Len(w) - Len(t) + 1 = Len(s) + 1
  BY <1>1, <1>2
<1> QED
  BY <1>1, <1>2, <1>5, <1>6 DEF EndsWith, x, w

(* Concatenation and the first units, kept from being expanded.            *)
Cat(s, t) == s \o t
First(s, n) == SubSeq(s, 1, n)

(* Concatenation is associative.                                           *)
LEMMA CatAssociative ==
  ASSUME NEW T, NEW o \in Seq(T), NEW a \in Seq(T), NEW b \in Seq(T)
  PROVE  Cat(o, a) \in Seq(T) /\ Cat(Cat(o, a), b) = Cat(o, Cat(a, b))
<1>1. o \o a \in Seq(T)
  BY ConcatProperties
<1>2. (o \o a) \o b = o \o (a \o b)
  BY ConcatAssociative
<1> QED
  BY <1>1, <1>2 DEF Cat

(* A part of what is left, moved to what was sent, leaves the whole as it  *)
(* was.                                                                    *)
LEMMA MovedPart ==
  ASSUME NEW R, NEW sent1 \in Seq(R), NEW left \in Seq(R), NEW more \in Seq(R),
         NEW h \in 0 .. Len(left)
  PROVE  /\ Skip(left, h) \in Seq(R) /\ Len(Skip(left, h)) = Len(left) - h
         /\ Cat(Cat(sent1, First(left, h)), Cat(Skip(left, h), more))
              = Cat(sent1, Cat(left, more))
         /\ Cat(Cat(sent1, First(left, h)), Skip(left, h)) = Cat(sent1, left)
<1> DEFINE part == SubSeq(left, 1, h)
           rest == SubSeq(left, h + 1, Len(left))
<1>1. /\ Len(left) \in Nat /\ h \in 0 .. Len(left) /\ 1 \in 1 .. Len(left) + 1
      /\ h \in 1 - 1 .. Len(left) /\ Len(left) \in h .. Len(left)
  OBVIOUS
<1>2. part \in Seq(R)
  BY <1>1, SubSeqProperties
<1>3. rest \in Seq(R) /\ Len(rest) = Len(left) - h
  BY <1>1, SubSeqProperties
<1>4. part \o rest = left
  <2>1. part \o rest = SubSeq(left, 1, Len(left))
    BY <1>1, ConcatAdjacentSubSeq
  <2> QED
    BY <2>1, SubSeqFull
<1> HIDE DEF part, rest
<1>5. /\ Cat(part, rest) = left /\ Cat(sent1, part) \in Seq(R)
      /\ Cat(Cat(sent1, part), rest) = Cat(sent1, Cat(part, rest))
  <2>1. Cat(part, rest) = left
    BY <1>4 DEF Cat
  <2> QED
    BY <1>2, <1>3, <2>1, CatAssociative
<1>6. Cat(Cat(Cat(sent1, part), rest), more) = Cat(Cat(sent1, part), Cat(rest, more))
  BY <1>3, <1>5, CatAssociative
<1>7. Cat(Cat(sent1, left), more) = Cat(sent1, Cat(left, more))
  BY CatAssociative
<1>8. /\ Cat(Cat(sent1, part), Cat(rest, more)) = Cat(sent1, Cat(left, more))
      /\ Cat(Cat(sent1, part), rest) = Cat(sent1, left)
  BY <1>5, <1>6, <1>7
<1> QED
  BY <1>3, <1>8 DEF part, rest, First, Skip

(* Where nothing is sent, what a connection owes is what it owed.          *)
LEMMA AnsweredStays ==
  ASSUME StreamInv, ReplyInv, [Next]_vars, NEW c \in Client, InPool(c),
         req'[c] = req[c], resp'[c] = resp[c], cgi'[c] = cgi[c], buf'[c] = buf[c],
         out'[c] = out[c]
  PROVE  Answers(c)
<1>1. Answered(c) /\ IInv /\ RInv /\ SentInv
  BY DEF ReplyInv, StreamInv
<1>2. resp[c].phase \in {"HEADER", "BODY"} => Unsent(c)' = Unsent(c)
  BY DEF Unsent
<1>3. ASSUME cgi[c].phase = "DONE", proc[c].st = "exit", proc[c].stdout = << >>
      PROVE  proc'[c].st = "exit" /\ proc'[c].stdout = << >>
  <2>1. ~(AtTurn(c) /\ (InitCgi \/ WriteSome \/ FromCgi))
    BY <1>1, <1>3 DEF AtTurn, InitCgi, Starting, WriteSome, At, IInv, Writing, conn, FromCgi,
                      Streaming
  <2>2. SameProc(c)
    BY <1>1, <1>3, <2>1, ProcFrame
  <2> QED
    BY <1>3, <2>2 DEF SameProc
<1>4. link'[c] # "gone" => link[c] # "gone"
  BY <1>1, GoneStays
<1>5. Answered(c)'
  BY <1>1, <1>2, <1>3, <1>4 DEF Answered
<1> QED
  BY <1>2, <1>5 DEF Answers, Continued

(* Without a response under way there is nothing to say.                   *)
LEMMA NothingOwed ==
  ASSUME NEW c \in Client, resp'[c].phase \notin {"HEADER", "BODY"},
         cgi'[c].phase \notin {"CGI_TO_SRV", "DONE"}
  PROVE  Answers(c)
BY DEF Answered, Answers, Continued

(* A response prepared is the whole of what is left to send.               *)
LEMMA PrepareReply ==
  ASSUME StreamInv, ReplyInv, Prepare, NEW c \in Client, c = conn
  PROVE  Answers(c)
<1> DEFINE rq == req[c]
           size == FileSize[rq.uri]
<1>1. Visiting /\ IInv /\ RInv /\ SentInv
  BY DEF Prepare, At, Visiting, StreamInv
<1>2. /\ InPool(c) /\ ConnOK(c) /\ rq \in ReqType
      /\ MsgType /\ cgi \in [Client -> CgiType]
  BY <1>1, VisitFacts DEF RInv, IInv, CoreType
<1>3. UNCHANGED <<cgi, out>>
  BY <1>1 DEF Prepare, ioVars, msgVars
<1>4. CASE ~Preparing
  <2>1. UNCHANGED <<req, resp, buf>>
    BY <1>4 DEF Prepare, msgVars
  <2>2. [Next]_vars
    BY DEF Next, Server
  <2> QED
    BY <1>2, <1>3, <2>1, <2>2, AnsweredStays
<1>5. CASE Preparing
  <2>1. rq.type = "STATIC" /\ rq.phase = "DONE" /\ resp[c].phase = "READY"
    BY <1>5 DEF Preparing
  <2>2. cgi[c].phase = "DISABLED" /\ rq.uri \in Uri /\ rq.alive \in BOOLEAN
    BY <1>2, <2>1 DEF ConnOK, Content, Reading, Static, Dynamic, Refused, InHeader, ReqOK,
                      Located, ReqType
  <2>3. CASE size > 0 /\ FreeFds # {}
    <3> DEFINE file == FileUnits(rq.uri)
               hdr == RespHdr(200, size, rq.alive)
    <3>1. /\ resp'[c].phase = "HEADER" /\ resp'[c].mmbuf = file
          /\ buf'[c] = BufOf(hdr) /\ UNCHANGED <<req, cgi, out>>
      BY <1>2, <1>3, <1>5, <2>3 DEF Prepare, MsgType, RespType
    <3>2. file \in Seq(OutUnit) /\ size \in Nat /\ Len(file) = size
      <4>1. file \in Seq(OutUnit) /\ size \in Nat
        BY <2>2, <2>3, FileFacts
      <4> QED
        BY <4>1 DEF FileUnits
    <3>3. hdr \in Seq(OutUnit) /\ Len(hdr) = HDRSZ /\ HDRSZ > 0
      <4>1. 200 \in Status
        BY DEF Status
      <4> HIDE DEF size
      <4>2. hdr \in Seq(OutUnit) /\ Len(hdr) = HDRSZ
        BY <2>2, <3>2, <4>1, RespHdrFacts
      <4> QED
        BY <4>2, ConnAssumption
    <3>4. FileReply(rq) = hdr \o file
      BY DEF FileReply
    <3> HIDE DEF file, hdr, size
    <3>5. hdr # << >> /\ file # << >>
      BY <2>3, <3>2, <3>3
    <3>6. BufOf(hdr).rest = hdr
      BY DEF BufOf
    <3>7. Unsent(c)' = hdr \o file
      BY <3>1, <3>6 DEF Unsent
    <3>8. out[c] \in Seq(OutUnit) /\ hdr \o file \in Seq(OutUnit)
      BY <1>1, <1>2, <3>2, <3>3, ConcatProperties DEF SentInv, OutTaken
    <3>9. EndsWith(out[c] \o (hdr \o file), hdr \o file)
      BY <3>8, EndsWithPart
    <3>10. EndsWith(out'[c] \o Unsent(c)', FileReply(req'[c]))
      BY <3>1, <3>4, <3>7, <3>9
    <3>11. Answered(c)'
      BY <1>2, <2>2, <3>1, <3>5, <3>6, <3>10 DEF Answered
    <3> QED
      BY <2>1, <3>11 DEF Answers, Continued
  <2>4. CASE ~(size > 0 /\ FreeFds # {})
    <3>1. ConnErr(c, rq, 404)
      BY <1>5, <2>4 DEF Prepare
    <3>2. resp'[c].phase = "ABORT"
      BY <1>2, <3>1 DEF ConnErr, AbortResp, MsgType, RespType
    <3> QED
      BY <1>3, <2>2, <3>2, NothingOwed
  <2> QED
    BY <2>3, <2>4
<1> QED
  BY <1>4, <1>5

(* liso_reset_or_close leaves a response that waits, is given up or is left*)
(* to a program not started yet; a connection dropped leaves nothing.      *)
LEMMA FinishReply ==
  ASSUME StreamInv, NEW c \in Client, NEW clear, NEW next, Finish(c, clear, next)
  PROVE  InPool(c)' => Answers(c)
<1>1. /\ MsgType /\ cgi \in [Client -> CgiType] /\ fd \in [Client -> Fd \cup {NoFd}]
  BY DEF StreamInv, IInv, RInv, CoreType, PoolTypeOK
<1>2. CASE DropConn(c)
  BY <1>1, <1>2 DEF DropConn, InPool
<1>3. CASE ResetOrClose(c, clear)
  <2> DEFINE r == ParseReq(NewReq, BufOf(last_buf[c]), << >>, 0)
             rs == IF r.status # 0 THEN AbortResp(NewResp, r.status)
                   ELSE RespParsed(NewResp, r.req)
             cg == CgiParsed(NewCgi, r.req)
  <2>1. resp'[c] = rs /\ cgi'[c] = cg
    BY <1>1, <1>3 DEF ResetOrClose, MsgType
  <2> HIDE DEF r
  <2>2. rs.phase \in {"ABORT", "DISABLED", "READY"}
    BY NewFacts DEF AbortResp, RespParsed, RespType
  <2>3. cg.phase \in {"IDLE", "DISABLED", "READY"}
    BY NewFacts DEF CgiParsed, CgiType
  <2> QED
    BY <2>1, <2>2, <2>3, NothingOwed
<1> QED
  BY <1>2, <1>3 DEF Finish

(* A part of the header is sent: it moves to what was sent, and the file is*)
(* still to come.                                                          *)
LEMMA SendHeaderReply ==
  ASSUME StreamInv, ReplyInv, SendHeader, NEW c \in Client, c = conn
  PROVE  InPool(c)' => Answers(c)
<1> DEFINE b == buf[c].rest
           m == resp[c].mmbuf
           o == out[c]
<1>1. Visiting /\ IInv /\ RInv /\ SentInv /\ resp[c].phase = "HEADER"
  BY DEF SendHeader, ServingStatic, At, Visiting, StreamInv
<1>2. /\ InPool(c) /\ ConnOK(c) /\ MsgType /\ cgi \in [Client -> CgiType]
      /\ resp[c] \in RespType
  BY <1>1, VisitFacts DEF RInv, IInv, CoreType
<1>3. /\ SendBufOK(buf[c]) /\ cgi[c].phase = "DISABLED"
  BY <1>1, <1>2 DEF ConnOK, Content, Reading, Static, Dynamic, Refused
<1>4. Answered(c)
  BY <1>2 DEF ReplyInv
<1>5. CASE DropConn(c)
  BY <1>1, <1>5 DEF DropConn, InPool, IInv, CoreType, PoolTypeOK
<1>6. CASE \E n \in {FALSE} : Finish(c, n, "max_fd")
  BY <1>6, FinishReply
<1>7. ASSUME NEW n \in SendResults(c, Len(b)), n > 0,
             Delivered(c, b, n),
             buf' = [buf EXCEPT ![c] = Advance(buf[c], n)],
             resp' = [resp EXCEPT ![c].phase = IF n = Len(b) THEN "BODY" ELSE resp[c].phase],
             UNCHANGED <<req, cgi>>, link' = link
      PROVE  Answers(c)
  <2>1. b \in Seq(OutUnit) /\ m \in Seq(OutUnit) /\ o \in Seq(OutUnit)
    BY <1>1, <1>2, <1>3 DEF SendBufOK, RespType, SentInv, OutTaken
  <2>2. n \in Nat /\ n <= Len(b) /\ n \in 0 .. Len(b)
    <3>1. Len(b) \in Nat
      BY <2>1
    <3>2. n \in Nat /\ n <= Len(b)
      BY <1>1, <1>7, <3>1, SentCount
    <3> QED
      BY <3>1, <3>2
  <2> DEFINE part == SubSeq(b, 1, n)
             rest == SubSeq(b, n + 1, Len(b))
  <2>3. /\ rest \in Seq(OutUnit) /\ Len(rest) = Len(b) - n
        /\ (o \o part) \o (rest \o m) = o \o (b \o m)
    <3> HIDE DEF b, m, o
    <3>1. /\ Skip(b, n) \in Seq(OutUnit) /\ Len(Skip(b, n)) = Len(b) - n
          /\ Cat(Cat(o, First(b, n)), Cat(Skip(b, n), m)) = Cat(o, Cat(b, m))
      BY <2>1, <2>2, MovedPart
    <3> QED
      BY <3>1 DEF Cat, First, Skip
  <2>4. buf'[c].rest = rest /\ resp'[c].mmbuf = m
        /\ resp'[c].phase = IF n = Len(b) THEN "BODY" ELSE "HEADER"
    BY <1>1, <1>2, <1>7 DEF MsgType, RespType, Advance
  <2>5. link[c] # "gone" => out'[c] = o \o part
    BY <1>1, <1>7 DEF Delivered, SentInv, OutTaken
  <2>6. Unsent(c) = b \o m
    BY <1>1 DEF Unsent
  <2> HIDE DEF part, rest, b, m, o
  <2>7. Unsent(c)' = rest \o m
    <3>1. CASE n = Len(b)
      <4>1. rest = << >>
        BY <2>2, <2>3, <3>1
      <4>2. rest \o m = m
        BY <2>1, <4>1, ConcatEmptySeq
      <4> QED
        BY <2>4, <3>1, <4>2 DEF Unsent
    <3>2. CASE n # Len(b)
      BY <2>4, <3>2 DEF Unsent
    <3> QED
      BY <3>1, <3>2
  <2>8. n # Len(b) => rest # << >>
    BY <2>2, <2>3
  <2>9. link[c] # "gone" => EndsWith(o \o (b \o m), FileReply(req[c])) /\ m # << >>
    BY <1>1, <1>4, <2>6 DEF Answered, o, m
  <2>10. m # << >>
    BY <1>1, <1>4 DEF Answered, m
  <2>11. link'[c] # "gone" => EndsWith(out'[c] \o Unsent(c)', FileReply(req'[c]))
    BY <1>7, <2>3, <2>5, <2>7, <2>9
  <2>12. Answered(c)'
    BY <1>3, <1>7, <2>4, <2>8, <2>10, <2>11 DEF Answered
  <2>13. Continued(c)
    BY <1>7, <2>3, <2>5, <2>6, <2>7 DEF Continued, o
  <2> QED
    BY <2>12, <2>13 DEF Answers
<1> QED
  <2>1. \/ DropConn(c)
        \/ Finish(c, FALSE, "max_fd")
        \/ \E n \in SendResults(c, Len(b)) :
             /\ n > 0 /\ Delivered(c, b, n)
             /\ buf' = [buf EXCEPT ![c] = Advance(buf[c], n)]
             /\ resp' = [resp EXCEPT ![c].phase = IF n = Len(b) THEN "BODY" ELSE resp[c].phase]
             /\ UNCHANGED <<req, cgi>> /\ link' = link
    BY DEF SendHeader, staticUnchanged, netVars
  <2> QED
    BY <1>5, <1>6, <1>7, <2>1

(* So does a part of the file.                                             *)
LEMMA SendBodyReply ==
  ASSUME StreamInv, ReplyInv, SendBody, NEW c \in Client, c = conn
  PROVE  InPool(c)' => Answers(c)
<1> DEFINE m == resp[c].mmbuf
           o == out[c]
           k == Least(BUFSZ, Len(m))
<1>1. Visiting /\ IInv /\ RInv /\ SentInv /\ resp[c].phase = "BODY"
  BY DEF SendBody, ServingStatic, At, Visiting, StreamInv
<1>2. /\ InPool(c) /\ ConnOK(c) /\ MsgType /\ cgi \in [Client -> CgiType]
      /\ resp[c] \in RespType
  BY <1>1, VisitFacts DEF RInv, IInv, CoreType
<1>3. cgi[c].phase = "DISABLED"
  BY <1>1, <1>2 DEF ConnOK, Content, Reading, Static, Dynamic, Refused
<1>4. Answered(c)
  BY <1>2 DEF ReplyInv
<1>5. CASE DropConn(c)
  BY <1>1, <1>5 DEF DropConn, InPool, IInv, CoreType, PoolTypeOK
<1>6. CASE Finish(c, FALSE, "max_fd")
  BY <1>6, FinishReply
<1>7. ASSUME NEW n \in SendResults(c, k), n > 0, n < Len(m),
             Delivered(c, m, n),
             resp' = [resp EXCEPT ![c].mmbuf = Skip(m, n)],
             UNCHANGED <<buf, req, cgi>>, link' = link
      PROVE  Answers(c)
  <2>1. m \in Seq(OutUnit) /\ o \in Seq(OutUnit)
    BY <1>1, <1>2 DEF RespType, SentInv, OutTaken
  <2>2. n \in Nat /\ n \in 0 .. Len(m)
    <3>1. Len(m) \in Nat /\ k \in Nat
      BY <2>1, ConnAssumption DEF Least
    <3> HIDE DEF k
    <3>2. n \in Nat
      BY <1>1, <1>7, <3>1, SentCount
    <3> QED
      BY <1>7, <3>1, <3>2
  <2> DEFINE part == SubSeq(m, 1, n)
             rest == Skip(m, n)
  <2>3. resp'[c].mmbuf = rest /\ resp'[c].phase = "BODY"
    BY <1>1, <1>2, <1>7 DEF MsgType, RespType
  <2>4. link[c] # "gone" => out'[c] = o \o part
    BY <1>1, <1>7 DEF Delivered, SentInv, OutTaken
  <2>5. Unsent(c) = m
    BY <1>1 DEF Unsent
  <2> HIDE DEF m, o
  <2>6. /\ rest \in Seq(OutUnit) /\ Len(rest) = Len(m) - n
        /\ (o \o part) \o rest = o \o m
    <3>1. /\ Skip(m, n) \in Seq(OutUnit) /\ Len(Skip(m, n)) = Len(m) - n
          /\ Cat(Cat(o, First(m, n)), Skip(m, n)) = Cat(o, m)
      <4>1. << >> \in Seq(OutUnit)
        OBVIOUS
      <4> QED
        BY <2>1, <2>2, <4>1, MovedPart
    <3> QED
      BY <3>1 DEF Cat, First
  <2> HIDE DEF part, rest
  <2>7. Unsent(c)' = rest
    BY <2>3 DEF Unsent
  <2>8. rest # << >>
    BY <1>7, <2>2, <2>6
  <2>9. link[c] # "gone" => EndsWith(o \o m, FileReply(req[c]))
    BY <1>1, <1>4, <2>5 DEF Answered, o
  <2>10. link'[c] # "gone" => EndsWith(out'[c] \o Unsent(c)', FileReply(req'[c]))
    BY <1>7, <2>4, <2>6, <2>7, <2>9
  <2>11. Answered(c)'
    BY <1>3, <1>7, <2>3, <2>8, <2>10 DEF Answered
  <2>12. Continued(c)
    BY <1>7, <2>4, <2>5, <2>6, <2>7 DEF Continued, o
  <2> QED
    BY <2>11, <2>12 DEF Answers
<1> QED
  <2>1. \/ DropConn(c)
        \/ Finish(c, FALSE, "max_fd")
        \/ \E n \in SendResults(c, k) :
             /\ n > 0 /\ n < Len(m) /\ Delivered(c, m, n)
             /\ resp' = [resp EXCEPT ![c].mmbuf = Skip(m, n)]
             /\ UNCHANGED <<buf, req, cgi>> /\ link' = link
    BY DEF SendBody, FileSent, staticUnchanged, netVars
  <2> QED
    BY <1>5, <1>6, <1>7, <2>1

(* The handlers that receive, give up or start a program leave no response *)
(* under way.                                                              *)
LEMMA ReceivingReply ==
  ASSUME StreamInv, NEW c \in Client, c = conn,
         HandshakeFail \/ RecvIgnore \/ RecvData
  PROVE  InPool(c)' => Answers(c)
<1>1. Receiving /\ IInv /\ RInv /\ WireInv
  BY DEF HandshakeFail, RecvIgnore, RecvData, StreamInv
<1>2. /\ Visiting /\ ConnOK(c) /\ MsgType /\ cgi \in [Client -> CgiType]
      /\ req[c].phase \in {"START", "HEADER", "BODY", "ABORT"}
      /\ cgi[c].phase \notin {"CGI_TO_SRV", "DONE"} /\ resp[c] \in RespType
      /\ cgi[c] \in CgiType
  BY <1>1, ReceivingFacts, VisitFacts DEF RInv, IInv, CoreType
<1>3. resp[c].phase \notin {"HEADER", "BODY"}
  BY <1>2 DEF ConnOK, Content, Reading, Static, Dynamic, Refused
<1>4. CASE DropConn(c)
  BY <1>1, <1>4 DEF DropConn, InPool, IInv, CoreType, PoolTypeOK
<1>5. ASSUME NEW rq, NEW status, ConnErr(c, rq, status), UNCHANGED cgi
      PROVE  Answers(c)
  <2>1. resp'[c].phase = "ABORT"
    BY <1>2, <1>5 DEF ConnErr, AbortResp, MsgType, RespType
  <2> QED
    BY <1>2, <1>5, <2>1, NothingOwed
<1>6. ASSUME UNCHANGED <<req, resp, cgi>> PROVE Answers(c)
  BY <1>2, <1>3, <1>6, NothingOwed
<1>7. ASSUME NEW rq, cgi' = [cgi EXCEPT ![c] = CgiParsed(cgi[c], rq)],
             resp' = [resp EXCEPT ![c] = RespParsed(resp[c], rq)]
      PROVE  Answers(c)
  <2>1. resp'[c].phase \in {resp[c].phase, "DISABLED"}
    BY <1>2, <1>7 DEF RespParsed, MsgType, RespType
  <2>2. cgi'[c].phase \in {cgi[c].phase, "DISABLED", "READY"}
    BY <1>2, <1>7 DEF CgiParsed, CgiType
  <2> QED
    BY <1>2, <1>3, <2>1, <2>2, NothingOwed
<1> QED
  BY <1>4, <1>5, <1>6, <1>7 DEF HandshakeFail, RecvIgnore, RecvData

(* A program is started, fed and read while its connection sends nothing;  *)
(* its output leaves the buffer before more is read.                       *)
LEMMA CgiReply ==
  ASSUME StreamInv, ReplyInv, NEW c \in Client, c = conn,
         \/ InitCgiNoPipe \/ InitCgiFail \/ InitCgi \/ WriteFail \/ WriteDone
         \/ FromCgi \/ FromCgiEof \/ FromCgiFail
  PROVE  Answers(c)
<1>1. Visiting /\ IInv /\ RInv /\ SentInv
  BY DEF InitCgiNoPipe, InitCgiFail, InitCgi, WriteFail, WriteDone, FromCgi, FromCgiEof,
         FromCgiFail, Streaming, At, Visiting, StreamInv
<1>2. /\ ConnOK(c) /\ MsgType /\ cgi \in [Client -> CgiType]
      /\ resp[c] \in RespType /\ cgi[c] \in CgiType /\ req[c] \in ReqType
      /\ proc \in [Client -> ProcType] /\ proc[c] \in ProcType
  BY <1>1, VisitFacts DEF RInv, IInv, CoreType, SentInv
<1>3. ASSUME cgi[c].phase \in {"READY", "SRV_TO_CGI", "CGI_TO_SRV"}
      PROVE  /\ resp[c].phase \notin {"HEADER", "BODY"}
             /\ cgi[c].phase = "SRV_TO_CGI" => cgi[c].buf_phase = "RECV"
  BY <1>2, <1>3, NewFacts DEF ConnOK, Content, Reading, Static, Dynamic, Refused
<1>4. ASSUME ConnErr(c, req[c], 500), cgi'[c].phase \notin {"CGI_TO_SRV", "DONE"}
      PROVE  Answers(c)
  <2>1. resp'[c].phase = "ABORT"
    BY <1>2, <1>4 DEF ConnErr, AbortResp, MsgType, RespType
  <2> QED
    BY <1>4, <2>1, NothingOwed
<1>5. CASE InitCgiNoPipe \/ InitCgiFail
  <2>1. CgiFailed
    BY <1>5 DEF InitCgiNoPipe, InitCgiFail
  <2>2. ConnErr(c, req[c], 500) /\ cgi'[c].phase = "ABORT"
    BY <1>2, <2>1 DEF CgiFailed, CgiType
  <2> QED
    BY <1>4, <2>2
<1>6. CASE InitCgi
  <2>1. cgi[c].phase = "READY" /\ cgi'[c].phase = "SRV_TO_CGI" /\ UNCHANGED resp
    BY <1>2, <1>6 DEF InitCgi, Starting, CgiType
  <2> QED
    BY <1>3, <2>1, NothingOwed
<1>7. CASE WriteFail
  <2>1. cgi[c].phase = "SRV_TO_CGI" /\ UNCHANGED cgi /\ ConnErr(c, req[c], 500)
    BY <1>1, <1>7 DEF WriteFail, At, IInv, Writing, conn
  <2> QED
    BY <1>4, <2>1
<1>8. CASE WriteDone
  <2>1. cgi[c].phase = "SRV_TO_CGI" /\ UNCHANGED resp
    BY <1>1, <1>8 DEF WriteDone, At, IInv, Writing, conn
  <2>2. cgi'[c].phase \in {"SRV_TO_CGI", "CGI_TO_SRV"} /\ cgi'[c].buf_phase = "RECV"
    BY <1>2, <1>3, <1>8, <2>1 DEF WriteDone, CgiType
  <2> QED
    BY <1>3, <2>1, <2>2 DEF Answered, Answers, Continued
<1>9. CASE FromCgi
  <2> DEFINE s == proc[c].stdout
             t == Take(s, BUFSZ)
  <2>1. /\ cgi[c].phase = "CGI_TO_SRV" /\ s # << >> /\ UNCHANGED resp
        /\ cgi'[c].phase = "CGI_TO_SRV" /\ buf'[c] = BufOf(t)
    BY <1>2, <1>9 DEF FromCgi, Streaming, CgiType, MsgType
  <2>2. s \in Seq(OutUnit)
    BY <1>2, ProcFacts
  <2> HIDE DEF s
  <2>3. t # << >>
    <3>1. Len(s) \in Nat /\ Len(s) > 0
      BY <2>1, <2>2
    <3>2. Least(BUFSZ, Len(s)) \in 1 .. Len(s)
      BY <3>1, ConnAssumption DEF Least
    <3>3. t \in Seq(OutUnit) /\ Len(t) = Least(BUFSZ, Len(s))
      BY <2>2, <3>2, SubSeqProperties DEF Take
    <3> QED
      BY <3>2, <3>3
  <2> HIDE DEF t
  <2>4. buf'[c].rest # << >>
    BY <2>1, <2>3 DEF BufOf
  <2> QED
    BY <1>3, <2>1, <2>4 DEF Answered, Answers, Continued
<1>10. CASE FromCgiEof
  <2>1. /\ cgi[c].phase = "CGI_TO_SRV" /\ UNCHANGED <<resp, proc>>
        /\ cgi'[c].phase = "DONE" /\ proc[c].stdout = << >> /\ proc[c].st = "exit"
    BY <1>2, <1>10 DEF FromCgiEof, Streaming, Hangup, CgiType
  <2> QED
    BY <1>3, <2>1 DEF Answered, Answers, Continued
<1>11. CASE FromCgiFail
  <2>1. ConnErr(c, req[c], 500) /\ cgi'[c].phase = "ABORT"
    BY <1>2, <1>11 DEF FromCgiFail, CgiType
  <2> QED
    BY <1>4, <2>1
<1> QED
  BY <1>5, <1>6, <1>7, <1>8, <1>9, <1>10, <1>11

(* Once the buffer is sent the program's output is read again.             *)
LEMMA ServingReply ==
  ASSUME StreamInv, ReplyInv, NEW c \in Client, c = conn,
         DynamicEnd \/ ServeDynamic \/ SendErrorPage
  PROVE  InPool(c)' => Answers(c)
<1>1. Visiting /\ IInv /\ RInv /\ SentInv
  BY DEF DynamicEnd, ServeDynamic, ServingDynamic, SendErrorPage, ServingStatic, At,
         Visiting, StreamInv
<1>2. /\ InPool(c) /\ ConnOK(c) /\ MsgType /\ cgi \in [Client -> CgiType]
      /\ cgi[c] \in CgiType
  BY <1>1, VisitFacts DEF RInv, IInv, CoreType
<1>3. CASE DropConn(c)
  BY <1>1, <1>3 DEF DropConn, InPool, IInv, CoreType, PoolTypeOK
<1>4. CASE DynamicEnd
  BY <1>4, FinishReply DEF DynamicEnd
<1>5. CASE ServeDynamic /\ ~DropConn(c)
  <2>1. /\ ~(buf[c].rest = << >> /\ cgi[c].phase = "DONE") /\ cgi[c].buf_phase = "SEND"
        /\ UNCHANGED <<resp, buf>>
        /\ \/ cgi' = [cgi EXCEPT ![c].buf_phase = "RECV"]
           \/ UNCHANGED cgi
    BY <1>5 DEF ServeDynamic, ServingDynamic, ResponseEnded
  <2>2. cgi[c].phase = "CGI_TO_SRV" /\ resp[c].phase = "DISABLED"
    BY <1>2, <2>1, NewFacts DEF ConnOK, Content, Reading, Static, Dynamic, Refused
  <2>3. Answered(c)
    BY <1>2 DEF ReplyInv
  <2>4. cgi'[c].phase = "CGI_TO_SRV"
    BY <1>2, <2>1, <2>2 DEF CgiType
  <2> QED
    BY <2>1, <2>2, <2>3, <2>4 DEF Answered, Answers, Continued
<1>6. CASE SendErrorPage /\ ~DropConn(c)
  <2>1. resp[c].phase = "ABORT"
    BY <1>6 DEF SendErrorPage
  <2>2. \/ Finish(c, FALSE, "max_fd")
        \/ UNCHANGED <<resp, cgi>>
    BY <1>6 DEF SendErrorPage, staticUnchanged
  <2>3. CASE UNCHANGED <<resp, cgi>>
    <3>1. cgi[c].phase \notin {"CGI_TO_SRV", "DONE"}
      BY <1>2, <2>1 DEF ConnOK, Content, Reading, Static, Dynamic, Refused
    <3> QED
      BY <2>1, <2>3, <3>1, NothingOwed
  <2> QED
    BY <2>2, <2>3, FinishReply
<1> QED
  BY <1>3, <1>4, <1>5, <1>6

(* ReplyInv is inductive, given StreamInv: a connection that is not visited*)
(* keeps what it holds and a new one holds nothing.                        *)
LEMMA InitReply == Init => ReplyInv
BY DEF Init, ReplyInv, InPool

(* The step of the invariant.                                              *)
LEMMA NextReply ==
  ASSUME StreamInv, StreamInv', ReplyInv, [Next]_vars
  PROVE  ReplyInv' /\ Moved
<1> USE DEF loopVars, poolVars, setVars, readyVars, fdVars, msgVars, tlsVars, netVars,
            ioVars
<1> SUFFICES ASSUME NEW c \in Client, InPool(c)' PROVE Answers(c)
  BY DEF ReplyInv, Answers, Moved
<1>1. IInv /\ RInv /\ SentInv /\ RInv'
  BY DEF StreamInv
<1>2. CASE InPool(c) /\ req'[c] = req[c] /\ resp'[c] = resp[c] /\ cgi'[c] = cgi[c]
             /\ buf'[c] = buf[c] /\ out'[c] = out[c]
  BY <1>2, AnsweredStays
<1>3. CASE ~AtTurn(c)
  <2>1. /\ req'[c] = req[c] /\ resp'[c] = resp[c] /\ cgi'[c] = cgi[c] /\ buf'[c] = buf[c]
        /\ out'[c] = out[c]
    BY <1>1, <1>3, OthersStay
  <2>2. CASE ~InPool(c)
    <3>1. resp[c] = NewResp /\ cgi[c] = NewCgi
      BY <1>1, <2>2 DEF RInv, Fresh
    <3> QED
      BY <2>1, <3>1, NewFacts, NothingOwed
  <2> QED
    BY <1>2, <2>1, <2>2
<1>4. CASE AtTurn(c)
  <2>1. Visiting /\ c = conn /\ InPool(c)
    BY <1>1, <1>4, VisitFacts DEF AtTurn
  <2>2. CASE UNCHANGED <<msgVars, out>>
    BY <1>2, <2>1, <2>2
  <2>3. CASE \/ RecvSkip \/ Handshake \/ LogErr \/ InitCgiSkip \/ ForSelect \/ ToCgi
             \/ WriteSome \/ WriteShort \/ FromCgiSkip \/ DynamicSkip \/ StaticSkip \/ MaxFd
    <3>1. UNCHANGED <<msgVars, out>>
      BY <2>3 DEF RecvSkip, Handshake, LogErr, InitCgiSkip, ForSelect, ToCgi, WriteSome,
           WriteShort, FromCgiSkip, DynamicSkip, StaticSkip, MaxFd, writeUnchanged
    <3> QED
      BY <2>2, <3>1
  <2>4. CASE Select \/ AcceptSkip \/ AcceptRefuse \/ AcceptConn \/ LoopEnd
    <3>1. cur \in Nat /\ Len(conns) \in Nat
      BY <1>1 DEF IInv, CoreType, PoolTypeOK
    <3> QED
      BY <2>1, <2>4, <3>1 DEF Visiting, Select, AcceptSkip, AcceptRefuse, AcceptConn,
                              Accepting, LoopEnd
  <2>5. CASE Clients \/ Programs \/ UNCHANGED vars
    <3>1. UNCHANGED <<msgVars, out>>
      BY <2>5 DEF Clients, Connect, ClientSend, ClientRead, ClientHalfClose, ClientLeave,
           serverUnchanged, Programs, CgiRead, CgiEof, CgiWrite, CgiErr, CgiExit,
           cgiUnchanged, vars
    <3> QED
      BY <2>2, <3>1
  <2>6. CASE Prepare
    BY <2>1, <2>6, PrepareReply
  <2>7. CASE HandshakeFail \/ RecvIgnore \/ RecvData
    BY <2>1, <2>7, ReceivingReply
  <2>8. CASE \/ InitCgiNoPipe \/ InitCgiFail \/ InitCgi \/ WriteFail \/ WriteDone
             \/ FromCgi \/ FromCgiEof \/ FromCgiFail
    BY <2>1, <2>8, CgiReply
  <2>9. CASE DynamicEnd \/ ServeDynamic \/ SendErrorPage
    BY <2>1, <2>9, ServingReply
  <2>10. CASE SendHeader \/ SendBody
    BY <2>1, <2>10, SendHeaderReply, SendBodyReply
  <2> QED
    BY <2>3, <2>4, <2>5, <2>6, <2>7, <2>8, <2>9, <2>10 DEF Next, Server
<1> QED
  BY <1>3, <1>4

(* ReplyInv is an inductive invariant beside StreamInv: a response under way*)
(* is complete but for what is left of its buffer and its file.            *)
THEOREM ReplyInvariant == Spec => [](StreamInv /\ ReplyInv)
<1>1. Init => ReplyInv
  BY InitReply
<1>2. StreamInv /\ StreamInv' /\ ReplyInv /\ [Next]_vars => ReplyInv'
  BY NextReply
<1> QED
  BY <1>1, <1>2, StreamInvariant, PTL DEF Spec

(* Between two of its sends nothing of it is lost, repeated or overtaken    *)
(* (conn.c cn_serve_static, response.c resp_hdr).                          *)
THEOREM FilesGoOutOnce == Spec => FilesOnce
<1> DEFINE A == \A c \in Client :
                  /\ InPool(c)' /\ resp[c].phase \in {"HEADER", "BODY"}
                  /\ resp'[c].phase \in {"HEADER", "BODY"} /\ link'[c] # "gone"
                  => out'[c] \o Unsent(c)' = out[c] \o Unsent(c)
<1>1. StreamInv /\ StreamInv' /\ ReplyInv /\ [Next]_vars => [A]_vars
  BY NextReply DEF Moved, Continued
<1> QED
  BY <1>1, ReplyInvariant, PTL DEF Spec, FilesOnce

(* A file goes out whole and in order over any number of partial sends,    *)
(* whatever other connections do in between (conn.c cn_serve_static).      *)
THEOREM FilesGoOutWhole == Spec => []FilesWhole
<1>1. ReplyInv => FilesWhole
  BY DEF ReplyInv, Answered, FilesWhole
<1> QED
  BY <1>1, ReplyInvariant, PTL

-----------------------------------------------------------------------------
(* The ready sets                                                          *)

(* A handler that keeps the connection visited: its socket may be read, and*)
(* once something was sent to it, nothing more is sent in this visit.      *)
Handles ==
  /\ UNCHANGED <<read_ready, write_ready, cur, conns, idx, fd, link, taken>>
  /\ pc' \notin {"select", "accept", "accept_ssl", "recv"}
  /\ inq' = inq \/ \E x : inq' = [inq EXCEPT ![conn] = x]
  /\ \/ UNCHANGED out /\ pc \notin {"static", "max_fd"}
     \/ pc' = "max_fd"
     \/ pc' = "static" /\ resp'[conn].phase = "DISABLED"

Drops == Visiting /\ DropConn(conn) /\ UNCHANGED <<readyVars, netVars>>

(* What a handler does: it keeps the connection or drops it.               *)
LEMMA VisitKinds ==
  ASSUME StreamInv, Server, Visiting
  PROVE  MaxFd \/ Drops \/ Handles
<1> USE DEF loopVars, poolVars, setVars, readyVars, fdVars, msgVars, tlsVars, netVars,
            ioVars
<1>1. ASSUME NEW clear, NEW next, next \in {"static", "max_fd"}, Finish(conn, clear, next),
             UNCHANGED <<readyVars, netVars>>,
             next = "static" => UNCHANGED out /\ pc \notin {"static", "max_fd"}
      PROVE  Drops \/ Handles
  <2>1. CASE DropConn(conn)
    BY <1>1, <2>1 DEF Drops
  <2>2. CASE ~DropConn(conn)
    BY <1>1, <2>2 DEF Finish, Handles
  <2> QED
    BY <2>1, <2>2
<1>2. CASE Select \/ AcceptSkip \/ AcceptRefuse \/ AcceptConn \/ LoopEnd
  <2>1. cur \in Nat /\ Len(conns) \in Nat
    BY LenProperties DEF StreamInv, IInv, CoreType, PoolTypeOK
  <2> QED
    BY <1>2, <2>1 DEF Select, AcceptSkip, AcceptRefuse, AcceptConn, Accepting, LoopEnd,
                      Visiting
<1>3. CASE RecvSkip \/ LogErr \/ InitCgiSkip \/ InitCgi \/ ForSelect
  BY <1>3 DEF RecvSkip, LogErr, InitCgiSkip, InitCgi, ForSelect, At, Handles
<1>4. CASE Prepare
  BY <1>4 DEF Prepare, At, Handles
<1>5. CASE Handshake
  <2>1. inq' = inq \/ \E x : inq' = [inq EXCEPT ![conn] = x]
    BY <1>5 DEF Handshake
  <2> QED
    BY <1>5, <2>1 DEF Handshake, Receiving, At, Handles
<1>6. CASE HandshakeFail
  BY <1>6 DEF HandshakeFail, Drops
<1>7. CASE RecvIgnore
  <2>1. CASE Drops
    BY <2>1
  <2>2. CASE ~Drops
    <3>1. PICK r \in RecvResults(conn, BUFSZ) :
            /\ inq' = [inq EXCEPT ![conn] = r.inq]
            /\ pc' = "logerr"
            /\ UNCHANGED <<loopVars, poolVars, readyVars, fdVars, netVars, out>>
      BY <1>7, <2>2 DEF RecvIgnore, Drops
    <3> QED
      BY <1>7, <3>1 DEF RecvIgnore, Receiving, At, Handles
  <2> QED
    BY <2>1, <2>2
<1>8. CASE RecvData
  <2>1. CASE Drops
    BY <2>1
  <2>2. CASE ~Drops
    <3>1. PICK r \in RecvResults(conn, RecvRoom(conn)) :
            /\ inq' = [inq EXCEPT ![conn] = r.inq]
            /\ pc' = "logerr"
            /\ UNCHANGED <<loopVars, poolVars, readyVars, fdVars, netVars, out>>
      BY <1>8, <2>2 DEF RecvData, Drops
    <3> QED
      BY <1>8, <3>1 DEF RecvData, Receiving, At, Handles
  <2> QED
    BY <2>1, <2>2
<1>9. CASE InitCgiNoPipe \/ InitCgiFail
  BY <1>9 DEF InitCgiNoPipe, InitCgiFail, CgiFailed, At, Handles
<1>10. CASE ToCgi \/ WriteSome \/ WriteShort \/ WriteFail \/ WriteDone
  BY <1>10 DEF ToCgi, WriteSome, WriteShort, WriteFail, WriteDone, writeUnchanged, At,
               Handles
<1>11. CASE FromCgiSkip \/ FromCgi \/ FromCgiEof \/ FromCgiFail \/ DynamicSkip
  BY <1>11 DEF FromCgiSkip, FromCgi, FromCgiEof, FromCgiFail, DynamicSkip, Streaming, At,
               Handles
<1>12. CASE DynamicEnd
  BY <1>1, <1>12 DEF DynamicEnd, ServingDynamic, At
<1>13. CASE ServeDynamic
  <2>1. CASE Drops
    BY <2>1
  <2>2. CASE ~Drops
    <3>1. /\ pc' = "static"
          /\ UNCHANGED <<loopVars, poolVars, readyVars, fdVars, resp, netVars, inq>>
      BY <1>13, <2>2 DEF ServeDynamic, Drops
    <3>2. /\ req[conn].type = "DYNAMIC" /\ cgi[conn].buf_phase = "SEND"
          /\ Content(req[conn], resp[conn], cgi[conn], buf[conn])
      BY <1>13, VisitFacts DEF ServeDynamic, ServingDynamic, ConnOK, StreamInv
    <3>3. resp[conn].phase = "DISABLED"
      BY <3>2, NewFacts DEF Content, Reading, Static, Dynamic, Refused
    <3> QED
      BY <3>1, <3>3 DEF Handles
  <2> QED
    BY <2>1, <2>2
<1>14. CASE StaticSkip
  BY <1>14 DEF StaticSkip, Handles
<1>15. CASE SendErrorPage \/ SendHeader \/ SendBody
  <2>1. UNCHANGED <<readyVars, netVars>>
    BY <1>15 DEF SendErrorPage, SendHeader, SendBody
  <2>2. \/ DropConn(conn)
        \/ Finish(conn, FALSE, "max_fd")
        \/ pc' = "max_fd" /\ UNCHANGED staticUnchanged
    BY <1>15 DEF SendErrorPage, SendHeader, SendBody
  <2> QED
    BY <1>1, <2>1, <2>2 DEF staticUnchanged, Handles, Drops
<1> QED
  BY <1>2, <1>3, <1>4, <1>5, <1>6, <1>7, <1>8, <1>9, <1>10, <1>11, <1>12, <1>13, <1>14,
     <1>15 DEF Server

(* What was ready stays so: a client sends more, reads more or hangs up.   *)
StillReady(c) ==
  /\ fd'[c] = fd[c] /\ read_ready' = read_ready /\ write_ready' = write_ready
  /\ \/ link'[c] \in {link[c], "gone"}
     \/ link[c] = "open" /\ link'[c] = "half"
  /\ Unvisited(c)' => Unvisited(c) /\ (inq[c] # << >> => inq'[c] # << >>)
  /\ Unserved(c)' => Unserved(c) /\ (Room(c) > 0 => Room(c)' > 0)

(* So what ReadyInv says of the connection holds after it.                 *)
LEMMA StillReadyFacts ==
  ASSUME ReadyInv, NEW c \in Client, StillReady(c), InPool(c)'
  PROVE  /\ Unvisited(c)' /\ fd'[c] \in read_ready' => inq'[c] # << >> \/ link'[c] # "open"
         /\ Unserved(c)' /\ fd'[c] \in write_ready' => Room(c)' > 0 \/ link'[c] = "gone"
BY DEF ReadyInv, StillReady, InPool

(* The steps of the visit.                                                 *)
LEMMA VisitReady ==
  ASSUME StreamInv, ReadyInv, [Next]_vars, Visiting, MaxFd \/ Drops \/ Handles
  PROVE  ReadyInv'
<1> DEFINE k == conn
<1>1. /\ IInv /\ RInv /\ SentInv /\ WireInv /\ CoreType /\ PoolIndexed
      /\ k \in Client /\ idx[k] = cur /\ InPool(k)
      /\ idx \in [Client -> Nat] /\ cur \in Nat \ {0} /\ Len(conns) \in Nat
      /\ cur <= Len(conns) /\ pc \notin {"select", "accept", "accept_ssl"}
      /\ fd \in [Client -> Fd \cup {NoFd}] /\ inq \in [Client -> Seq(WireUnit)]
  BY VisitFacts, LenProperties DEF StreamInv, IInv, CoreType, PoolTypeOK, Visiting, WireInv
<1>2. ASSUME NEW c \in Client, c # k
      PROVE  out'[c] = out[c] /\ (AcceptConn \/ fd'[c] = fd[c])
  <2>1. ~AtTurn(c)
    BY <1>2 DEF AtTurn
  <2> QED
    BY <1>1, <2>1, OthersStay
<1>3. ~AcceptConn
  BY <1>1 DEF AcceptConn, Accepting
<1>4. pc' \notin {"accept", "accept_ssl"} /\ read_ready' = read_ready
      /\ write_ready' = write_ready /\ link' = link /\ taken' = taken
  BY DEF MaxFd, Drops, DropConn, Revisit, Handles, readyVars, netVars
<1>5. ASSUME NEW c \in Client, InPool(c)' PROVE StillReady(c)
  <2>1. CASE MaxFd
    <3>1. /\ pc = "max_fd" /\ pc' = "recv" /\ cur' = cur + 1
          /\ UNCHANGED <<idx, fd, inq, out>>
      BY <2>1 DEF MaxFd, At, poolVars, fdVars, ioVars
    <3>2. idx[c] >= cur + 1 <=> idx[c] > cur
      BY <1>1
    <3>3. /\ Unvisited(c)' => Unvisited(c)
          /\ Unserved(c)' => Unserved(c)
      BY <1>1, <3>1, <3>2 DEF Unvisited, Unserved
    <3>4. Room(c)' = Room(c)
      BY <1>4, <3>1 DEF Room
    <3> QED
      BY <1>4, <3>1, <3>3, <3>4 DEF StillReady
  <2>2. CASE Handles
    <3>1. /\ UNCHANGED <<cur, idx, fd>>
          /\ pc' \notin {"select", "accept", "accept_ssl", "recv"}
      BY <2>2 DEF Handles
    <3>2. CASE c # k
      <4>1. inq'[c] = inq[c] /\ out'[c] = out[c]
        BY <1>1, <1>2, <2>2, <3>2 DEF Handles
      <4>2. idx[c] # cur
        <5>1. PICK i \in 1 .. Len(conns) : conns[i] = c /\ idx[c] = i
          BY <1>1, <1>5, <3>1 DEF PoolIndexed, InPool
        <5> QED
          BY <3>2, <5>1 DEF conn
      <4>3. /\ Unvisited(c)' => Unvisited(c)
            /\ Unserved(c)' => Unserved(c)
        BY <1>1, <3>1, <4>2 DEF Unvisited, Unserved
      <4>4. Room(c)' = Room(c)
        BY <1>4, <4>1 DEF Room
      <4> QED
        BY <1>4, <3>1, <4>1, <4>3, <4>4 DEF StillReady
    <3>3. CASE c = k
      <4>1. ~Unvisited(c)'
        BY <1>1, <3>1, <3>3 DEF Unvisited
      <4>2. ASSUME Unserved(c)' PROVE Unserved(c) /\ out' = out
        <5>1. pc' # "max_fd" /\ (pc' = "static" => resp'[c].phase # "DISABLED")
          BY <1>1, <3>1, <3>3, <4>2 DEF Unserved
        <5>2. UNCHANGED out /\ pc \notin {"static", "max_fd"}
          BY <2>2, <3>3, <5>1 DEF Handles
        <5> QED
          BY <1>1, <3>3, <5>2 DEF Unserved
      <4>3. Unserved(c)' => Room(c)' = Room(c)
        BY <1>4, <4>2 DEF Room
      <4> QED
        BY <1>4, <3>1, <4>1, <4>2, <4>3 DEF StillReady
    <3> QED
      BY <3>2, <3>3
  <2>3. CASE Drops
    <3>1. /\ UNCHANGED cur /\ pc' = "recv" /\ idx' = DelIdx(k)
          /\ fd' = [fd EXCEPT ![k] = NoFd] /\ inq' = [inq EXCEPT ![k] = << >>]
      BY <2>3 DEF Drops, DropConn, Revisit, loopVars
    <3>2. c # k /\ fd'[c] = fd[c] /\ inq'[c] = inq[c] /\ out'[c] = out[c]
      BY <1>1, <1>2, <1>5, <3>1 DEF InPool
    <3>3. PICK i \in 1 .. Len(conns) : conns[i] = c /\ idx[c] = i
      BY <1>1, <1>5, <3>2 DEF PoolIndexed, InPool
    <3>4. i # cur
      BY <3>2, <3>3 DEF conn
    <3>5. idx'[c] = idx[c] \/ c = conns[Len(conns)]
      BY <1>1, <3>1, <3>2 DEF DelIdx
    <3>6. idx'[c] >= cur => idx[c] > cur
      <4>1. CASE idx'[c] = idx[c]
        BY <1>1, <3>3, <3>4, <4>1
      <4>2. CASE c = conns[Len(conns)]
        <5>1. Len(conns) \in 1 .. Len(conns)
          BY <1>1
        <5>2. idx[c] = Len(conns)
          BY <1>1, <4>2, <5>1 DEF PoolIndexed
        <5> QED
          BY <1>1, <3>3, <3>4, <5>2
      <4> QED
        BY <3>5, <4>1, <4>2
    <3>7. idx' \in [Client -> Nat]
      <4>1. conns[Len(conns)] \in Client
        BY <1>1 DEF CoreType, PoolTypeOK
      <4> QED
        BY <1>1, <3>1 DEF DelIdx
    <3>8. Unvisited(c)' \/ Unserved(c)' => idx'[c] >= cur
      <4>1. idx'[c] \in Nat /\ cur \in Nat /\ cur' = cur /\ pc' = "recv"
        BY <1>1, <3>1, <3>7
      <4> QED
        BY <4>1 DEF Unvisited, Unserved
    <3>9. /\ Unvisited(c)' => Unvisited(c)
          /\ Unserved(c)' => Unserved(c)
      BY <1>1, <3>6, <3>8 DEF Unvisited, Unserved, Visiting
    <3>10. Room(c)' = Room(c)
      BY <1>4, <3>2 DEF Room
    <3> QED
      BY <1>4, <3>2, <3>9, <3>10 DEF StillReady
  <2> QED
    BY <2>1, <2>2, <2>3
<1> QED
  BY <1>4, <1>5, StillReadyFacts DEF ReadyInv

(* select finds what is readable and writable, of open descriptors.        *)
LEMMA SelectReady ==
  ASSUME StreamInv, Select
  PROVE  ReadyInv'
<1>1. /\ FdsOwned /\ SelectSetsOpen
      /\ pc' = "accept" /\ UNCHANGED <<fd, fdt, inq, link, out, taken>>
      /\ \A f \in read_ready' : f \in read_set /\ Readable(f)
      /\ \A f \in write_ready' : f \in write_set /\ Writable(f)
  BY DEF StreamInv, IInv, Select, fdVars, ioVars, netVars
<1>2. ASSUME NEW c \in Client, InPool(c)
      PROVE  /\ fd[c] \in read_ready' => inq[c] # << >> \/ link[c] # "open"
             /\ fd[c] \in write_ready' => Room(c) > 0 \/ link[c] = "gone"
  <2>1. fdt[fd[c]] = Own(c, "sock")
    BY <1>1, <1>2 DEF FdsOwned, InPool
  <2>2. Own(c, "sock").what = "sock" /\ Own(c, "sock").who = c
    BY DEF Own
  <2> QED
    BY <1>1, <2>1, <2>2 DEF Readable, Writable
<1>3. ASSUME NEW f \in read_ready' \cup write_ready' PROVE fdt[f] # Free
  BY <1>1, OwnFacts DEF SelectSetsOpen
<1>4. ASSUME NEW c \in Client PROVE InPool(c)' <=> InPool(c)
  BY <1>1 DEF InPool
<1>5. ASSUME NEW c \in Client PROVE Room(c)' = Room(c)
  BY <1>1 DEF Room
<1> QED
  BY <1>1, <1>2, <1>3, <1>4, <1>5 DEF ReadyInv

(* A client refused was in no pool; one accepted gets a descriptor that was*)
(* not found ready.                                                        *)
LEMMA AcceptReady ==
  ASSUME StreamInv, ReadyInv, AcceptSkip \/ AcceptRefuse \/ AcceptConn
  PROVE  ReadyInv'
<1>1. /\ pc \in {"accept", "accept_ssl"} /\ pc' \in {"accept_ssl", "recv"}
      /\ UNCHANGED <<read_ready, write_ready, link, out, taken>>
      /\ IInv /\ CoreType /\ FdsOwned /\ Newcomers /\ inq \in [Client -> Seq(WireUnit)]
  BY DEF AcceptSkip, AcceptRefuse, AcceptConn, Accepting, AfterAccept, readyVars, netVars,
         ioVars, StreamInv, IInv, WireInv
<1>2. ASSUME NEW c \in Client PROVE Unvisited(c) /\ Unserved(c) /\ Room(c)' = Room(c)
  BY <1>1 DEF Unvisited, Unserved, Room
<1>3. CASE AcceptSkip \/ AcceptRefuse
  <2>1. UNCHANGED <<fd, fdt>>
    BY <1>3 DEF AcceptSkip, AcceptRefuse, fdVars
  <2>2. ASSUME NEW c \in Client, InPool(c) PROVE inq'[c] = inq[c]
    <3>1. c \notin backlog
      BY <1>1, <2>2 DEF Newcomers, InPool
    <3> QED
      BY <1>1, <1>3, <3>1 DEF AcceptSkip, AcceptRefuse, Waiting, ioVars
  <2> QED
    BY <1>1, <1>2, <2>1, <2>2 DEF ReadyInv, InPool
<1>4. CASE AcceptConn
  <2>1. PICK k \in Client, f \in FreeFds :
          /\ k \in backlog /\ fd' = [fd EXCEPT ![k] = f] /\ inq' = inq
          /\ fdt' = [fdt EXCEPT ![f] = Own(k, "sock")]
    BY <1>1, <1>4 DEF AcceptConn, Waiting, ioVars, CoreType
  <2>2. f \in Fd /\ fdt[f] = Free /\ f \notin read_ready \cup write_ready
    BY <1>1 DEF ReadyInv, FreeFds
  <2>3. /\ fd \in [Client -> Fd \cup {NoFd}] /\ fdt \in [Fd -> Desc]
    BY <1>1 DEF CoreType, PoolTypeOK
  <2>4. fd'[k] = f /\ \A c \in Client \ {k} : fd'[c] = fd[c]
    BY <2>1, <2>3
  <2>5. \A g \in read_ready \cup write_ready : fdt'[g] # Free
    <3> SUFFICES ASSUME NEW g \in read_ready \cup write_ready PROVE fdt'[g] # Free
      OBVIOUS
    <3>1. g # f /\ fdt[g] # Free /\ read_ready \cup write_ready \subseteq Fd
      BY <1>1, <2>2 DEF ReadyInv, CoreType, PoolTypeOK
    <3> QED
      BY <2>1, <2>3, <3>1
  <2>6. ASSUME NEW c \in Client, InPool(c)'
        PROVE  /\ fd'[c] \in read_ready => inq[c] # << >> \/ link[c] # "open"
               /\ fd'[c] \in write_ready => Room(c) > 0 \/ link[c] = "gone"
    <3>1. CASE c = k
      BY <2>2, <2>4, <3>1
    <3>2. CASE c # k
      <4>1. fd'[c] = fd[c] /\ InPool(c)
        BY <2>4, <2>6, <3>2 DEF InPool
      <4> QED
        BY <1>2, <4>1 DEF ReadyInv
    <3> QED
      BY <3>1, <3>2
  <2> QED
    BY <1>1, <1>2, <2>1, <2>5, <2>6 DEF ReadyInv
<1> QED
  BY <1>3, <1>4

(* A client that moves makes its socket no less ready.                     *)
LEMMA ClientsReady ==
  ASSUME StreamInv, ReadyInv, Clients \/ Programs \/ UNCHANGED vars
  PROVE  ReadyInv'
<1>1. /\ CoreType /\ inq \in [Client -> Seq(WireUnit)] /\ sent \in [Client -> Nat]
      /\ OutTaken
  BY DEF StreamInv, IInv, WireInv, SentInv
<1>2. UNCHANGED <<pc, cur, idx, fd, fdt, resp, read_ready, write_ready, out>>
  BY DEF Clients, Connect, ClientSend, ClientRead, ClientHalfClose, ClientLeave, Programs,
         CgiRead, CgiEof, CgiWrite, CgiErr, CgiExit, cgiUnchanged, serverUnchanged, vars,
         loopVars, poolVars, readyVars, fdVars, msgVars, ioVars
<1>3. ASSUME NEW c \in Client, InPool(c)
      PROVE  /\ \/ link'[c] \in {link[c], "gone"}
                \/ link[c] = "open" /\ link'[c] = "half"
             /\ inq[c] # << >> => inq'[c] # << >>
             /\ taken[c] <= taken'[c]
  <2>1. link[c] # "off" /\ taken[c] <= Len(out[c]) /\ taken \in [Client -> Nat]
        /\ out[c] \in Seq(OutUnit)
    BY <1>1, <1>3 DEF StreamInv, IInv, Newcomers, InPool, OutTaken
  <2>2. CASE Programs \/ UNCHANGED vars
    <3>1. UNCHANGED <<link, inq, taken>>
      BY <2>2 DEF Programs, CgiRead, CgiEof, CgiWrite, CgiErr, CgiExit, cgiUnchanged, vars,
                  netVars, ioVars
    <3> QED
      BY <2>1, <3>1
  <2>3. CASE Clients
    <3>1. PICK d \in Client : \/ Connect(d) \/ ClientSend(d) \/ ClientRead(d)
                              \/ ClientHalfClose(d) \/ ClientLeave(d)
      BY <2>3 DEF Clients
    <3>2. CASE Connect(d) \/ ClientRead(d) \/ ClientHalfClose(d) \/ ClientLeave(d)
      <4>1. inq' = inq
        BY <3>2 DEF Connect, ClientRead, ClientHalfClose, ClientLeave, ioVars
      <4>2. \/ link'[c] \in {link[c], "gone"}
            \/ link[c] = "open" /\ link'[c] = "half"
        BY <1>1, <2>1, <3>2 DEF Connect, ClientRead, ClientHalfClose, ClientLeave, CoreType
      <4>3. taken'[c] = taken[c] \/ taken'[c] = Len(out[c])
        BY <2>1, <3>2 DEF Connect, ClientRead, ClientHalfClose, ClientLeave
      <4> QED
        BY <2>1, <4>1, <4>2, <4>3, LenProperties
    <3>3. CASE ClientSend(d)
      <4>1. link' = link /\ taken' = taken
        BY <3>3 DEF ClientSend
      <4>2. d # c \/ inq'[c] = inq[c] => inq'[c] = inq[c]
        BY <1>1, <3>3 DEF ClientSend
      <4>3. ASSUME d = c, inq'[c] # inq[c]
            PROVE  inq[c] # << >> => inq'[c] # << >>
        <5> DEFINE s == Segments[c][sent[c] + 1]
        <5>1. inq'[c] = inq[c] \o s
          BY <1>1, <3>3, <4>3 DEF ClientSend
        <5>2. s \in Seq(WireUnit)
          <6>1. sent[c] + 1 \in 1 .. Len(Segments[c]) /\ Segments[c] \in Seq(Seq(WireUnit))
            <7>1. Segments[c] \in Seq(Seq(WireUnit))
              BY LisoAssumption
            <7>2. sent[c] < Len(Segments[c]) /\ sent[c] \in Nat /\ Len(Segments[c]) \in Nat
              BY <1>1, <3>3, <4>3, <7>1, LenProperties DEF ClientSend
            <7> QED
              BY <7>1, <7>2
          <6> QED
            BY <6>1
        <5>3. inq[c] \in Seq(WireUnit)
          BY <1>1
        <5> HIDE DEF s
        <5>4. Len(inq'[c]) = Len(inq[c]) + Len(s) /\ Len(s) \in Nat /\ Len(inq[c]) \in Nat
          BY <5>1, <5>2, <5>3, ConcatProperties, LenProperties
        <5>5. inq[c] # << >> => Len(inq[c]) > 0
          BY <5>3, EmptySeq, LenProperties
        <5> QED
          BY <5>4, <5>5
      <4> QED
        BY <2>1, <4>1, <4>2, <4>3
    <3> QED
      BY <3>1, <3>2, <3>3
  <2> QED
    BY <2>2, <2>3
<1>4. ASSUME NEW c \in Client, InPool(c)' PROVE StillReady(c)
  <2>1. InPool(c) /\ taken[c] \in Nat /\ Len(out[c]) \in Nat /\ taken'[c] \in Int
    <3>1. taken' \in [Client -> Nat]
      BY NextTaken DEF Next, StreamInv, OutTaken
    <3> QED
      BY <1>1, <1>2, <1>4, <3>1, LenProperties DEF InPool, OutTaken
  <2>2. Room(c) > 0 => Room(c)' > 0
    <3>1. taken[c] <= taken'[c] /\ SNDBUF \in Nat
      BY <1>3, <2>1, LisoAssumption
    <3> QED
      BY <1>2, <2>1, <3>1 DEF Room
  <2>3. /\ Unvisited(c)' <=> Unvisited(c)
        /\ Unserved(c)' <=> Unserved(c)
    BY <1>2 DEF Unvisited, Unserved
  <2> QED
    BY <1>2, <1>3, <2>1, <2>2, <2>3 DEF StillReady
<1> QED
  BY <1>2, <1>4, StillReadyFacts DEF ReadyInv

(* Every step keeps what was found ready ready.                            *)
LEMMA NextReady ==
  ASSUME StreamInv, ReadyInv, [Next]_vars
  PROVE  ReadyInv'
<1>1. CASE Select
  BY <1>1, SelectReady
<1>2. CASE AcceptSkip \/ AcceptRefuse \/ AcceptConn
  BY <1>2, AcceptReady
<1>3. CASE LoopEnd
  <2>1. pc' = "select"
    BY <1>3 DEF LoopEnd
  <2> QED
    BY <2>1 DEF ReadyInv, Unvisited, Unserved
<1>4. CASE Clients \/ Programs \/ UNCHANGED vars
  BY <1>4, ClientsReady
<1>5. CASE Server /\ Visiting
  BY <1>5, VisitKinds, VisitReady
<1>6. CASE Server /\ ~Visiting
  <2>1. Select \/ AcceptSkip \/ AcceptRefuse \/ AcceptConn \/ LoopEnd
    BY <1>6 DEF Server, Visiting, At, RecvSkip, Handshake, HandshakeFail, RecvIgnore,
       RecvData, Receiving, LogErr, Prepare, InitCgiSkip, InitCgiNoPipe, InitCgiFail,
       InitCgi, ForSelect, ToCgi, WriteSome, WriteShort, WriteFail, WriteDone,
       FromCgiSkip, FromCgi, FromCgiEof, FromCgiFail, Streaming, DynamicSkip, DynamicEnd,
       ServeDynamic, ServingDynamic, StaticSkip, SendErrorPage, SendHeader, SendBody,
       ServingStatic, MaxFd
  <2> QED
    BY <1>1, <1>2, <1>3, <2>1
<1> QED
  BY <1>4, <1>5, <1>6 DEF Next

(* ReadyInv is inductive along with what is known of the streams.          *)
THEOREM ReadyInvariant == Spec => [](StreamInv /\ ReplyInv /\ ReadyInv)
<1>1. Init => ReadyInv
  <2> SUFFICES ASSUME Init PROVE ReadyInv
    OBVIOUS
  <2>1. pc = "select" /\ read_ready = {} /\ write_ready = {}
    BY DEF Init
  <2> QED
    BY <2>1 DEF ReadyInv, Unvisited, Unserved
<1>2. StreamInv /\ ReadyInv /\ [Next]_vars => ReadyInv'
  BY NextReady
<1> QED
  BY <1>1, <1>2, ReplyInvariant, PTL DEF Spec

-----------------------------------------------------------------------------
(* Hanging up                                                              *)

(* What was found readable of a client that talks holds units to receive.  *)
LEMMA ReceivesSome ==
  ASSUME StreamInv, ReadyInv, Receiving, NEW c \in Client \ Tls, c = conn,
         link[c] = "open", NEW n \in Nat \ {0}, NEW r \in RecvResults(c, n)
  PROVE  r.data # << >>
<1>1. Visiting /\ pc = "recv" /\ fd[c] \in read_ready
  BY DEF Receiving, At, Visiting
<1>2. InPool(c) /\ idx[c] = cur
  BY <1>1, VisitFacts DEF StreamInv
<1>3. inq[c] # << >> /\ inq[c] \in Seq(InUnit) /\ ssl[c] = "none"
  BY <1>1, <1>2 DEF ReadyInv, Unvisited, StreamInv, WireInv
<1>4. r = RecvPlain(c, n)
  BY <1>3 DEF RecvResults
<1>5. r.data = Take(inq[c], n)
  BY <1>4 DEF RecvPlain
<1>6. Least(n, Len(inq[c])) \in 1 .. Len(inq[c])
  <2>1. Len(inq[c]) \in Nat \ {0}
    BY <1>3, EmptySeq, LenProperties
  <2> QED
    BY <2>1 DEF Least
<1>7. Len(Take(inq[c], n)) = Least(n, Len(inq[c]))
  <2> DEFINE s == inq[c]
             k == Least(n, Len(s))
  <2>1. \A i \in 1 .. k : s[i] \in InUnit
    BY <1>3, <1>6
  <2> HIDE DEF s, k
  <2>2. k \in Nat /\ 1 <= k
    BY <1>6 DEF k, s
  <2>3. Len(SubSeq(s, 1, k)) = k
    BY <2>1, <2>2, SubSeqProperties
  <2> QED
    BY <2>3 DEF Take, s, k
<1>8. Len(<< >>) = 0
  OBVIOUS
<1> QED
  BY <1>5, <1>6, <1>7, <1>8

(* So has a socket found writable room for something.                      *)
LEMMA SendsSome ==
  ASSUME StreamInv, ReadyInv, Visiting, NEW c \in Client \ Tls, c = conn,
         link[c] = "open", Unserved(c), fd[c] \in write_ready,
         NEW n \in Nat \ {0}, NEW k \in SendResults(c, n)
  PROVE  k # 0
<1>1. InPool(c) /\ ssl[c] = "none"
  BY VisitFacts DEF StreamInv, WireInv
<1>2. Room(c) > 0
  BY <1>1 DEF ReadyInv
<1>3. Room(c) \in Int
  BY LisoAssumption DEF StreamInv, SentInv, OutTaken, Room
<1>4. k = Least(Room(c), n)
  BY <1>1 DEF SendResults
<1> QED
  BY <1>2, <1>3, <1>4 DEF Least

(* Only a connection kept is reset.                                        *)
LEMMA FinishHangsUp ==
  ASSUME IInv, NEW c \in Client, InPool(c), NEW clear, NEW next, Finish(c, clear, next),
         fd'[c] = NoFd
  PROVE  ~req[c].alive
BY DEF Finish, InPool

(* What a client got when its connection is closed.                        *)
HungUp(c) ==
  /\ ~req[c].alive
  /\ \/ /\ resp[c].phase \in {"HEADER", "BODY"}
        /\ req[c].method = "HEAD" \/ EndsWith(out'[c], FileReply(req[c]))
     \/ /\ resp[c].phase = "ABORT"
        /\ EndsWith(out'[c], ErrorPage(req[c], resp[c]))
     \/ /\ cgi[c].phase = "DONE"
        /\ proc[c].st = "exit" /\ proc[c].stdout = << >>

(* All that was left, once sent, is behind what was sent before.           *)
LEMMA AllDelivered ==
  ASSUME SentInv, NEW c \in Client, link[c] # "gone", NEW s \in Seq(OutUnit),
         Delivered(c, s, Len(s))
  PROVE  out'[c] = out[c] \o s
<1>1. SubSeq(s, 1, Len(s)) = s
  BY SubSeqFull
<1>2. out' = [out EXCEPT ![c] = out[c] \o SubSeq(s, 1, Len(s))]
  BY DEF Delivered
<1>3. out'[c] = out[c] \o SubSeq(s, 1, Len(s))
  BY <1>2 DEF SentInv, OutTaken
<1> QED
  BY <1>1, <1>3

(* The handlers of the receiving side do not hang up on such a client.     *)
LEMMA ReceivingKeeps ==
  ASSUME StreamInv, ReadyInv, NEW c \in Client \ Tls, c = conn, link[c] = "open",
         HandshakeFail \/ RecvIgnore \/ RecvData
  PROVE  fd' = fd
<1>1. Receiving
  BY DEF HandshakeFail, RecvIgnore, RecvData
<1>2. InPool(c) /\ ssl[c] = "none" /\ ConnOK(c) /\ buf[c] \in BufType
  <2>1. Visiting
    BY <1>1 DEF Receiving, At, Visiting
  <2> QED
    BY <2>1, VisitFacts DEF StreamInv, WireInv
<1>3. CASE HandshakeFail
  BY <1>2, <1>3 DEF HandshakeFail
<1>4. CASE RecvIgnore
  <2>1. \A r \in RecvResults(c, BUFSZ) : r.data # << >>
    BY <1>1, ReceivesSome, ConnAssumption
  <2> QED
    BY <1>4, <2>1 DEF RecvIgnore, fdVars
<1>5. CASE RecvData
  <2>1. RecvRoom(c) \in Nat \ {0}
    <3>1. ~Overfull(c) /\ req[c].phase # "ABORT"
      BY <1>5 DEF RecvData, Ignored
    <3>2. BufSz(buf[c]) \in Nat
      BY <1>2, LenProperties DEF BufType, BufSz
    <3> QED
      BY <3>1, <3>2, ConnAssumption DEF Overfull, RecvRoom
  <2>2. \A r \in RecvResults(c, RecvRoom(c)) : r.data # << >>
    BY <1>1, <2>1, ReceivesSome
  <2> QED
    BY <1>5, <2>2 DEF RecvData, fdVars
<1> QED
  BY <1>3, <1>4, <1>5

(* A program's response is sent on while there is any; behind its last unit*)
(* the program is over.                                                    *)
LEMMA DynamicHangsUp ==
  ASSUME StreamInv, ReplyInv, ReadyInv, NEW c \in Client \ Tls, c = conn,
         link[c] = "open", DynamicEnd \/ ServeDynamic, fd'[c] = NoFd
  PROVE  HungUp(c)
<1>1. Visiting /\ pc = "dynamic" /\ fd[c] \in write_ready
      /\ req[c].type = "DYNAMIC" /\ cgi[c].buf_phase = "SEND"
  BY DEF DynamicEnd, ServeDynamic, ServingDynamic, At, Visiting
<1>2. /\ InPool(c) /\ idx[c] = cur /\ ConnOK(c) /\ Answered(c)
      /\ IInv /\ SentInv /\ fd[c] # NoFd
  BY <1>1, VisitFacts DEF ReplyInv, StreamInv, InPool
<1>3. CASE DynamicEnd
  <2>1. cgi[c].phase = "DONE" /\ Finish(c, TRUE, "static")
    BY <1>3 DEF DynamicEnd, ResponseEnded
  <2>2. ~req[c].alive
    BY <1>2, <2>1, FinishHangsUp
  <2> QED
    BY <1>2, <2>1, <2>2 DEF HungUp, Answered
<1>4. CASE ServeDynamic
  <2>1. Unserved(c)
    BY <1>1, <1>2 DEF Unserved
  <2>2. cgi[c].phase = "CGI_TO_SRV" /\ SendBufOK(buf[c])
    <3>1. cgi[c].phase = "DONE" => buf[c] = NewBuf
      BY <1>1, <1>2, NewFacts DEF ConnOK, Content, Reading, Static, Dynamic, Refused
    <3>2. ~(buf[c].rest = << >> /\ cgi[c].phase = "DONE")
      BY <1>4 DEF ServeDynamic, ResponseEnded
    <3>3. cgi[c].phase # "DONE"
      BY <3>1, <3>2, NewFacts
    <3> QED
      BY <1>1, <1>2, <3>3, NewFacts DEF ConnOK, Content, Reading, Static, Dynamic, Refused
  <2>3. Len(buf[c].rest) \in Nat \ {0}
    <3>1. buf[c].rest \in Seq(OutUnit) /\ buf[c].rest # << >>
      BY <1>1, <1>2, <2>2 DEF Answered, SendBufOK
    <3> QED
      BY <3>1, EmptySeq, LenProperties
  <2>4. \A n \in SendResults(c, Len(buf[c].rest)) : n # 0
    BY <1>1, <2>1, <2>3, SendsSome
  <2>5. fd' = fd
    BY <1>4, <2>4 DEF ServeDynamic, fdVars
  <2> QED
    BY <1>2, <2>5
<1> QED
  BY <1>3, <1>4

(* A file, or an error page, is sent to its end.                           *)
LEMMA StaticHangsUp ==
  ASSUME StreamInv, ReplyInv, ReadyInv, NEW c \in Client \ Tls, c = conn,
         link[c] = "open", SendErrorPage \/ SendHeader \/ SendBody, fd'[c] = NoFd
  PROVE  HungUp(c)
<1>1. Visiting /\ pc = "static" /\ fd[c] \in write_ready
      /\ resp[c].phase \in {"ABORT", "HEADER", "BODY"}
  BY DEF SendErrorPage, SendHeader, SendBody, ServingStatic, At, Visiting
<1>2. /\ InPool(c) /\ idx[c] = cur /\ ConnOK(c) /\ Answered(c)
      /\ IInv /\ SentInv /\ fd[c] # NoFd /\ out[c] \in Seq(OutUnit)
      /\ req[c] \in ReqType /\ resp[c] \in RespType
  BY <1>1, VisitFacts DEF ReplyInv, StreamInv, InPool, SentInv, OutTaken
<1>3. Unserved(c)
  BY <1>1, <1>2 DEF Unserved
<1>4. CASE SendErrorPage
  <2> DEFINE page == ErrorPage(req[c], resp[c])
  <2>1. page \in Seq(OutUnit) /\ Len(page) \in Nat \ {0}
    BY <1>2, ErrorPageFacts, ConnAssumption
  <2>2. \A n \in SendResults(c, Len(page)) : n # 0
    BY <1>1, <1>3, <2>1, SendsSome
  <2>3. resp[c].phase = "ABORT"
    BY <1>4 DEF SendErrorPage
  <2>4. Delivered(c, page, Len(page)) /\ Finish(c, FALSE, "max_fd")
    BY <1>2, <1>4, <2>2 DEF SendErrorPage, staticUnchanged, fdVars
  <2> HIDE DEF page
  <2>5. ~req[c].alive
    BY <1>2, <2>4, FinishHangsUp
  <2>6. out'[c] = out[c] \o page
    BY <1>2, <2>1, <2>4, AllDelivered
  <2>7. EndsWith(out'[c], page)
    BY <1>2, <2>1, <2>6, EndsWithPart
  <2> QED
    BY <2>3, <2>5, <2>7 DEF HungUp, page
<1>5. CASE SendHeader
  <2>1. resp[c].phase = "HEADER" /\ resp[c].mmbuf # << >> /\ SendBufOK(buf[c])
        /\ buf[c].rest # << >>
    BY <1>2, <1>5 DEF SendHeader, Answered, ConnOK, Content, Reading, Static, Dynamic,
                      Refused
  <2>2. Len(buf[c].rest) \in Nat \ {0}
    BY <2>1, EmptySeq, LenProperties DEF SendBufOK
  <2>3. \A n \in SendResults(c, Len(buf[c].rest)) : n # 0
    BY <1>1, <1>3, <2>2, SendsSome
  <2>4. req[c].method = "HEAD" /\ Finish(c, FALSE, "max_fd")
    BY <1>2, <1>5, <2>1, <2>3 DEF SendHeader, staticUnchanged, fdVars
  <2>5. ~req[c].alive
    BY <1>2, <2>4, FinishHangsUp
  <2> QED
    BY <2>1, <2>4, <2>5 DEF HungUp
<1>6. CASE SendBody
  <2> DEFINE m == resp[c].mmbuf
  <2>1. resp[c].phase = "BODY" /\ m # << >> /\ m \in Seq(OutUnit)
        /\ EndsWith(out[c] \o m, FileReply(req[c]))
    BY <1>2, <1>6 DEF SendBody, Answered, Unsent, RespType
  <2>2. Len(m) \in Nat \ {0} /\ Least(BUFSZ, Len(m)) \in Nat \ {0}
    BY <2>1, EmptySeq, LenProperties, ConnAssumption DEF Least
  <2>3. \A n \in SendResults(c, Least(BUFSZ, Len(m))) : n # 0
    BY <1>1, <1>3, <2>2, SendsSome
  <2>4. Delivered(c, m, Len(m)) /\ Finish(c, FALSE, "max_fd")
    BY <1>2, <1>6, <2>3 DEF SendBody, staticUnchanged, fdVars
  <2> HIDE DEF m
  <2>5. ~req[c].alive
    BY <1>2, <2>4, FinishHangsUp
  <2>6. out'[c] = out[c] \o m
    BY <1>2, <2>1, <2>4, AllDelivered
  <2> QED
    BY <2>1, <2>5, <2>6 DEF HungUp
<1> QED
  BY <1>4, <1>5, <1>6

(* Nobody else closes a socket.                                            *)
LEMMA WhoHangsUp ==
  ASSUME StreamInv, [Next]_vars, NEW c \in Client, InPool(c), fd'[c] = NoFd
  PROVE  /\ c = conn /\ Visiting
         /\ \/ HandshakeFail \/ RecvIgnore \/ RecvData
            \/ DynamicEnd \/ ServeDynamic
            \/ SendErrorPage \/ SendHeader \/ SendBody
<1> USE DEF fdVars
<1>1. AtTurn(c)
  BY OthersStay DEF StreamInv, InPool
<1>2. fd[c] # NoFd /\ fd'[c] # fd[c]
  BY DEF InPool
<1>3. CASE Select \/ AcceptSkip \/ AcceptRefuse \/ AcceptConn \/ RecvSkip \/ Handshake
  BY <1>1, <1>2, <1>3 DEF Select, AcceptSkip, AcceptRefuse, AcceptConn, Accepting, RecvSkip,
     Handshake, AtTurn, Visiting
<1>4. CASE LogErr \/ Prepare \/ InitCgiSkip \/ InitCgiNoPipe \/ InitCgiFail \/ InitCgi
  BY <1>2, <1>4 DEF LogErr, Prepare, InitCgiSkip, InitCgiNoPipe, InitCgiFail, CgiFailed,
     InitCgi
<1>5. CASE ForSelect \/ ToCgi \/ WriteSome \/ WriteShort \/ WriteFail \/ WriteDone
  BY <1>2, <1>5 DEF ForSelect, ToCgi, WriteSome, WriteShort, WriteFail, WriteDone,
     writeUnchanged
<1>6. CASE FromCgiSkip \/ FromCgi \/ FromCgiEof \/ FromCgiFail \/ DynamicSkip
  BY <1>2, <1>6 DEF FromCgiSkip, FromCgi, FromCgiEof, FromCgiFail, DynamicSkip
<1>7. CASE StaticSkip \/ MaxFd \/ LoopEnd \/ UNCHANGED vars
  BY <1>2, <1>7 DEF StaticSkip, MaxFd, LoopEnd, vars
<1>8. CASE Clients \/ Programs
  BY <1>2, <1>8 DEF Clients, Connect, ClientSend, ClientRead, ClientHalfClose, ClientLeave,
     Programs, CgiRead, CgiEof, CgiWrite, CgiErr, CgiExit, cgiUnchanged, serverUnchanged
<1> QED
  BY <1>1, <1>3, <1>4, <1>5, <1>6, <1>7, <1>8 DEF Next, Server, AtTurn

(* An http client that still talks is hung up on behind a response that has*)
(* ended, and because it asked for it: what select found readable or       *)
(* writable still is when the connection's turn comes, whatever was        *)
(* dropped, accepted, sent and received before (lisod.c main, conn.c       *)
(* cn_recv, cn_serve_static, cn_serve_dynamic).                            *)
THEOREM HungUpWhenOver == Spec => DroppedWhenOver
<1> DEFINE A == \A c \in Client \ Tls :
                  InPool(c) /\ fd'[c] = NoFd /\ link[c] = "open" => HungUp(c)
<1>1. StreamInv /\ ReplyInv /\ ReadyInv /\ [Next]_vars => [A]_vars
  <2> SUFFICES ASSUME StreamInv, ReplyInv, ReadyInv, [Next]_vars, NEW c \in Client \ Tls,
                      InPool(c), fd'[c] = NoFd, link[c] = "open"
               PROVE  HungUp(c)
    OBVIOUS
  <2>1. c = conn /\ fd'[c] # fd[c]
    BY WhoHangsUp DEF InPool
  <2> QED
    BY <2>1, WhoHangsUp, ReceivingKeeps, DynamicHangsUp, StaticHangsUp
<1> QED
  BY <1>1, ReadyInvariant, PTL DEF Spec, DroppedWhenOver, HungUp

-----------------------------------------------------------------------------
(* The length of a body                                                    *)

(* What the blank line settles: the whole body is still to come.           *)
Settled(s) == s.req.phase = "BODY" => s.req.rsize = s.req.clen /\ s.used > 0

(* The line that ends the header sets what is to come of the body.         *)
LEMMA SettledLine ==
  ASSUME NEW s, NEW n \in Nat, ParserOK(s, n), InHeader(s.req), ParseLine(s).req.phase = "BODY"
  PROVE  ParseLine(s).req.rsize = ParseLine(s).req.clen
<1> DEFINE rq == s.req
           t == ParseLine(s)
<1>1. /\ s \in ParserType /\ rq \in ReqType /\ rq.phase \in {"START", "HEADER"}
      /\ t.req.phase = "BODY"
  BY DEF ParserOK, InHeader, ParserType
<1>2. ASSUME NEW status, t = Refuse(s, status) PROVE FALSE
  <2>1. Refuse(s, status) = [s EXCEPT !.req = [rq EXCEPT !.phase = "ABORT"], !.status = status]
    BY <1>1 DEF Refuse, ParserType
  <2>2. [rq EXCEPT !.phase = "ABORT"].phase = "ABORT"
    BY <1>1 DEF ReqType
  <2> HIDE DEF t
  <2> QED
    BY <1>1, <1>2, <2>1, <2>2 DEF ParserType
<1>3. ASSUME NEW r \in ReqType, t = [s EXCEPT !.req = r] PROVE t.req = r
  BY <1>1, <1>3 DEF ParserType
<1>4. CASE rq.phase = "START"
  <2>1. t = StartLine(s)
    BY <1>4 DEF ParseLine
  <2>2. CASE s.line = << >> \/ s.line[1].k # "start" \/ s.line[1].method = "OTHER"
    <3>1. StartLine(s) \in {Refuse(s, 400), Refuse(s, 501)}
      BY <2>2 DEF StartLine
    <3> QED
      BY <1>2, <2>1, <3>1
  <2>3. CASE ~(s.line = << >> \/ s.line[1].k # "start" \/ s.line[1].method = "OTHER")
    <3> DEFINE m == s.line[1].method
               u == s.line[1].uri
               ty == IF u \in CgiUri THEN "DYNAMIC" ELSE "STATIC"
               r == [rq EXCEPT !.method = m, !.uri = u, !.type = ty]
               named == [s EXCEPT !.req.method = m, !.req.uri = u, !.req.type = ty]
    <3>1. StartLine(s) = IF Len(s.line) > 1 THEN Refuse(named, 400)
                         ELSE [named EXCEPT !.req.phase = "HEADER"]
      BY <2>3 DEF StartLine
    <3> HIDE DEF m, u, ty
    <3>2. named = [s EXCEPT !.req = r]
      BY <1>1 DEF ParserType
    <3>3. /\ [r EXCEPT !.phase = "ABORT"].phase = "ABORT"
          /\ [r EXCEPT !.phase = "HEADER"].phase = "HEADER"
      BY <1>1 DEF ReqType
    <3> HIDE DEF r, named
    <3>4. /\ Refuse(named, 400).req = [r EXCEPT !.phase = "ABORT"]
          /\ [named EXCEPT !.req.phase = "HEADER"].req = [r EXCEPT !.phase = "HEADER"]
      BY <1>1, <3>2 DEF Refuse, ParserType
    <3>5. t.req = [r EXCEPT !.phase = "ABORT"] \/ t.req = [r EXCEPT !.phase = "HEADER"]
      BY <2>1, <3>1, <3>4
    <3> HIDE DEF t
    <3> QED
      BY <1>1, <3>3, <3>5
  <2> QED
    BY <2>2, <2>3
<1>5. CASE rq.phase = "HEADER" /\ s.line = << >>
  <2>1. t = BlankLine(s)
    BY <1>5 DEF ParseLine
  <2> DEFINE a == [rq EXCEPT !.phase = "BODY", !.rsize = rq.clen]
             b == [rq EXCEPT !.phase = "BODY", !.clen = 0, !.rsize = 0]
  <2>2. a \in ReqType /\ a.rsize = a.clen
    BY <1>1 DEF ReqType
  <2>3. b.rsize = b.clen
    BY <1>1 DEF ReqType
  <2>4. b \in ReqType
    <3>1. ASSUME NEW x \in Int
          PROVE  [rq EXCEPT !.phase = "BODY", !.clen = x, !.rsize = x] \in ReqType
      BY <1>1 DEF ReqType
    <3>2. 0 \in Int
      OBVIOUS
    <3> QED
      BY <3>1, <3>2, Zenon
  <2>5. /\ [s EXCEPT !.req.phase = "BODY", !.req.rsize = s.req.clen] = [s EXCEPT !.req = a]
        /\ [s EXCEPT !.req.phase = "BODY", !.req.clen = 0, !.req.rsize = 0]
             = [s EXCEPT !.req = b]
    BY <1>1 DEF ParserType
  <2>6. BlankLine(s) \in {[s EXCEPT !.req = a], [s EXCEPT !.req = b], Refuse(s, 411)}
    BY <2>5 DEF BlankLine
  <2> HIDE DEF a, b
  <2> QED
    BY <1>2, <1>3, <2>1, <2>2, <2>3, <2>4, <2>6
<1>6. CASE rq.phase = "HEADER" /\ s.line # << >>
  <2> DEFINE n1 == Atoi(s.line[1].n)
             a == [rq EXCEPT !.clen = n1]
             b == [rq EXCEPT !.alive = FALSE]
  <2>1. t = FieldLine(s)
    BY <1>6 DEF ParseLine
  <2>2. FieldLine(s) \in {[s EXCEPT !.req.clen = n1], [s EXCEPT !.req.alive = FALSE],
                          s, Refuse(s, 400)}
    BY DEF FieldLine
  <2> HIDE DEF n1, t
  <2>3. a.phase = "HEADER" /\ b.phase = "HEADER"
    BY <1>1, <1>6 DEF ReqType
  <2>4. [s EXCEPT !.req.clen = n1].req = a /\ [s EXCEPT !.req.alive = FALSE].req = b
    BY <1>1 DEF ParserType
  <2> HIDE DEF a, b
  <2>5. CASE t = Refuse(s, 400)
    BY <1>2, <2>5
  <2>6. CASE t = [s EXCEPT !.req.clen = n1] \/ t = [s EXCEPT !.req.alive = FALSE] \/ t = s
    BY <1>1, <1>6, <2>3, <2>4, <2>6
  <2> QED
    BY <2>1, <2>2, <2>5, <2>6
<1> QED
  BY <1>1, <1>4, <1>5, <1>6

(* So does the unit that ends it.                                          *)
LEMMA SettledUnit ==
  ASSUME NEW s, NEW n \in Nat, ParserOK(s, n), Settled(s), NEW u \in InUnit
  PROVE  Settled(ParseUnit(s, u))
<1> DEFINE t == ParseUnit(s, u)
<1>0. s \in ParserType /\ s.used \in Nat /\ Len(s.line) \in Nat
  BY DEF ParserOK, ParserType
<1>1. CASE ~InHeader(s.req)
  BY <1>1 DEF ParseUnit, InHeader
<1>2. CASE InHeader(s.req) /\ u # LF
  <2>1. t = [s EXCEPT !.line = Append(s.line, u)]
    BY <1>2 DEF ParseUnit, InHeader
  <2>2. t.req = s.req
    BY <1>0, <2>1 DEF ParserType
  <2> QED
    BY <1>2, <2>2 DEF Settled, InHeader
<1>3. CASE InHeader(s.req) /\ u = LF
  <2> DEFINE v == ParseLine(s)
  <2>1. t = [v EXCEPT !.line = << >>, !.used = @ + Len(s.line) + 1]
    BY <1>3 DEF ParseUnit, InHeader
  <2>2. v \in ParserType /\ v.used = s.used
    BY <1>3, ParseLineFacts
  <2>3. v.req.phase = "BODY" => v.req.rsize = v.req.clen
    BY <1>3, SettledLine
  <2> HIDE DEF v
  <2>4. t.req = v.req /\ t.used = v.used + Len(s.line) + 1
    BY <2>1, <2>2 DEF ParserType
  <2> HIDE DEF t
  <2>5. t.used > 0
    BY <1>0, <2>2, <2>4
  <2> QED
    BY <2>3, <2>4, <2>5 DEF Settled, t
<1> QED
  BY <1>1, <1>2, <1>3

(* After any number of units a body that has begun is whole.               *)
LEMMA SettledParse ==
  ASSUME NEW rq, ReqOK(rq), InHeader(rq), NEW lines \in Seq(InUnit)
  PROVE  Settled(ReqParse(rq, lines))
<1> DEFINE N == Len(lines)
           st == ParserStates(rq, lines)
           S == {n \in Nat : n <= N => ParserOK(st[n], n) /\ Settled(st[n])}
<1>1. N \in Nat /\ \A n \in 1 .. N : lines[n] \in InUnit
  OBVIOUS
<1>2. /\ st[0] = ParserInit(rq)
      /\ \A n \in 1 .. N : st[n] = ParseUnit(st[n - 1], lines[n])
  BY <1>1, ParserStatesFacts
<1> HIDE DEF st, N
<1>3. 0 \in S
  <2>1. << >> \in Seq(InUnit) /\ Len(<< >>) = 0 /\ 0 \in ParserStatus
    BY DEF ParserStatus
  <2>2. /\ rq \in ReqType /\ rq.phase \notin {"BODY", "DONE", "ABORT"}
    BY DEF ReqOK, InHeader
  <2>3. ParserInit(rq) \in ParserType
    BY <2>1, <2>2 DEF ParserInit, ParserType
  <2>4. ParserOK(ParserInit(rq), 0)
    BY <2>1, <2>2, <2>3 DEF ParserInit, ParserOK
  <2>5. Settled(ParserInit(rq))
    BY <2>2 DEF ParserInit, Settled
  <2> QED
    BY <1>2, <2>4, <2>5
<1>4. ASSUME NEW n \in Nat, n \in S PROVE n + 1 \in S
  <2> SUFFICES ASSUME n + 1 <= N PROVE ParserOK(st[n + 1], n + 1) /\ Settled(st[n + 1])
    OBVIOUS
  <2>1. n <= N /\ n + 1 \in 1 .. N /\ (n + 1) - 1 = n
    BY <1>1
  <2>2. ParserOK(st[n], n) /\ Settled(st[n]) /\ lines[n + 1] \in InUnit
    BY <1>1, <1>4, <2>1
  <2>3. st[n + 1] = ParseUnit(st[n], lines[n + 1])
    BY <1>2, <2>1
  <2>4. ParserOK(st[n + 1], n + 1)
    BY <2>2, <2>3, ParseUnitFacts
  <2>5. Settled(st[n + 1])
    BY <2>2, <2>3, SettledUnit
  <2> QED
    BY <2>4, <2>5
<1> HIDE DEF S
<1>5. Settled(st[N])
  <2>1. Nat \subseteq S
    BY <1>3, <1>4, SetInduction
  <2> QED
    BY <1>1, <2>1 DEF S
<1> QED
  BY <1>5 DEF ReqParse, st, N

(* What follows the header is counted as body: what is buffered and still  *)
(* to come is no more than what was to come, and what exceeds the body does*)
(* not fill the buffer for the next request.                               *)
LEMMA BodyLength ==
  ASSUME NEW rq, ReqOK(rq), rq.phase = "BODY", NEW b, BufOK(b),
         NEW last \in Seq(InUnit), Len(last) < BUFSZ, b.p > 0 \/ rq.rsize > 0
  PROVE  LET r == ParseBody(rq, b, last)
         IN /\ Len(r.buf.rest) + Most(r.req.rsize, 0) <= rq.rsize
            /\ r.req.phase = "BODY" => r.req.rsize > 0
            /\ r.req.clen = rq.clen /\ Len(r.last) < BUFSZ
            /\ BufSz(r.buf) <= BufSz(b)
<1> DEFINE m == Len(b.rest)
           left == rq.rsize - m
           over == IF left < 0 THEN -left ELSE 0
           cut == m - over
           ph == IF left <= 0 THEN "DONE" ELSE "BODY"
           q == [rq EXCEPT !.rsize = left, !.phase = ph]
           more == SubSeq(b.rest, cut + 1, m)
           part == SubSeq(b.rest, 1, cut)
           d == [b EXCEPT !.rest = part]
           r == ParseBody(rq, b, last)
<1>1. /\ b \in [p: Nat, rest: Seq(InUnit)] /\ b.p \in Nat /\ b.rest \in Seq(InUnit)
      /\ m \in Nat /\ b.p + m <= BUFSZ /\ BUFSZ \in Nat
  BY ConnAssumption DEF BufOK, BufSz
<1>2. rq \in ReqType /\ rq.rsize \in Nat
  BY DEF ReqOK
<1>3. /\ left \in Int /\ cut \in 0 .. m /\ (left < 0 => m - cut = -left)
      /\ cut <= rq.rsize /\ (left > 0 => cut = m)
  BY <1>1, <1>2
<1>4. /\ r.req = q
      /\ (r.last = more /\ left < 0) \/ r.last = last
      /\ r.buf \in {NewBuf, d}
  BY DEF ParseBody
<1>5. ph = "BODY" <=> left > 0
  BY <1>3
<1>6. m = Len(b.rest) /\ left = rq.rsize - m
  OBVIOUS
<1> HIDE DEF r, ph, left, cut, m
<1>7. q.phase = ph /\ q.rsize = left /\ q.clen = rq.clen
  BY <1>2 DEF ReqType
<1> HIDE DEF q
<1>8. left < 0 => Len(more) < BUFSZ
  <2>1. \A i \in cut + 1 .. m : b.rest[i] \in InUnit
    BY <1>1, <1>3 DEF m
  <2>2. cut + 1 \in Int /\ m \in Int
    BY <1>1, <1>3
  <2>3. Len(more) = IF cut + 1 <= m THEN m - (cut + 1) + 1 ELSE 0
    BY <2>1, <2>2, SubSeqProperties
  <2> QED
    BY <1>1, <1>2, <1>3, <1>6, <2>3
<1>9. Len(part) = cut
  <2>1. \A i \in 1 .. cut : b.rest[i] \in InUnit
    BY <1>1, <1>3 DEF m
  <2>2. 1 \in Int /\ cut \in Int
    BY <1>3
  <2>3. Len(part) = IF 1 <= cut THEN cut - 1 + 1 ELSE 0
    BY <2>1, <2>2, SubSeqProperties
  <2> QED
    BY <1>3, <2>3
<1> HIDE DEF more, part
<1>10. NewBuf.p = 0 /\ Len(NewBuf.rest) = 0 /\ d.p = b.p /\ Len(d.rest) = cut
  BY <1>1, <1>9 DEF NewBuf, BufOf
<1> HIDE DEF d
<1>11. Len(r.buf.rest) \in 0 .. cut /\ r.buf.p \in 0 .. b.p
  BY <1>1, <1>3, <1>4, <1>10
<1>12. Len(r.buf.rest) + Most(left, 0) <= rq.rsize
  <2> DEFINE k == Len(r.buf.rest)
  <2>1. k \in Int /\ k <= cut /\ rq.rsize \in Int /\ cut \in Int /\ left \in Int /\ m \in Int
    BY <1>1, <1>2, <1>3, <1>11
  <2>2. /\ left > 0 => cut = m /\ Most(left, 0) = left
        /\ ~(left > 0) => Most(left, 0) = 0
        /\ cut <= rq.rsize /\ left = rq.rsize - m
    BY <1>3, <1>6, <2>1 DEF Most
  <2> HIDE DEF k
  <2>3. k + Most(left, 0) <= rq.rsize
    BY <2>1, <2>2
  <2> QED
    BY <2>3 DEF k
<1>13. BufSz(r.buf) <= BufSz(b)
  BY <1>1, <1>3, <1>6, <1>11 DEF BufSz
<1> QED
  BY <1>4, <1>5, <1>7, <1>8, <1>12, <1>13 DEF r

(* The header alone: the buffer keeps its size, and a header that is read  *)
(* to its end was in it.                                                   *)
LEMMA HeaderLength ==
  ASSUME NEW rq, ReqOK(rq), rq.phase \in {"START", "HEADER", "BODY"},
         NEW b, BufOK(b), NEW from \in Nat, b.p <= from, from <= BufSz(b),
         InHeader(rq) => LineFreeUpTo(b, from - b.p)
  PROVE  LET h == ParseHeader(rq, b, from)
         IN /\ BufSz(h.buf) = BufSz(b)
            /\ rq.phase = "BODY" => h.req = rq /\ h.buf = b /\ h.status = 0
            /\ InHeader(rq) /\ h.req.phase = "BODY" =>
                 h.req.rsize = h.req.clen /\ h.buf.p > 0
<1> DEFINE end == LinesEnd(b, from)
           l == SubSeq(b.rest, 1, end)
           s == ReqParse(rq, l)
           h == ParseHeader(rq, b, from)
<1>1. b.rest \in Seq(InUnit) /\ Len(b.rest) \in Nat /\ b.p \in Nat
  BY DEF BufOK
<1>2. CASE ~InHeader(rq) \/ end = 0
  <2>1. h.req = rq /\ h.buf = b /\ h.status = 0
    BY <1>2 DEF ParseHeader, InHeader
  <2> HIDE DEF h
  <2>2. /\ BufSz(h.buf) = BufSz(b)
        /\ ~(InHeader(rq) /\ h.req.phase = "BODY")
    BY <2>1 DEF InHeader
  <2> QED
    BY <2>1, <2>2 DEF h
<1>3. CASE InHeader(rq) /\ end # 0
  <2> DEFINE n == IF s.status # 0 THEN end ELSE s.used
  <2>1. end \in 1 .. Len(b.rest) /\ b.rest[end] = LF
    BY <1>1, <1>3, LinesEndFacts
  <2> HIDE DEF end
  <2>2. l \in Seq(InUnit) /\ Len(l) = end
    BY <1>1, <2>1
  <2>3. ParserOK(s, end) /\ Settled(s)
    BY <1>3, <2>1, <2>2, ReqParseFacts, SettledParse
  <2>4. h.req = s.req /\ h.status = s.status /\ h.buf = Advance(b, n)
    BY <1>3 DEF ParseHeader, InHeader, end
  <2> HIDE DEF h, s, l
  <2>5. /\ s.used \in Nat /\ s.used <= end
        /\ s.status # 0 <=> s.req.phase = "ABORT"
    BY <2>3 DEF ParserOK, ParserType
  <2>6. n \in 0 .. Len(b.rest) /\ (s.req.phase = "BODY" => n = s.used)
    BY <1>1, <2>1, <2>5
  <2> HIDE DEF n
  <2>7. Len(Advance(b, n).rest) = Len(b.rest) - n
    BY <2>6, AdvanceFacts
  <2>8. Advance(b, n).p = b.p + n
    BY DEF Advance
  <2>9. BufSz(h.buf) = BufSz(b)
    BY <1>1, <2>4, <2>6, <2>7, <2>8 DEF BufSz
  <2>10. h.req.phase = "BODY" => h.req.rsize = h.req.clen /\ h.buf.p > 0
    BY <1>1, <2>3, <2>4, <2>5, <2>6, <2>8 DEF Settled
  <2> QED
    BY <1>3, <2>9, <2>10 DEF h, InHeader
<1> QED
  BY <1>2, <1>3

(* All of cn_parse_req: from its header on, what is buffered of a request's*)
(* body and what is to come of it is at most its length.                   *)
LEMMA ParseReqLength ==
  ASSUME NEW rq, ReqOK(rq), rq.phase \in {"START", "HEADER", "BODY"},
         NEW b, BufOK(b), NEW from \in Nat, b.p <= from, from <= BufSz(b),
         InHeader(rq) => LineFreeUpTo(b, from - b.p),
         NEW last \in Seq(InUnit), Len(last) < BUFSZ,
         rq.phase = "BODY" => rq.rsize > 0
  PROVE  LET r == ParseReq(rq, b, last, from)
         IN /\ r.req.phase = "BODY" => r.req.rsize > 0
            /\ Len(r.last) < BUFSZ /\ BufSz(r.buf) <= BufSz(b)
            /\ InHeader(rq) /\ InBody(r.req) =>
                 Len(r.buf.rest) + Most(r.req.rsize, 0) <= r.req.clen
            /\ rq.phase = "BODY" =>
                 /\ Len(r.buf.rest) + Most(r.req.rsize, 0) <= rq.rsize
                 /\ r.req.clen = rq.clen
<1> DEFINE h == ParseHeader(rq, b, from)
           r == ParseReq(rq, b, last, from)
<1>1. HeaderOK(h)
  BY ParseHeaderFacts
<1>2. /\ BufSz(h.buf) = BufSz(b)
      /\ rq.phase = "BODY" => h.req = rq /\ h.buf = b /\ h.status = 0
      /\ InHeader(rq) /\ h.req.phase = "BODY" => h.req.rsize = h.req.clen /\ h.buf.p > 0
  BY HeaderLength
<1>3. r = IF h.status = 0 /\ h.req.phase = "BODY" THEN ParseBody(h.req, h.buf, last)
          ELSE [req |-> h.req, buf |-> h.buf, last |-> last, status |-> h.status]
  BY DEF ParseReq
<1>4. BufSz(b) \in Nat /\ ReqOK(h.req) /\ BufOK(h.buf) /\ h.req.phase # "DONE"
  BY <1>1 DEF HeaderOK, BufOK, BufSz
<1> HIDE DEF h, r
<1>5. CASE h.status = 0 /\ h.req.phase = "BODY"
  <2>1. r = ParseBody(h.req, h.buf, last)
    BY <1>3, <1>5
  <2>2. h.buf.p > 0 \/ h.req.rsize > 0
    BY <1>2, <1>5 DEF InHeader
  <2>3. /\ Len(r.buf.rest) + Most(r.req.rsize, 0) <= h.req.rsize
        /\ r.req.phase = "BODY" => r.req.rsize > 0
        /\ r.req.clen = h.req.clen /\ Len(r.last) < BUFSZ
        /\ BufSz(r.buf) <= BufSz(h.buf)
    BY <1>4, <1>5, <2>1, <2>2, BodyLength
  <2> QED
    BY <1>2, <1>5, <2>3 DEF r
<1>6. CASE ~(h.status = 0 /\ h.req.phase = "BODY")
  <2>1. r.req = h.req /\ r.buf = h.buf /\ r.last = last
    BY <1>3, <1>6
  <2>2. rq.phase # "BODY" /\ h.req.phase \notin {"BODY", "DONE"}
    BY <1>1, <1>2, <1>4, <1>6 DEF HeaderOK
  <2> QED
    BY <1>2, <1>4, <2>1, <2>2 DEF r, InBody
<1> QED
  BY <1>5, <1>6

-----------------------------------------------------------------------------
(* What a program is fed                                                   *)

(* Where only the server feeds it, a program's input grows no longer, and  *)
(* ends only after the server has closed it.                               *)
NotFed(p, q, ends) ==
  /\ q.env = p.env
  /\ q.st = p.st \/ (p.st = "run" /\ q.st = "exit")
  /\ Fed(q) <= Fed(p)
  /\ q.eof = p.eof \/ ends["srv_out"] = NoFd

(* What a program was given is a number of units.                          *)
LEMMA FedNat ==
  ASSUME NEW p \in ProcType
  PROVE  Fed(p) \in Nat /\ (p.st # "none" => p.st \in {"run", "exit"}) /\ p.env.clen \in Int
<1>1. p.seen \in Seq(InUnit \cup OutUnit) /\ p.stdin \in Seq(InUnit \cup OutUnit)
  BY ProcFacts
<1>2. Len(p.seen) \in Nat /\ Len(p.stdin) \in Nat
  BY <1>1, LenProperties
<1>3. Fed(p) \in Nat
  <2> DEFINE n == Len(p.seen)
             m == Len(p.stdin)
  <2>1. Fed(p) = n + m /\ n \in Nat /\ m \in Nat
    BY <1>2 DEF Fed
  <2> HIDE DEF n, m
  <2> QED
    BY <2>1
<1>4. p.st \in {"none", "run", "exit"} /\ p.env \in Env
  BY ProcFields
<1>5. p.env.clen \in Nat \cup {-1}
  BY <1>4 DEF Env
<1>6. p.env.clen \in Int
  BY <1>5
<1> QED
  BY <1>3, <1>4, <1>6

(* A program moves what it was given from its input to what it has seen,   *)
(* and drops what is left of it when it exits.                             *)
LEMMA ProgramsFed ==
  ASSUME SentInv, Programs, NEW c \in Client
  PROVE  NotFed(proc[c], proc'[c], pipe[c])
<1> DEFINE p == proc[c]
           q == proc'[c]
<1>1. proc \in [Client -> ProcType] /\ p \in ProcType
  BY DEF SentInv
<1>2. PICK k \in Client : CgiRead(k) \/ CgiEof(k) \/ CgiWrite(k) \/ CgiErr(k) \/ CgiExit(k)
  BY DEF Programs
<1>3. /\ Fed(p) \in Nat /\ Len(p.seen) \in Nat /\ Len(p.stdin) \in Nat
      /\ p.seen \in Seq(InUnit \cup OutUnit) /\ p.stdin \in Seq(InUnit \cup OutUnit)
  BY <1>1, FedNat, ProcFacts
<1>4. CASE c # k
  <2>1. q = p
    BY <1>1, <1>2, <1>4 DEF CgiRead, CgiEof, CgiWrite, CgiErr, CgiExit
  <2> HIDE DEF p, q
  <2>2. NotFed(p, q, pipe[c])
    BY <1>3, <2>1 DEF NotFed
  <2> QED
    BY <2>2 DEF p, q
<1>5. CASE c = k /\ CgiRead(c)
  <2>1. q = [p EXCEPT !.seen = p.seen \o p.stdin, !.stdin = << >>]
    BY <1>1, <1>5 DEF CgiRead
  <2>2. Len(p.seen \o p.stdin) = Len(p.seen) + Len(p.stdin)
    BY <1>3, ConcatProperties
  <2> DEFINE s == p.seen \o p.stdin
  <2> HIDE DEF p, q, s
  <2>3. q.env = p.env /\ q.st = p.st /\ q.eof = p.eof /\ q.seen = s /\ q.stdin = << >>
    BY <1>1, <2>1 DEF ProcType, s
  <2>4. Len(<< >>) = 0 /\ Len(q.seen) = Len(p.seen) + Len(p.stdin)
    BY <2>2, <2>3 DEF s
  <2>5. NotFed(p, q, pipe[c])
    BY <1>3, <2>3, <2>4 DEF NotFed, Fed
  <2> QED
    BY <2>5 DEF p, q
<1>6. CASE c = k /\ (CgiWrite(c) \/ CgiErr(c))
  <2> DEFINE n == p.made + 1
             o == Append(p.stdout, CgiUnit(p.made + 1))
  <2>1. q = [p EXCEPT !.made = n, !.stdout = o] \/ q = [p EXCEPT !.err = TRUE]
    BY <1>1, <1>6 DEF CgiWrite, CgiErr
  <2> HIDE DEF p, q, n, o
  <2>2. q.env = p.env /\ q.st = p.st /\ q.eof = p.eof /\ q.seen = p.seen /\ q.stdin = p.stdin
    BY <1>1, <2>1 DEF ProcType
  <2>3. NotFed(p, q, pipe[c])
    BY <1>3, <2>2 DEF NotFed, Fed
  <2> QED
    BY <2>3 DEF p, q
<1>7. CASE c = k /\ CgiEof(c)
  <2>1. q = [p EXCEPT !.eof = TRUE] /\ pipe[c]["srv_out"] = NoFd
    BY <1>1, <1>7 DEF CgiEof, Abandoned
  <2> HIDE DEF p, q
  <2>2. q.env = p.env /\ q.st = p.st /\ q.seen = p.seen /\ q.stdin = p.stdin
    BY <1>1, <2>1 DEF ProcType
  <2>3. NotFed(p, q, pipe[c])
    BY <1>3, <2>1, <2>2 DEF NotFed, Fed
  <2> QED
    BY <2>3 DEF p, q
<1>8. CASE c = k /\ CgiExit(c)
  <2> DEFINE none == << >>
  <2>1. q = [p EXCEPT !.st = "exit", !.held = {}, !.stdin = none] /\ p.st = "run"
    BY <1>1, <1>8 DEF CgiExit, Exit, Running
  <2>2. Len(none) = 0
    OBVIOUS
  <2> HIDE DEF p, q, none
  <2>3. q.env = p.env /\ q.st = "exit" /\ q.eof = p.eof /\ q.seen = p.seen /\ q.stdin = none
    BY <1>1, <2>1 DEF ProcType
  <2>4. Fed(q) <= Fed(p)
    <3> DEFINE n == Len(p.seen)
               m == Len(p.stdin)
    <3>1. Fed(p) = n + m /\ Fed(q) = n + 0 /\ n \in Nat /\ m \in Nat
      BY <1>3, <2>2, <2>3 DEF Fed
    <3> HIDE DEF n, m
    <3> QED
      BY <3>1
  <2>5. NotFed(p, q, pipe[c])
    BY <2>1, <2>3, <2>4 DEF NotFed
  <2> QED
    BY <2>5 DEF p, q
<1> QED
  BY <1>2, <1>4, <1>5, <1>6, <1>7, <1>8

(* All but three steps feed no program.                                    *)
LEMMA FedByServer ==
  ASSUME IInv, RInv, SentInv, [Next]_vars, NEW c \in Client
  PROVE  \/ NotFed(proc[c], proc'[c], pipe[c])
         \/ AtTurn(c) /\ (InitCgi \/ WriteSome)
<1>1. proc[c] \in ProcType
  BY DEF SentInv
<1>2. CASE SameProc(c)
  BY <1>1, <1>2, FedNat DEF SameProc, NotFed, Fed
<1>3. CASE Programs
  BY <1>3, ProgramsFed
<1>4. CASE AtTurn(c) /\ FromCgi
  <2> DEFINE o == Skip(proc[c].stdout, Least(BUFSZ, Len(proc[c].stdout)))
             p == proc[c]
             q == proc'[c]
  <2>1. q = [p EXCEPT !.stdout = o]
    BY <1>4 DEF FromCgi, AtTurn, SentInv
  <2> HIDE DEF o, p, q
  <2>2. p \in ProcType
    BY <1>1 DEF p
  <2>3. q.env = p.env /\ q.st = p.st /\ q.eof = p.eof /\ q.seen = p.seen /\ q.stdin = p.stdin
    BY <2>1, <2>2 DEF ProcType
  <2>4. NotFed(p, q, pipe[c])
    BY <2>2, <2>3, FedNat DEF NotFed, Fed
  <2> QED
    BY <2>4 DEF p, q
<1> QED
  BY <1>2, <1>3, <1>4, ProcFrame

(* So it stays within its length.                                          *)
LEMMA NotOverfedStays ==
  ASSUME NEW p \in ProcType, NEW q \in ProcType, NEW ends, NotFed(p, q, ends), NotOverfed(p)
  PROVE  NotOverfed(q)
<1>1. Fed(p) \in Nat /\ Fed(q) \in Nat /\ p.env.clen \in Int
  BY FedNat
<1> QED
  BY <1>1 DEF NotFed, NotOverfed, Most

(* What holds of a connection holds at another handler, with less of the   *)
(* buffer left to write, if it is ready for that handler.                  *)
LEMMA FedStays ==
  ASSUME NEW rq \in ReqType, NEW lb, NEW cg, NEW b, NEW ends,
         NEW p \in ProcType, NEW q \in ProcType, NotFed(p, q, ends),
         NEW st1, NEW st2, NEW n1 \in Int, NEW n2 \in Int, n2 <= n1,
         ConnFed(rq, lb, cg, b, ends, p, st1, n1),
         cg.phase = "READY" =>
           /\ st2 \in {"recv", "logerr", "prepare", "init_cgi", "static", "max_fd"}
           /\ st2 \in {"recv", "static", "max_fd"} => BufSz(b) < BUFSZ,
         cg.phase = "SRV_TO_CGI" /\ rq.phase # "ABORT"
           /\ st2 \notin Early \cup {"to_cgi", "write"} => b = NewBuf
  PROVE  ConnFed(rq, lb, cg, b, ends, q, st2, n2)
<1>1. ToStart(rq, cg, b, st2) /\ Bounded(rq, lb)
  BY DEF ConnFed, ToStart
<1>2. Fed(p) \in Nat /\ Fed(q) \in Nat /\ p.env.clen \in Int /\ rq.rsize \in Int
  BY FedNat DEF ReqType
<1>3. Feeding(rq, cg, b, ends, q, st2, n2)
  <2> SUFFICES ASSUME cg.phase = "SRV_TO_CGI" PROVE Feeding(rq, cg, b, ends, q, st2, n2)
    BY DEF Feeding
  <2>1. /\ ends["srv_out"] # NoFd /\ ends["cgi_in"] = NoFd
        /\ ~p.eof /\ p.st \in {"run", "exit"}
        /\ p.st = "run" => /\ rq.phase \in {"BODY", "DONE"}
                           /\ Fed(p) + n1 + Most(rq.rsize, 0) <= Most(p.env.clen, 0)
    BY DEF ConnFed, Feeding
  <2>2. /\ ~q.eof /\ q.st \in {"run", "exit"} /\ (q.st = "run" => p.st = "run")
        /\ q.env = p.env /\ Fed(q) <= Fed(p)
    BY <2>1 DEF NotFed
  <2>3. Most(rq.rsize, 0) \in Int /\ Most(p.env.clen, 0) \in Int
    BY <1>2 DEF Most
  <2>4. q.st = "run" => Fed(q) + n2 + Most(rq.rsize, 0) <= Most(q.env.clen, 0)
    BY <1>2, <2>1, <2>2, <2>3
  <2> QED
    BY <2>1, <2>2, <2>4 DEF Feeding
<1> QED
  BY <1>1, <1>3 DEF ConnFed

(* A connection whose program is not fed.                                  *)
LEMMA FedNothing ==
  ASSUME NEW rq, NEW lb, NEW cg, cg.phase \notin {"READY", "SRV_TO_CGI"}, Bounded(rq, lb)
  PROVE  \A b, ends, p, st, n : ConnFed(rq, lb, cg, b, ends, p, st, n)
BY DEF ConnFed, ToStart, Feeding

(* A connection is at a handler other than cn_recv during its visit only.  *)
LEMMA StageElsewhere ==
  ASSUME StreamInv, [Next]_vars, NEW c \in Client, ~AtTurn(c)
  PROVE  Stage(c) = "recv" /\ Stage(c)' = "recv"
<1> USE DEF loopVars, poolVars
<1>1. Stage(c) = "recv"
  BY DEF Stage, AtTurn, Visiting, conn
<1>2. CASE UNCHANGED <<pc, cur, conns>>
  BY <1>1, <1>2 DEF Stage
<1>3. CASE pc' \in {"select", "accept", "accept_ssl", "recv"}
  <2>1. CASE pc' = "recv"
    BY <1>1, <2>1 DEF Stage
  <2>2. CASE pc' \in {"select", "accept", "accept_ssl"}
    BY <1>1, <2>2 DEF Stage
  <2> QED
    BY <1>3, <2>1, <2>2
<1>4. CASE Visiting /\ Server
  <2>1. MaxFd \/ Drops \/ Handles
    BY <1>4, VisitKinds
  <2>2. CASE MaxFd \/ Drops
    BY <1>3, <2>2 DEF MaxFd, Drops, DropConn, Revisit
  <2>3. CASE Handles
    <3>1. conns' = conns /\ cur' = cur /\ conns[cur] # c
      BY <1>4, <2>3 DEF Handles, AtTurn, conn
    <3> QED
      BY <3>1 DEF Stage
  <2> QED
    BY <2>1, <2>2, <2>3
<1>5. CASE ~Visiting /\ Server
  <2>1. Select \/ AcceptSkip \/ AcceptRefuse \/ AcceptConn \/ LoopEnd
    BY <1>5 DEF Server, At, Visiting, RecvSkip, Handshake, HandshakeFail, RecvIgnore, RecvData,
       Receiving, LogErr, Prepare, InitCgiSkip, InitCgiNoPipe, InitCgiFail, InitCgi, ForSelect,
       ToCgi, WriteSome, WriteShort, WriteFail, WriteDone, FromCgiSkip, FromCgi, FromCgiEof,
       FromCgiFail, Streaming, DynamicSkip, DynamicEnd, ServeDynamic, ServingDynamic,
       StaticSkip, SendErrorPage, SendHeader, SendBody, ServingStatic, MaxFd
  <2>2. pc' \in {"select", "accept", "accept_ssl", "recv"}
    BY <2>1 DEF Select, AcceptSkip, AcceptRefuse, AcceptConn, AfterAccept, LoopEnd
  <2> QED
    BY <1>3, <2>2
<1>6. CASE Clients \/ Programs \/ UNCHANGED vars
  <2>1. UNCHANGED <<pc, cur, conns>>
    BY <1>6 DEF Clients, Connect, ClientSend, ClientRead, ClientHalfClose, ClientLeave,
       serverUnchanged, Programs, CgiRead, CgiEof, CgiWrite, CgiErr, CgiExit, cgiUnchanged, vars
  <2> QED
    BY <1>2, <2>1
<1> QED
  BY <1>4, <1>5, <1>6 DEF Next

(* What FedInv knows of a connection, with the types of its parts.         *)
LEMMA FedFacts ==
  ASSUME StreamInv, NEW c \in Client
  PROVE  /\ IInv /\ RInv /\ SentInv /\ req[c] \in ReqType /\ proc[c] \in ProcType
         /\ cgi[c] \in CgiType /\ buf[c] \in BufType /\ last_buf[c] \in Seq(InUnit)
         /\ Len(buf[c].rest) \in Nat /\ BufSz(buf[c]) \in Nat
         /\ InPool(c) => ConnOK(c)
         /\ Unwritten(c) \in Int
<1>1. /\ IInv /\ RInv /\ SentInv /\ req[c] \in ReqType /\ proc[c] \in ProcType
      /\ cgi[c] \in CgiType /\ buf[c] \in BufType /\ last_buf[c] \in Seq(InUnit)
      /\ InPool(c) => ConnOK(c)
  BY DEF StreamInv, RInv, MsgType, SentInv, IInv, CoreType
<1>2. buf[c].rest \in Seq(InUnit \cup OutUnit) /\ buf[c].p \in Nat
  BY <1>1, ConnAssumption DEF BufType
<1>3. Len(buf[c].rest) \in Nat /\ BufSz(buf[c]) \in Nat
  BY <1>2, LenProperties DEF BufSz
<1>4. wr.rsize - wr.took \in Int
  BY <1>1 DEF SentInv, WriteLeft
<1> QED
  BY <1>1, <1>3, <1>4 DEF Unwritten

(* The connections whose turn it is not.                                   *)
LEMMA OthersFed ==
  ASSUME StreamInv, StreamInv', FedInv, [Next]_vars, NEW c \in Client, ~AtTurn(c)
  PROVE  FedConn(c)' /\ NotOverfed(proc'[c])
<1>1. /\ req[c] \in ReqType /\ proc[c] \in ProcType /\ Len(buf[c].rest) \in Nat
      /\ IInv /\ RInv /\ SentInv
  BY FedFacts
<1>2. proc'[c] \in ProcType
  BY DEF StreamInv, SentInv
<1>3. NotFed(proc[c], proc'[c], pipe[c])
  BY <1>1, FedByServer
<1>4. NotOverfed(proc'[c])
  BY <1>1, <1>2, <1>3, NotOverfedStays DEF FedInv
<1>5. /\ req'[c] = req[c] /\ cgi'[c] = cgi[c] /\ buf'[c] = buf[c]
      /\ last_buf'[c] = last_buf[c] /\ pipe'[c] = pipe[c]
  BY <1>1, OthersStay
<1>6. Stage(c) = "recv" /\ Stage(c)' = "recv"
  BY StageElsewhere
<1>7. Unwritten(c) = Len(buf[c].rest) /\ Unwritten(c)' = Len(buf[c].rest)
  BY <1>5, <1>6 DEF Unwritten
<1>8. CASE InPool(c)
  <2>1. ConnFed(req[c], last_buf[c], cgi[c], buf[c], pipe[c], proc[c], "recv", Len(buf[c].rest))
    BY <1>6, <1>7, <1>8 DEF FedInv, FedConn
  <2>2. /\ cgi[c].phase = "READY" => BufSz(buf[c]) < BUFSZ
        /\ cgi[c].phase = "SRV_TO_CGI" /\ req[c].phase # "ABORT" => buf[c] = NewBuf
    BY <2>1 DEF ConnFed, ToStart, Feeding, Early
  <2>3. ConnFed(req[c], last_buf[c], cgi[c], buf[c], pipe[c], proc'[c], "recv", Len(buf[c].rest))
    BY <1>1, <1>2, <1>3, <2>1, <2>2, FedStays
  <2> QED
    BY <1>4, <1>5, <1>6, <1>7, <2>3 DEF FedConn
<1>9. CASE ~InPool(c)
  <2>1. req[c] = NewReq /\ last_buf[c] = << >> /\ cgi[c] = NewCgi
    BY <1>1, <1>9 DEF RInv, Fresh
  <2>2. cgi[c].phase = "IDLE" /\ req[c].phase = "START"
    BY <2>1, NewFacts
  <2>3. Len(<< >>) = 0 /\ 0 < BUFSZ
    BY ConnAssumption
  <2>4. Bounded(req[c], last_buf[c])
    BY <2>1, <2>2, <2>3 DEF Bounded
  <2> QED
    BY <1>4, <1>5, <2>2, <2>4, FedNothing DEF FedConn
<1> QED
  BY <1>8, <1>9

-----------------------------------------------------------------------------
(* The handlers and the programs' input                                    *)

(* What FedInv says of the connection visited.                             *)
LEMMA TurnFacts ==
  ASSUME StreamInv, FedInv, Visiting, NEW c, c = conn
  PROVE  /\ c \in Client /\ InPool(c) /\ ConnOK(c)
         /\ ConnFed(req[c], last_buf[c], cgi[c], buf[c], pipe[c], proc[c], pc, Unwritten(c))
         /\ NotOverfed(proc[c])
         /\ Unwritten(c) = IF pc = "write" THEN wr.rsize - wr.took ELSE Len(buf[c].rest)
<1>1. c \in Client /\ InPool(c) /\ ConnOK(c) /\ Stage(c) = pc
  BY VisitFacts DEF StreamInv
<1> QED
  BY <1>1 DEF FedInv, FedConn, Unwritten

(* The connection visited stands at the next handler.                      *)
LEMMA NextStage ==
  ASSUME Visiting, NEW c, c = conn, conns' = conns,
         \/ cur' = cur /\ pc' \notin {"select", "accept", "accept_ssl"}
         \/ pc' = "recv"
  PROVE  /\ Stage(c)' = pc'
         /\ Unwritten(c)' = IF pc' = "write" THEN wr'.rsize - wr'.took ELSE Len(buf'[c].rest)
<1>1. Stage(c)' = pc'
  <2>1. CASE pc' = "recv"
    BY <2>1 DEF Stage
  <2>2. CASE pc' # "recv"
    <3>1. pc' \notin {"select", "accept", "accept_ssl"} /\ cur' = cur /\ conns' = conns
          /\ cur <= Len(conns) /\ conns[cur] = c
      BY <2>2 DEF Visiting, conn
    <3> QED
      BY <3>1 DEF Stage
  <2> QED
    BY <2>1, <2>2
<1> QED
  BY <1>1 DEF Unwritten

(* A program that does not move is not fed.                                *)
LEMMA SameNotFed ==
  ASSUME NEW p \in ProcType, NEW ends
  PROVE  NotFed(p, p, ends)
BY FedNat DEF NotFed

(* The handlers that leave the connection's structures alone.              *)
LEMMA PassingFed ==
  ASSUME StreamInv, StreamInv', FedInv, NEW c, c = conn,
         \/ RecvSkip \/ Handshake \/ LogErr \/ InitCgiSkip \/ ForSelect \/ ToCgi
         \/ WriteShort \/ FromCgiSkip \/ DynamicSkip \/ StaticSkip \/ MaxFd,
         NotFed(proc[c], proc'[c], pipe[c])
  PROVE  FedConn(c)'
<1> USE DEF loopVars, poolVars, setVars, readyVars, fdVars, msgVars
<1>1. /\ Visiting /\ UNCHANGED <<conns, req, last_buf, cgi, buf, pipe>>
      /\ \/ cur' = cur /\ pc' \notin {"select", "accept", "accept_ssl"}
         \/ pc' = "recv"
  BY DEF RecvSkip, Handshake, Receiving, LogErr, InitCgiSkip, ForSelect, ToCgi, WriteShort,
     FromCgiSkip, DynamicSkip, StaticSkip, MaxFd, writeUnchanged, At, Visiting
<1>2. /\ c \in Client /\ ConnOK(c)
      /\ ConnFed(req[c], last_buf[c], cgi[c], buf[c], pipe[c], proc[c], pc, Unwritten(c))
      /\ Unwritten(c) = IF pc = "write" THEN wr.rsize - wr.took ELSE Len(buf[c].rest)
      /\ Stage(c)' = pc'
      /\ Unwritten(c)' = IF pc' = "write" THEN wr'.rsize - wr'.took ELSE Len(buf'[c].rest)
  BY <1>1, TurnFacts, NextStage
<1>3. /\ req[c] \in ReqType /\ proc[c] \in ProcType /\ proc'[c] \in ProcType
      /\ Unwritten(c) \in Int /\ Unwritten(c)' \in Int /\ Len(buf[c].rest) \in Nat
      /\ wr.rsize \in Nat /\ wr.took \in Nat
  BY <1>2, FedFacts DEF StreamInv, SentInv, WriteLeft
<1>4. /\ cgi[c].phase = "READY" => req[c].phase \in {"BODY", "DONE"}
      /\ cgi[c].phase \in {"READY", "SRV_TO_CGI"} /\ req[c].phase # "ABORT" =>
           req[c].type = "DYNAMIC"
  BY <1>2, NewFacts DEF ConnFed, ToStart, ConnOK, Content, Reading, Static, Dynamic, Refused
<1>5. cgi[c].phase = "READY" =>
        /\ pc \in {"recv", "logerr", "prepare", "init_cgi", "static", "max_fd"}
        /\ pc \in {"recv", "static", "max_fd"} => BufSz(buf[c]) < BUFSZ
  BY <1>2 DEF ConnFed, ToStart
<1>6. cgi[c].phase = "SRV_TO_CGI" /\ req[c].phase # "ABORT"
        /\ pc \notin Early \cup {"to_cgi", "write"} => buf[c] = NewBuf
  BY <1>2 DEF ConnFed, Feeding
<1>7. cgi[c].phase = "READY" =>
        /\ pc' \in {"recv", "logerr", "prepare", "init_cgi", "static", "max_fd"}
        /\ pc' \in {"recv", "static", "max_fd"} => BufSz(buf[c]) < BUFSZ
  <2> SUFFICES ASSUME cgi[c].phase = "READY"
               PROVE  /\ pc' \in {"recv", "logerr", "prepare", "static", "max_fd"}
                      /\ pc' \in {"recv", "static", "max_fd"} =>
                           pc \in {"recv", "static", "max_fd"}
    BY <1>5
  <2>1. ~InitCgiSkip
    BY <1>4 DEF InitCgiSkip, Starting
  <2>2. pc \notin {"for_select", "to_cgi", "write", "from_cgi", "dynamic"}
    BY <1>5
  <2>3. RecvSkip \/ Handshake \/ LogErr \/ StaticSkip \/ MaxFd
    BY <2>1, <2>2 DEF ForSelect, ToCgi, WriteShort, FromCgiSkip, DynamicSkip, At
  <2> QED
    BY <2>3 DEF RecvSkip, Handshake, Receiving, LogErr, StaticSkip, MaxFd, At
<1>8. cgi[c].phase = "SRV_TO_CGI" /\ req[c].phase # "ABORT"
        /\ pc' \notin Early \cup {"to_cgi", "write"} => buf[c] = NewBuf
  <2> SUFFICES ASSUME cgi[c].phase = "SRV_TO_CGI", req[c].phase # "ABORT",
                      pc' \notin Early \cup {"to_cgi", "write"}
               PROVE  pc \notin Early \cup {"to_cgi", "write"}
    BY <1>6
  <2>1. ~ToCgi
    BY <1>4 DEF ToCgi
  <2>2. ~RecvSkip /\ ~Handshake /\ ~LogErr /\ ~InitCgiSkip /\ ~ForSelect /\ ~WriteShort
    BY DEF RecvSkip, Handshake, LogErr, InitCgiSkip, ForSelect, WriteShort, At, Early
  <2>3. FromCgiSkip \/ DynamicSkip \/ StaticSkip \/ MaxFd
    BY <2>1, <2>2
  <2> QED
    BY <2>3 DEF FromCgiSkip, DynamicSkip, StaticSkip, MaxFd, At, Early
<1>9. Unwritten(c)' <= Unwritten(c)
  <2>1. CASE WriteShort
    <3>1. pc = "write" /\ pc' = "write" /\ wr' = [rsize |-> wr.rsize - wr.took, took |-> 0]
      BY <2>1 DEF WriteShort, At
    <3>2. wr'.rsize = wr.rsize - wr.took /\ wr'.took = 0
      BY <3>1
    <3> QED
      BY <1>2, <1>3, <3>1, <3>2
  <2>2. CASE ToCgi
    <3>1. /\ pc = "to_cgi"
          /\ \/ pc' = "write" /\ wr' = [rsize |-> Len(buf[c].rest), took |-> 0]
             \/ pc' = "from_cgi"
      BY <2>2 DEF ToCgi, At
    <3>2. Unwritten(c) = Len(buf[c].rest)
      BY <1>2, <3>1
    <3>3. CASE pc' = "write" /\ wr' = [rsize |-> Len(buf[c].rest), took |-> 0]
      <4>1. wr'.rsize = Len(buf[c].rest) /\ wr'.took = 0
        BY <3>3
      <4> QED
        BY <1>2, <1>3, <3>2, <3>3, <4>1
    <3>4. CASE pc' = "from_cgi"
      BY <1>1, <1>2, <1>3, <3>2, <3>4
    <3> QED
      BY <3>1, <3>3, <3>4
  <2>3. CASE ~WriteShort /\ ~ToCgi
    <3>1. pc # "write" /\ pc' # "write"
      BY <2>3 DEF RecvSkip, Handshake, Receiving, LogErr, InitCgiSkip, ForSelect, FromCgiSkip,
         DynamicSkip, StaticSkip, MaxFd, At
    <3> QED
      BY <1>1, <1>2, <1>3, <3>1
  <2> QED
    BY <2>1, <2>2, <2>3
<1>10. ConnFed(req[c], last_buf[c], cgi[c], buf[c], pipe[c], proc'[c], pc', Unwritten(c)')
  BY <1>2, <1>3, <1>7, <1>8, <1>9, FedStays
<1> QED
  BY <1>1, <1>2, <1>10 DEF FedConn

(* A connection whose program is not fed any more, or is none.             *)
LEMMA FedDone ==
  ASSUME NEW c, cgi'[c].phase \notin {"READY", "SRV_TO_CGI"}, Bounded(req'[c], last_buf'[c])
  PROVE  FedConn(c)'
<1>1. ConnFed(req'[c], last_buf'[c], cgi'[c], buf'[c], pipe'[c], proc'[c],
              Stage(c)', Unwritten(c)')
  BY FedNothing
<1> QED
  BY <1>1 DEF FedConn

(* A connection that is dropped.                                           *)
LEMMA DropFed ==
  ASSUME StreamInv, Visiting, NEW c, c = conn, DropConn(c)
  PROVE  FedConn(c)'
<1>1. c \in Client /\ fd \in [Client -> Fd \cup {NoFd}]
  BY VisitFacts DEF StreamInv, IInv, CoreType, PoolTypeOK
<1>2. fd'[c] = NoFd
  BY <1>1 DEF DropConn
<1> QED
  BY <1>2 DEF FedConn, InPool

(* What write(2) takes of the buffer the program is given.                 *)
LEMMA WriteSomeFed ==
  ASSUME StreamInv, StreamInv', FedInv, NEW c, c = conn, WriteSome
  PROVE  FedConn(c)' /\ NotOverfed(proc'[c])
<1> DEFINE b == buf[c].rest
           k == PipeRoom(c)
           n == Least(k, wr.rsize - wr.took)
           units == SubSeq(b, wr.took + 1, wr.took + n)
           p == proc[c]
           q == proc'[c]
           s == p.stdin \o units
<1> USE DEF loopVars, poolVars, setVars, msgVars
<1>1. /\ Visiting /\ pc = "write" /\ pc' = "write" /\ ~NoReader(c)
      /\ PipeRoom(c) > 0
      /\ UNCHANGED <<conns, cur, req, last_buf, cgi, buf, pipe>>
      /\ wr' = IF wr.took + n = wr.rsize THEN NoWrite ELSE [wr EXCEPT !.took = @ + n]
      /\ proc' = [proc EXCEPT ![c].stdin = s]
  BY DEF WriteSome, At, Visiting, writeUnchanged
<1>2. /\ c \in Client
      /\ ConnFed(req[c], last_buf[c], cgi[c], buf[c], pipe[c], proc[c], pc, Unwritten(c))
      /\ Unwritten(c) = wr.rsize - wr.took
      /\ Unwritten(c)' = wr'.rsize - wr'.took /\ Stage(c)' = "write"
  BY <1>1, TurnFacts, NextStage
<1>3. /\ req[c] \in ReqType /\ p \in ProcType /\ q \in ProcType
      /\ cgi[c].phase = "SRV_TO_CGI"
  BY <1>1, <1>2, FedFacts DEF StreamInv, SentInv, IInv, Writing, conn
<1>4. /\ b \in Seq(InUnit \cup OutUnit) /\ Len(b) \in Nat
      /\ wr \in [rsize: Nat, took: Nat] /\ wr.took \in Nat /\ wr.rsize \in Nat
      /\ wr.took <= wr.rsize /\ wr.rsize <= Len(b)
  <2>1. b \in Seq(InUnit \cup OutUnit)
    BY <1>2, FedFacts DEF BufType
  <2> QED
    BY <1>1, <2>1, LenProperties DEF StreamInv, SentInv, WriteLeft, conn
<1>5. k \in Int /\ k > 0
  <2>1. Len(p.stdin) \in Nat
    BY <1>3, ProcFacts, LenProperties
  <2> DEFINE m == Len(p.stdin)
  <2>2. k = PIPESZ - m /\ k > 0 /\ m \in Nat
    BY <1>1, <2>1 DEF PipeRoom
  <2>3. PIPESZ \in Nat
    BY LisoAssumption
  <2> HIDE DEF k, m
  <2> QED
    BY <2>2, <2>3
<1>6. Feeding(req[c], cgi[c], buf[c], pipe[c], p, "write", Unwritten(c))
      /\ Bounded(req[c], last_buf[c])
  BY <1>1, <1>2 DEF ConnFed
<1> HIDE DEF b, k
<1>7. n \in Nat /\ wr.took + n <= wr.rsize
  BY <1>4, <1>5 DEF Least
<1> HIDE DEF n
<1>8. units \in Seq(InUnit \cup OutUnit) /\ Len(units) = n
  <2>1. \A i \in wr.took + 1 .. wr.took + n : b[i] \in InUnit \cup OutUnit
    BY <1>4, <1>7
  <2>2. Len(units) = IF wr.took + 1 <= wr.took + n THEN wr.took + n - (wr.took + 1) + 1 ELSE 0
    BY <1>4, <1>7, <2>1, SubSeqProperties
  <2>3. units \in Seq(InUnit \cup OutUnit)
    BY <1>4, <1>7, <2>1, SubSeqProperties
  <2> HIDE DEF units
  <2> QED
    BY <1>4, <1>7, <2>2, <2>3
<1> HIDE DEF units
<1>9. Len(s) = Len(p.stdin) + n
  BY <1>3, <1>8, ProcFacts, ConcatProperties
<1>10. q = [p EXCEPT !.stdin = s]
  BY <1>1, <1>2 DEF StreamInv, SentInv
<1> HIDE DEF p, q, s
<1>11. /\ q.env = p.env /\ q.st = p.st /\ q.eof = p.eof /\ q.seen = p.seen /\ q.stdin = s
  BY <1>3, <1>10 DEF ProcType
<1>12. Fed(q) = Fed(p) + n
  <2> DEFINE x == Len(p.seen)
             y == Len(p.stdin)
  <2>1. x \in Nat /\ y \in Nat
    BY <1>3, ProcFacts, LenProperties
  <2>2. Fed(p) = x + y /\ Fed(q) = x + (y + n)
    BY <1>9, <1>11 DEF Fed
  <2> HIDE DEF x, y
  <2> QED
    BY <1>7, <2>1, <2>2
<1>13. /\ pipe[c]["srv_out"] # NoFd /\ pipe[c]["cgi_in"] = NoFd
       /\ ~p.eof /\ p.st = "run" /\ req[c].phase \in {"BODY", "DONE"}
       /\ Fed(p) + (wr.rsize - wr.took) + Most(req[c].rsize, 0) <= Most(p.env.clen, 0)
  <2>1. p.st # "exit"
    BY <1>1, <1>3, <1>6 DEF NoReader, Hangup, Feeding, p
  <2> QED
    BY <1>2, <1>3, <1>6, <2>1 DEF Feeding
<1>14. Fed(p) \in Nat /\ p.env.clen \in Int /\ req[c].rsize \in Int
  BY <1>3, FedNat DEF ReqType
<1>15. wr'.rsize - wr'.took = (wr.rsize - wr.took) - n
  <2>1. CASE wr.took + n = wr.rsize
    BY <1>1, <1>4, <1>7, <2>1 DEF NoWrite
  <2>2. CASE wr.took + n # wr.rsize
    <3>1. wr' = [wr EXCEPT !.took = wr.took + n]
      BY <1>1, <2>2
    <3>2. wr'.rsize = wr.rsize /\ wr'.took = wr.took + n
      BY <1>4, <3>1
    <3> QED
      BY <1>4, <1>7, <3>2
  <2> QED
    BY <2>1, <2>2
<1>16. Most(req[c].rsize, 0) \in Nat /\ Most(p.env.clen, 0) \in Nat
  BY <1>14 DEF Most
<1>17. Fed(q) + Unwritten(c)' + Most(req[c].rsize, 0) <= Most(q.env.clen, 0)
  BY <1>2, <1>4, <1>7, <1>11, <1>12, <1>13, <1>14, <1>15, <1>16
<1>18. NotOverfed(q)
  BY <1>4, <1>7, <1>11, <1>12, <1>13, <1>14, <1>16 DEF NotOverfed
<1>19. ConnFed(req[c], last_buf[c], cgi[c], buf[c], pipe[c], q, "write", Unwritten(c)')
  BY <1>3, <1>6, <1>11, <1>13, <1>17 DEF ConnFed, ToStart, Feeding
<1> QED
  BY <1>1, <1>2, <1>18, <1>19 DEF FedConn, q

(* cn_init_cgi: the program starts with nothing, and its length is that of *)
(* the request.                                                            *)
LEMMA InitCgiFed ==
  ASSUME StreamInv, StreamInv', FedInv, NEW c, c = conn, InitCgi
  PROVE  FedConn(c)' /\ NotOverfed(proc'[c])
<1> DEFINE p == [NewProc EXCEPT !.st = "run", !.env = EnvpNew(req[c]), !.held = Inherited(c)]
           n == Len(buf[c].rest)
<1> USE DEF loopVars, poolVars, setVars, msgVars
<1>1. /\ Visiting /\ pc = "init_cgi" /\ pc' = "for_select" /\ cgi[c].phase = "READY"
      /\ UNCHANGED <<conns, cur, req, last_buf, buf>>
      /\ cgi' = [cgi EXCEPT ![c].phase = "SRV_TO_CGI"]
  BY DEF InitCgi, Starting, At, Visiting
<1>2. /\ c \in Client
      /\ ConnFed(req[c], last_buf[c], cgi[c], buf[c], pipe[c], proc[c], pc, Unwritten(c))
      /\ Unwritten(c)' = n /\ Stage(c)' = "for_select"
  BY <1>1, TurnFacts, NextStage
<1>3. /\ req[c] \in ReqType /\ cgi'[c].phase = "SRV_TO_CGI" /\ n \in Nat
      /\ req[c].rsize \in Int /\ req[c].clen \in Int
  <2>1. req[c] \in ReqType /\ n \in Nat /\ cgi \in [Client -> CgiType]
    BY <1>2, FedFacts DEF StreamInv, IInv, CoreType
  <2>2. cgi'[c].phase = "SRV_TO_CGI"
    BY <1>1, <1>2, <2>1 DEF CgiType
  <2> QED
    BY <2>1, <2>2 DEF ReqType
<1>4. proc'[c] = p
  BY <1>2 DEF InitCgi
<1>5. proc'[c] \in ProcType
  BY <1>2 DEF StreamInv, SentInv
<1>6. pipe'[c]["srv_out"] # NoFd /\ pipe'[c]["cgi_in"] = NoFd
  <2>1. PICK x \in NewPipes :
          pipe' = [pipe EXCEPT ![c] = [e \in Ends |-> IF e \in SrvEnds THEN x[e] ELSE NoFd]]
    BY DEF InitCgi
  <2>2. x["srv_out"] \in Fd
    BY NewPipesFacts DEF FreeFds, Ends
  <2>3. pipe'[c] = [e \in Ends |-> IF e \in SrvEnds THEN x[e] ELSE NoFd]
    BY <1>2, <2>1 DEF StreamInv, IInv, CoreType, PoolTypeOK
  <2>4. pipe'[c]["srv_out"] = x["srv_out"] /\ pipe'[c]["cgi_in"] = NoFd
    BY <2>3 DEF SrvEnds, Ends
  <2> QED
    BY <2>2, <2>4, LisoAssumption DEF Fd, NoFd
<1>7. /\ req[c].phase \in {"BODY", "DONE"} /\ Bounded(req[c], last_buf[c])
      /\ n + Most(req[c].rsize, 0) <= req[c].clen
  BY <1>1, <1>2 DEF ConnFed, ToStart
<1>8. Most(req[c].rsize, 0) \in Nat
  BY <1>3 DEF Most
<1>9. /\ p.st = "run" /\ p.env = EnvpNew(req[c]) /\ p.eof = FALSE
      /\ p.seen = << >> /\ p.stdin = << >>
  BY DEF NewProc
<1> HIDE DEF p, n
<1>10. Fed(p) = 0
  BY <1>9 DEF Fed
<1>11. Most(p.env.clen, 0) = Most(req[c].clen, 0)
  <2> DEFINE k == req[c].clen
  <2>1. p.env.clen = IF k > 0 THEN k ELSE -1
    BY <1>9 DEF EnvpNew
  <2>2. k \in Int
    BY <1>3
  <2> HIDE DEF k
  <2>3. Most(p.env.clen, 0) = Most(k, 0)
    BY <2>1, <2>2 DEF Most
  <2> QED
    BY <2>3 DEF k
<1>12. /\ Fed(p) + n + Most(req[c].rsize, 0) <= Most(p.env.clen, 0)
       /\ 0 <= Most(p.env.clen, 0)
  <2>1. Most(req[c].clen, 0) \in Nat /\ req[c].clen <= Most(req[c].clen, 0)
    BY <1>3 DEF Most
  <2> QED
    BY <1>3, <1>7, <1>8, <1>10, <1>11, <2>1
<1>13. NotOverfed(p)
  BY <1>10, <1>12 DEF NotOverfed
<1>14. "for_select" \in Early
  BY DEF Early
<1>15. ConnFed(req[c], last_buf[c], cgi'[c], buf[c], pipe'[c], p, "for_select", n)
  BY <1>3, <1>6, <1>7, <1>9, <1>12, <1>14 DEF ConnFed, ToStart, Feeding
<1> QED
  BY <1>1, <1>2, <1>4, <1>13, <1>15 DEF FedConn

(* cn_prepare_static_header has nothing to do with a program.              *)
LEMMA PrepareFed ==
  ASSUME StreamInv, StreamInv', FedInv, NEW c, c = conn, Prepare,
         NotFed(proc[c], proc'[c], pipe[c])
  PROVE  FedConn(c)'
<1> USE DEF loopVars, poolVars, setVars, msgVars
<1>1. /\ Visiting /\ pc = "prepare" /\ pc' = "init_cgi"
      /\ UNCHANGED <<conns, cur, last_buf, cgi, pipe>>
  BY DEF Prepare, At, Visiting
<1>2. /\ c \in Client /\ ConnOK(c)
      /\ ConnFed(req[c], last_buf[c], cgi[c], buf[c], pipe[c], proc[c], pc, Unwritten(c))
      /\ Unwritten(c) = Len(buf[c].rest) /\ Stage(c)' = "init_cgi"
      /\ Unwritten(c)' = Len(buf'[c].rest)
  BY <1>1, TurnFacts, NextStage
<1>3. /\ req[c] \in ReqType /\ proc[c] \in ProcType /\ proc'[c] \in ProcType
      /\ Len(buf[c].rest) \in Nat
  BY <1>2, FedFacts DEF StreamInv, SentInv
<1>4. CASE ~Preparing
  <2>1. UNCHANGED <<req, buf>>
    BY <1>4 DEF Prepare
  <2>2. "init_cgi" \in Early
    BY DEF Early
  <2>3. ConnFed(req[c], last_buf[c], cgi[c], buf[c], pipe[c], proc'[c], "init_cgi",
                Len(buf[c].rest))
    BY <1>2, <1>3, <2>2, FedStays
  <2> QED
    BY <1>1, <1>2, <2>1, <2>3 DEF FedConn
<1>5. CASE Preparing
  <2>1. cgi[c].phase = "DISABLED"
    BY <1>2, <1>5 DEF Preparing, ConnOK, Content, Reading, Static, Dynamic, Refused, InHeader
  <2>2. req'[c] = req[c] \/ req'[c] = AbortReq(req[c])
    BY <1>2, <1>5 DEF Prepare, ConnErr, StreamInv, RInv, MsgType
  <2>3. AbortReq(req[c]).phase = "ABORT"
    BY <1>3 DEF AbortReq, ReqType
  <2>4. Bounded(req'[c], last_buf'[c])
    BY <1>1, <1>2, <2>2, <2>3 DEF ConnFed, Bounded
  <2> QED
    BY <1>1, <2>1, <2>4, FedDone
<1> QED
  BY <1>4, <1>5

(* The request of a connection in error is given up: nothing is owed to    *)
(* its program any more.                                                   *)
LEMMA AbortedFed ==
  ASSUME NEW rq, NEW lb, rq.phase = "ABORT", Len(lb) < BUFSZ, NEW cg, cg.phase # "READY",
         NEW ends, NEW p,
         cg.phase = "SRV_TO_CGI" => /\ ends["srv_out"] # NoFd /\ ends["cgi_in"] = NoFd
                                    /\ ~p.eof /\ p.st = "exit"
  PROVE  \A b, st, n : ConnFed(rq, lb, cg, b, ends, p, st, n)
BY DEF ConnFed, ToStart, Feeding, Bounded

(* What cn_parse_req leaves: a request that starts a program or feeds one  *)
(* has no more buffered and to come than its length, or than was to come.  *)
LEMMA ParsedFed ==
  ASSUME NEW rq \in ReqType, NEW lb, NEW cg \in CgiType, NEW b, NEW ends, NEW p \in ProcType,
         NEW n \in Nat, n = Len(b.rest), ConnFed(rq, lb, cg, b, ends, p, "recv", n),
         NEW w, w.req \in ReqType, NEW m \in Nat, m = Len(w.buf.rest),
         w.req.phase = "BODY" => w.req.rsize > 0, Len(w.last) < BUFSZ,
         cg.phase = "IDLE" => InHeader(rq),
         cg.phase \in {"READY", "SRV_TO_CGI"} => rq.phase = "BODY" /\ rq.type = "DYNAMIC",
         InHeader(rq) /\ InBody(w.req) => m + Most(w.req.rsize, 0) <= w.req.clen,
         rq.phase = "BODY" => /\ InBody(w.req) /\ w.req.type = rq.type
                              /\ m + Most(w.req.rsize, 0) <= rq.rsize
                              /\ w.req.clen = rq.clen,
         NEW st, st \in Early \/ cg.phase = "IDLE",
         st \in {"logerr", "static", "max_fd"},
         st # "logerr" => BufSz(w.buf) < BUFSZ
  PROVE  ConnFed(w.req, w.last, CgiParsed(cg, w.req), w.buf, ends, p, st, m)
<1> DEFINE q == w.req
           c1 == CgiParsed(cg, q)
           k == Most(q.rsize, 0)
<1>1. /\ q.type \in {"STATIC", "DYNAMIC"} /\ q.rsize \in Int /\ q.clen \in Int
      /\ rq.rsize \in Int /\ rq.clen \in Int
  BY DEF ReqType
<1>2. Bounded(q, w.last)
  BY DEF Bounded
<1>3. /\ InBody(q) /\ q.type = "STATIC" => c1.phase = "DISABLED"
      /\ InBody(q) /\ q.type = "DYNAMIC" => c1.phase = IF cg.phase = "IDLE" THEN "READY"
                                                       ELSE cg.phase
      /\ ~InBody(q) => c1 = cg
  BY <1>1 DEF CgiParsed, CgiType
<1>4. k \in Nat
  BY <1>1 DEF Most
<1>5. /\ InHeader(rq) /\ InBody(q) => m + k <= q.clen
      /\ rq.phase = "BODY" => /\ InBody(q) /\ q.type = rq.type
                              /\ m + k <= rq.rsize /\ q.clen = rq.clen
  OBVIOUS
<1> HIDE DEF q, c1, k
<1>6. rq.phase = "BODY" /\ cg.phase \in {"READY", "SRV_TO_CGI"} => Most(rq.rsize, 0) = rq.rsize
  BY <1>1 DEF ConnFed, Bounded, Most
<1>7. ToStart(q, c1, w.buf, st)
  <2> SUFFICES ASSUME c1.phase = "READY" PROVE ToStart(q, c1, w.buf, st)
    BY DEF ToStart
  <2>1. InBody(q) /\ m + k <= q.clen
    <3>1. CASE cg.phase = "IDLE"
      BY <1>3, <1>5, <3>1
    <3>2. CASE cg.phase # "IDLE"
      <4>1. cg.phase = "READY"
        BY <1>1, <1>3, <3>2
      <4>2. n + Most(rq.rsize, 0) <= rq.clen /\ rq.phase = "BODY"
        BY <4>1 DEF ConnFed, ToStart
      <4> QED
        BY <1>1, <1>4, <1>5, <1>6, <4>1, <4>2
    <3> QED
      BY <3>1, <3>2
  <2> QED
    BY <2>1 DEF ToStart, InBody, k, q
<1>8. Feeding(q, c1, w.buf, ends, p, st, m)
  <2> SUFFICES ASSUME c1.phase = "SRV_TO_CGI" PROVE Feeding(q, c1, w.buf, ends, p, st, m)
    BY DEF Feeding
  <2>1. cg.phase = "SRV_TO_CGI" /\ rq.phase = "BODY" /\ st \in Early
    BY <1>1, <1>3
  <2>2. /\ ends["srv_out"] # NoFd /\ ends["cgi_in"] = NoFd
        /\ ~p.eof /\ p.st \in {"run", "exit"}
        /\ p.st = "run" => Fed(p) + n + Most(rq.rsize, 0) <= Most(p.env.clen, 0)
    BY <2>1 DEF ConnFed, Feeding
  <2>3. Fed(p) \in Nat /\ p.env.clen \in Int /\ Most(p.env.clen, 0) \in Int
    <3>1. Fed(p) \in Nat /\ p.env.clen \in Int
      BY FedNat
    <3> QED
      BY <3>1 DEF Most
  <2>4. p.st = "run" => Fed(p) + m + k <= Most(p.env.clen, 0)
    <3> DEFINE f == Fed(p)
               e == Most(p.env.clen, 0)
               s == rq.rsize
    <3>1. f \in Nat /\ e \in Int /\ s \in Int /\ m + k <= s
      BY <1>1, <1>5, <2>1, <2>3
    <3>2. p.st = "run" => f + n + s <= e
      BY <1>6, <2>1, <2>2
    <3> HIDE DEF f, e, s
    <3>3. p.st = "run" => f + m + k <= e
      BY <1>4, <3>1, <3>2
    <3> QED
      BY <3>3 DEF f, e
  <2>5. q.phase \in {"BODY", "DONE"}
    BY <1>5, <2>1 DEF InBody
  <2> QED
    BY <2>1, <2>2, <2>4, <2>5 DEF Feeding, k
<1> QED
  BY <1>2, <1>7, <1>8 DEF ConnFed, q, c1

(* recv_ignore: what a program may be fed is not touched, and a buffer that*)
(* is full of a header is that of a request without a program.             *)
LEMMA RecvIgnoreFed ==
  ASSUME StreamInv, StreamInv', FedInv, NEW c, c = conn, RecvIgnore,
         NotFed(proc[c], proc'[c], pipe[c])
  PROVE  FedConn(c)'
<1> USE DEF loopVars, poolVars, setVars, fdVars, msgVars
<1>1. Visiting /\ pc = "recv"
  BY DEF RecvIgnore, Receiving, At, Visiting
<1>2. CASE DropConn(c)
  BY <1>1, <1>2, DropFed
<1>3. CASE ~DropConn(c)
  <2>1. /\ pc' = "logerr" /\ UNCHANGED <<conns, cur, last_buf, cgi, buf, pipe>>
        /\ IF Overfull(c) THEN ConnErr(c, req[c], 400) ELSE UNCHANGED req
    BY <1>3 DEF RecvIgnore
  <2>2. /\ c \in Client
        /\ ConnFed(req[c], last_buf[c], cgi[c], buf[c], pipe[c], proc[c], "recv", Len(buf[c].rest))
        /\ Stage(c)' = "logerr" /\ Unwritten(c)' = Len(buf'[c].rest)
    BY <1>1, <2>1, TurnFacts, NextStage
  <2>3. /\ req[c] \in ReqType /\ proc[c] \in ProcType /\ proc'[c] \in ProcType
        /\ Len(buf[c].rest) \in Nat /\ BufSz(buf[c]) \in Nat
    BY <2>2, FedFacts DEF StreamInv, SentInv
  <2>4. CASE ~Overfull(c)
    <3>1. "logerr" \in Early
      BY DEF Early
    <3>2. ConnFed(req[c], last_buf[c], cgi[c], buf[c], pipe[c], proc'[c], "logerr",
                  Len(buf[c].rest))
      BY <2>2, <2>3, <3>1, FedStays
    <3> QED
      BY <2>1, <2>2, <2>4, <3>2 DEF FedConn
  <2>5. CASE Overfull(c)
    <3>1. req[c].phase # "ABORT" /\ BUFSZ - BufSz(buf[c]) <= 0
      BY <2>5 DEF Overfull, RecvRoom
    <3>2. BUFSZ \in Nat /\ BUFSZ > 0 /\ ~(BufSz(buf[c]) < BUFSZ)
      BY <2>3, <3>1, ConnAssumption
    <3>3. BufSz(NewBuf) = 0
      BY NewFacts DEF BufSz
    <3>4. cgi[c].phase \notin {"READY", "SRV_TO_CGI"}
      BY <2>2, <3>1, <3>2, <3>3 DEF ConnFed, ToStart, Feeding, Early
    <3>5. req'[c] = AbortReq(req[c])
      BY <2>1, <2>2, <2>5 DEF ConnErr, StreamInv, RInv, MsgType
    <3>6. AbortReq(req[c]).phase = "ABORT"
      BY <2>3 DEF AbortReq, ReqType
    <3>7. Bounded(req'[c], last_buf'[c])
      BY <2>1, <2>2, <3>5, <3>6 DEF ConnFed, Bounded
    <3> QED
      BY <2>1, <3>4, <3>7, FedDone
  <2> QED
    BY <2>4, <2>5
<1> QED
  BY <1>2, <1>3

(* cn_recv and cn_parse_req: what is received of a body is counted.        *)
LEMMA RecvDataFed ==
  ASSUME StreamInv, StreamInv', FedInv, NEW c, c = conn, RecvData,
         NotFed(proc[c], proc'[c], pipe[c])
  PROVE  FedConn(c)'
<1> USE DEF loopVars, poolVars, fdVars
<1>1. Visiting /\ pc = "recv" /\ Receiving
  BY DEF RecvData, Receiving, At, Visiting
<1>2. CASE DropConn(c)
  BY <1>1, <1>2, DropFed
<1>3. CASE ~DropConn(c)
  <2>1. PICK r \in RecvResults(c, RecvRoom(c)) :
          LET b == [buf[c] EXCEPT !.rest = @ \o r.data]
              w == ParseReq(req[c], b, last_buf[c], BufSz(buf[c]))
          IN /\ last_buf' = [last_buf EXCEPT ![c] = w.last]
             /\ buf' = [buf EXCEPT ![c] = w.buf]
             /\ IF w.status # 0
                THEN ConnErr(c, w.req, w.status) /\ UNCHANGED cgi
                ELSE /\ req' = [req EXCEPT ![c] = w.req]
                     /\ cgi' = [cgi EXCEPT ![c] = CgiParsed(cgi[c], w.req)]
             /\ pc' = "logerr"
             /\ UNCHANGED <<conns, cur, pipe>>
    BY <1>3 DEF RecvData
  <2> DEFINE b == [buf[c] EXCEPT !.rest = @ \o r.data]
             w == ParseReq(req[c], b, last_buf[c], BufSz(buf[c]))
  <2>2. pc' = "logerr" /\ UNCHANGED <<conns, cur, pipe>>
    BY <2>1
  <2>3. /\ c \in Client /\ ConnOK(c)
        /\ ConnFed(req[c], last_buf[c], cgi[c], buf[c], pipe[c], proc[c], "recv", Len(buf[c].rest))
        /\ Stage(c)' = "logerr" /\ Unwritten(c)' = Len(buf'[c].rest)
    BY <1>1, <2>2, TurnFacts, NextStage
  <2>4. /\ req[c] \in ReqType /\ proc[c] \in ProcType /\ proc'[c] \in ProcType
        /\ cgi[c] \in CgiType /\ last_buf[c] \in Seq(InUnit)
        /\ Len(buf[c].rest) \in Nat /\ BufSz(buf[c]) \in Nat
        /\ cgi \in [Client -> CgiType] /\ req \in [Client -> ReqType]
        /\ last_buf \in [Client -> Seq(InUnit)] /\ buf \in [Client -> BufType]
    BY <2>3, FedFacts DEF StreamInv, SentInv, IInv, CoreType, RInv, MsgType
  <2>5. /\ RecvRoom(c) > 0 /\ RecvRoom(c) \in Nat /\ req[c].phase \in {"START", "HEADER", "BODY"}
        /\ BufOK(buf[c]) /\ (InHeader(req[c]) => LineFree(buf[c]))
    <3>1. req[c].phase # "ABORT" /\ ~Overfull(c)
      BY DEF RecvData, Ignored
    <3>2. RecvRoom(c) > 0 /\ RecvRoom(c) \in Nat
      BY <2>4, <3>1, ConnAssumption DEF Overfull, RecvRoom
    <3> QED
      BY <1>1, <3>1, <3>2, ReceivingFacts DEF StreamInv
  <2>6. r.data \in Seq(InUnit) /\ Len(r.data) <= RecvRoom(c)
    <3>1. ssl[c] # "handshake"
      BY DEF RecvData
    <3>2. c \in Tls => ssl[c] = "accepted"
      BY <1>1, <3>1, ClearFacts DEF StreamInv
    <3> QED
      BY <2>3, <2>5, <3>2, RecvFacts DEF StreamInv
  <2>7. /\ BufOK(b) /\ b.p <= BufSz(buf[c]) /\ BufSz(buf[c]) <= BufSz(b)
        /\ InHeader(req[c]) => LineFreeUpTo(b, BufSz(buf[c]) - b.p)
    BY <2>5, <2>6, ReceivedFacts DEF RecvRoom
  <2> HIDE DEF b
  <2>8. /\ ReqOK(req[c]) /\ Len(last_buf[c]) <= BUFSZ /\ Len(last_buf[c]) < BUFSZ
        /\ req[c].phase = "BODY" => req[c].rsize > 0
    BY <2>3 DEF ConnOK, ConnFed, Bounded
  <2>9. /\ ParsedOK(w)
        /\ req[c].phase = "BODY" => w.req.type = req[c].type /\ w.req.phase \in {"BODY", "DONE"}
    BY <2>4, <2>5, <2>7, <2>8, ParseReqFacts
  <2>10. /\ w.req.phase = "BODY" => w.req.rsize > 0
         /\ Len(w.last) < BUFSZ
         /\ InHeader(req[c]) /\ InBody(w.req) =>
              Len(w.buf.rest) + Most(w.req.rsize, 0) <= w.req.clen
         /\ req[c].phase = "BODY" =>
              /\ Len(w.buf.rest) + Most(w.req.rsize, 0) <= req[c].rsize
              /\ w.req.clen = req[c].clen
    <3> DEFINE rq == req[c]
               lb == last_buf[c]
               k == BufSz(buf[c])
    <3>1. /\ ReqOK(rq) /\ rq.phase \in {"START", "HEADER", "BODY"} /\ BufOK(b) /\ k \in Nat
          /\ b.p <= k /\ k <= BufSz(b) /\ (InHeader(rq) => LineFreeUpTo(b, k - b.p))
          /\ lb \in Seq(InUnit) /\ Len(lb) < BUFSZ /\ (rq.phase = "BODY" => rq.rsize > 0)
      BY <2>4, <2>5, <2>7, <2>8
    <3>2. w = ParseReq(rq, b, lb, k)
      OBVIOUS
    <3> HIDE DEF w, rq, lb, k
    <3>3. /\ w.req.phase = "BODY" => w.req.rsize > 0
          /\ Len(w.last) < BUFSZ
          /\ InHeader(rq) /\ InBody(w.req) =>
               Len(w.buf.rest) + Most(w.req.rsize, 0) <= w.req.clen
          /\ rq.phase = "BODY" =>
               /\ Len(w.buf.rest) + Most(w.req.rsize, 0) <= rq.rsize
               /\ w.req.clen = rq.clen
      BY <3>1, <3>2, ParseReqLength
    <3> QED
      BY <3>3 DEF rq
  <2>11. /\ last_buf'[c] = w.last /\ buf'[c] = w.buf
         /\ IF w.status # 0 THEN ConnErr(c, w.req, w.status) /\ UNCHANGED cgi
            ELSE /\ req' = [req EXCEPT ![c] = w.req]
                 /\ cgi' = [cgi EXCEPT ![c] = CgiParsed(cgi[c], w.req)]
    BY <2>1, <2>3, <2>4 DEF b
  <2> HIDE DEF w
  <2>12. /\ cgi[c].phase = "IDLE" => InHeader(req[c])
         /\ cgi[c].phase \in {"READY", "SRV_TO_CGI"} =>
              req[c].phase = "BODY" /\ req[c].type = "DYNAMIC"
         /\ InHeader(req[c]) => cgi[c].phase = "IDLE"
    BY <2>3, <2>5, NewFacts DEF ConnOK, Content, Reading, Static, Dynamic, Refused, InHeader
  <2>13. w.req \in ReqType /\ w.buf.rest \in Seq(InUnit) /\ (w.status # 0 <=> w.req.phase = "ABORT")
    BY <2>9 DEF ParsedOK, ReqOK, BufOK
  <2>14. CASE w.status # 0
    <3>1. cgi'[c].phase = "IDLE"
      BY <2>5, <2>9, <2>11, <2>12, <2>13, <2>14 DEF InHeader
    <3>2. req'[c] = AbortReq(w.req) /\ AbortReq(w.req).phase = "ABORT"
      BY <2>3, <2>4, <2>11, <2>13, <2>14 DEF ConnErr, AbortReq, ReqType
    <3>3. Bounded(req'[c], last_buf'[c])
      BY <2>10, <2>11, <3>2 DEF Bounded
    <3> QED
      BY <3>1, <3>3, FedDone
  <2>15. CASE w.status = 0
    <3>1. req'[c] = w.req /\ cgi'[c] = CgiParsed(cgi[c], w.req)
      BY <2>3, <2>4, <2>11, <2>15
    <3>2. ConnFed(req[c], last_buf[c], cgi[c], buf[c], pipe[c], proc'[c], "recv",
                  Len(buf[c].rest))
      <4>0. Len(buf[c].rest) \in Int /\ Len(buf[c].rest) <= Len(buf[c].rest)
        BY <2>4
      <4>1. /\ cgi[c].phase = "READY" => BufSz(buf[c]) < BUFSZ
            /\ cgi[c].phase = "SRV_TO_CGI" /\ req[c].phase # "ABORT" => buf[c] = NewBuf
        BY <2>3 DEF ConnFed, ToStart, Feeding, Early
      <4>2. cgi[c].phase = "READY" =>
              /\ "recv" \in {"recv", "logerr", "prepare", "init_cgi", "static", "max_fd"}
              /\ "recv" \in {"recv", "static", "max_fd"} => BufSz(buf[c]) < BUFSZ
        BY <4>1
      <4>3. cgi[c].phase = "SRV_TO_CGI" /\ req[c].phase # "ABORT"
              /\ "recv" \notin Early \cup {"to_cgi", "write"} => buf[c] = NewBuf
        BY <4>1
      <4> QED
        BY <2>3, <2>4, <4>0, <4>2, <4>3, FedStays
    <3> DEFINE n == Len(buf[c].rest)
               m == Len(w.buf.rest)
               q == proc'[c]
    <3>3. m \in Nat /\ n \in Nat /\ q \in ProcType /\ "logerr" \in Early
      BY <2>4, <2>13, LenProperties DEF Early
    <3>4. ConnFed(req[c], last_buf[c], cgi[c], buf[c], pipe[c], q, "recv", n)
      BY <3>2
    <3>5. req[c].phase = "BODY" => InBody(w.req) /\ w.req.type = req[c].type
      BY <2>9 DEF InBody
    <3>6. ConnFed(w.req, w.last, CgiParsed(cgi[c], w.req), w.buf, pipe[c], q, "logerr", m)
      <4>1. /\ InHeader(req[c]) /\ InBody(w.req) => m + Most(w.req.rsize, 0) <= w.req.clen
            /\ req[c].phase = "BODY" => m + Most(w.req.rsize, 0) <= req[c].rsize
        BY <2>10
      <4>2. m = Len(w.buf.rest) /\ n = Len(buf[c].rest)
        OBVIOUS
      <4> HIDE DEF m, n, q
      <4> QED
        BY <2>4, <2>10, <2>12, <2>13, <3>3, <3>4, <3>5, <4>1, <4>2, ParsedFed
    <3> QED
      BY <2>2, <2>3, <2>11, <3>1, <3>6 DEF FedConn
  <2> QED
    BY <2>14, <2>15
<1> QED
  BY <1>2, <1>3

(* The end of a response: the request piped behind it is read from a buffer*)
(* that has room.                                                          *)
LEMMA FinishFed ==
  ASSUME StreamInv, StreamInv', FedInv, Visiting, NEW c, c = conn,
         NEW clear, NEW next \in {"static", "max_fd"}, Finish(c, clear, next)
  PROVE  FedConn(c)'
<1> USE DEF loopVars, poolVars, fdVars
<1> DEFINE b == BufOf(last_buf[c])
           w == ParseReq(NewReq, b, << >>, 0)
<1>1. CASE ~req[c].alive
  BY <1>1, DropFed DEF Finish
<1>2. CASE req[c].alive
  <2>1. /\ pc' = next /\ UNCHANGED <<conns, cur>>
        /\ req' = [req EXCEPT ![c] = IF w.status # 0 THEN AbortReq(w.req) ELSE w.req]
        /\ last_buf' = [last_buf EXCEPT ![c] = w.last]
        /\ buf' = [buf EXCEPT ![c] = w.buf]
        /\ cgi' = [cgi EXCEPT ![c] = CgiParsed(NewCgi, w.req)]
    BY <1>2 DEF Finish, ResetOrClose
  <2>2. /\ c \in Client /\ ConnOK(c)
        /\ Bounded(req[c], last_buf[c])
        /\ Stage(c)' = next /\ Unwritten(c)' = Len(buf'[c].rest)
    BY <2>1, TurnFacts, NextStage DEF ConnFed
  <2>3. /\ proc'[c] \in ProcType /\ last_buf[c] \in Seq(InUnit)
        /\ cgi \in [Client -> CgiType] /\ req \in [Client -> ReqType]
        /\ last_buf \in [Client -> Seq(InUnit)] /\ buf \in [Client -> BufType]
    BY <2>2, FedFacts DEF StreamInv, SentInv, IInv, CoreType, RInv, MsgType
  <2>4. Len(last_buf[c]) < BUFSZ /\ Len(last_buf[c]) <= BUFSZ
    BY <2>2 DEF ConnOK, Bounded
  <2>5. BufOK(b) /\ b.p = 0 /\ BufSz(b) = Len(last_buf[c])
    <3>1. BufOK(b) /\ b.p = 0 /\ b.rest = last_buf[c]
      BY <2>3, <2>4, NewBufFacts
    <3> HIDE DEF b
    <3> QED
      BY <3>1 DEF BufSz
  <2> HIDE DEF b
  <2>6. b.p <= 0 /\ 0 <= BufSz(b) /\ 0 - b.p = 0 /\ LineFreeUpTo(b, 0 - b.p)
    <3>1. b.p <= 0 /\ 0 <= BufSz(b) /\ 0 - b.p = 0
      BY <2>5 DEF BufSz, BufOK
    <3> QED
      BY <3>1 DEF LineFreeUpTo
  <2>7. << >> \in Seq(InUnit) /\ Len(<< >>) <= BUFSZ /\ Len(<< >>) < BUFSZ /\ 0 \in Nat
    BY ConnAssumption
  <2>8. ReqOK(NewReq) /\ NewReq.phase = "START" /\ NewReq \in ReqType /\ InHeader(NewReq)
    BY NewFacts DEF ReqOK, InHeader
  <2>9. ParsedOK(w)
    BY <2>5, <2>6, <2>7, <2>8, ParseReqFacts
  <2>10. /\ w.req.phase = "BODY" => w.req.rsize > 0
         /\ Len(w.last) < BUFSZ /\ BufSz(w.buf) <= BufSz(b)
         /\ InBody(w.req) => Len(w.buf.rest) + Most(w.req.rsize, 0) <= w.req.clen
    BY <2>5, <2>6, <2>7, <2>8, ParseReqLength
  <2> HIDE DEF w
  <2>11. w.req \in ReqType /\ w.buf.rest \in Seq(InUnit) /\ (w.status # 0 <=> w.req.phase = "ABORT")
    BY <2>9 DEF ParsedOK, ReqOK, BufOK
  <2>12. /\ last_buf'[c] = w.last /\ buf'[c] = w.buf /\ cgi'[c] = CgiParsed(NewCgi, w.req)
         /\ req'[c] = IF w.status # 0 THEN AbortReq(w.req) ELSE w.req
    BY <2>1, <2>2, <2>3
  <2>13. CASE w.status # 0
    <3>1. cgi'[c].phase = "IDLE"
      BY <2>11, <2>12, <2>13, NewFacts DEF CgiParsed, InBody
    <3>2. req'[c].phase = "ABORT"
      BY <2>11, <2>12, <2>13 DEF AbortReq, ReqType
    <3>3. Bounded(req'[c], last_buf'[c])
      BY <2>10, <2>12, <3>2 DEF Bounded
    <3> QED
      BY <3>1, <3>3, FedDone
  <2>14. CASE w.status = 0
    <3> DEFINE m == Len(w.buf.rest)
    <3>1. m \in Nat /\ BufSz(w.buf) < BUFSZ
      <4>1. m \in Nat /\ w.buf.p \in Nat
        BY <2>9, <2>11, LenProperties DEF ParsedOK, BufOK
      <4>2. BufSz(w.buf) \in Nat
        BY <4>1 DEF BufSz
      <4> QED
        BY <2>4, <2>5, <2>10, <4>1, <4>2, <2>3, LenProperties, ConnAssumption
    <3>2. \A ends : ConnFed(NewReq, << >>, NewCgi, NewBuf, ends, proc'[c], "recv", 0)
      <4>1. Bounded(NewReq, << >>)
        BY <2>7, <2>8 DEF Bounded
      <4> QED
        BY <4>1, FedNothing, NewFacts
    <3>3. 0 = Len(NewBuf.rest) /\ NewCgi \in CgiType /\ NewCgi.phase = "IDLE"
      BY NewFacts
    <3>4. ConnFed(w.req, w.last, CgiParsed(NewCgi, w.req), w.buf, pipe'[c], proc'[c], next, m)
      <4>1. InBody(w.req) => m + Most(w.req.rsize, 0) <= w.req.clen
        BY <2>10
      <4>2. m = Len(w.buf.rest)
        OBVIOUS
      <4> HIDE DEF m
      <4> QED
        BY <2>3, <2>7, <2>8, <2>10, <2>11, <3>1, <3>2, <3>3, <4>1, <4>2, ParsedFed
    <3> QED
      BY <2>2, <2>12, <2>14, <3>4 DEF FedConn
  <2> QED
    BY <2>13, <2>14
<1> QED
  BY <1>1, <1>2

(* The handlers that start a program in vain or stop feeding one, and those*)
(* that relay what it writes.                                              *)
LEMMA StoppedFed ==
  ASSUME StreamInv, StreamInv', FedInv, NEW c, c = conn,
         \/ InitCgiNoPipe \/ InitCgiFail \/ FromCgi \/ FromCgiEof \/ FromCgiFail
         \/ ServeDynamic
  PROVE  FedConn(c)'
<1> USE DEF loopVars, poolVars, setVars, fdVars, msgVars
<1>1. Visiting
  BY DEF InitCgiNoPipe, InitCgiFail, FromCgi, FromCgiEof, FromCgiFail, Streaming,
     ServeDynamic, ServingDynamic, At, Visiting
<1>2. c \in Client /\ ConnOK(c) /\ Bounded(req[c], last_buf[c])
  BY <1>1, TurnFacts DEF ConnFed
<1>3. /\ cgi \in [Client -> CgiType] /\ cgi[c] \in CgiType
      /\ req \in [Client -> ReqType] /\ req[c] \in ReqType
  BY <1>2 DEF StreamInv, IInv, CoreType, RInv, MsgType
<1>4. CASE DropConn(c)
  BY <1>1, <1>4, DropFed
<1>5. CASE ~DropConn(c)
  <2>1. /\ last_buf' = last_buf
        /\ \/ req' = req
           \/ req' = [req EXCEPT ![c] = AbortReq(req[c])]
    BY <1>5 DEF InitCgiNoPipe, InitCgiFail, CgiFailed, ConnErr, FromCgi, FromCgiEof,
       FromCgiFail, ServeDynamic
  <2>2. AbortReq(req[c]).phase = "ABORT"
    BY <1>3 DEF AbortReq, ReqType
  <2>3. req'[c] = req[c] \/ req'[c].phase = "ABORT"
    BY <1>2, <1>3, <2>1, <2>2
  <2>4. Bounded(req'[c], last_buf'[c])
    BY <1>2, <2>1, <2>3 DEF Bounded
  <2>5. cgi'[c].phase \notin {"READY", "SRV_TO_CGI"}
    <3>1. CASE InitCgiNoPipe \/ InitCgiFail
      <4>1. cgi'[c] = [cgi[c] EXCEPT !.phase = "ABORT"]
        BY <1>2, <1>3, <3>1 DEF InitCgiNoPipe, InitCgiFail, CgiFailed
      <4> QED
        BY <1>3, <4>1 DEF CgiType
    <3>2. CASE FromCgiEof
      <4>1. cgi'[c] = [cgi[c] EXCEPT !.phase = "DONE", !.buf_phase = "SEND"]
        BY <1>2, <1>3, <3>2 DEF FromCgiEof
      <4> QED
        BY <1>3, <4>1 DEF CgiType
    <3>3. CASE FromCgiFail
      <4>1. cgi'[c] = [cgi[c] EXCEPT !.phase = "ABORT"]
        BY <1>2, <1>3, <3>3 DEF FromCgiFail
      <4> QED
        BY <1>3, <4>1 DEF CgiType
    <3>4. CASE FromCgi
      <4>1. cgi'[c] = [cgi[c] EXCEPT !.buf_phase = "SEND"] /\ cgi[c].phase = "CGI_TO_SRV"
        BY <1>2, <1>3, <3>4 DEF FromCgi, Streaming
      <4> QED
        BY <1>3, <4>1 DEF CgiType
    <3>5. CASE ServeDynamic
      <4>1. cgi'[c] = cgi[c] \/ cgi'[c] = [cgi[c] EXCEPT !.buf_phase = "RECV"]
        BY <1>2, <1>3, <1>5, <3>5 DEF ServeDynamic
      <4>2. cgi[c].buf_phase = "SEND"
        BY <3>5 DEF ServeDynamic, ServingDynamic
      <4>3. cgi[c].phase \notin {"READY", "SRV_TO_CGI"}
        BY <1>2, <4>2, NewFacts DEF ConnOK, Content, Reading, Static, Dynamic, Refused
      <4> QED
        BY <1>3, <4>1, <4>3 DEF CgiType
    <3> QED
      BY <3>1, <3>2, <3>3, <3>4, <3>5
  <2> QED
    BY <2>4, <2>5, FedDone
<1> QED
  BY <1>4, <1>5

(* EPIPE: the program is gone, its request is given up.                    *)
LEMMA WriteFailFed ==
  ASSUME StreamInv, StreamInv', FedInv, NEW c, c = conn, WriteFail
  PROVE  FedConn(c)'
<1> USE DEF loopVars, poolVars, setVars, fdVars, msgVars
<1>1. /\ Visiting /\ pc' = "from_cgi" /\ UNCHANGED <<conns, cur, last_buf, cgi, buf, pipe, proc>>
      /\ NoReader(c) /\ req' = [req EXCEPT ![c] = AbortReq(req[c])]
  BY DEF WriteFail, ConnErr, writeUnchanged, At, Visiting
<1>2. /\ c \in Client
      /\ ConnFed(req[c], last_buf[c], cgi[c], buf[c], pipe[c], proc[c], pc, Unwritten(c))
      /\ cgi[c].phase = "SRV_TO_CGI"
  BY <1>1, TurnFacts DEF StreamInv, IInv, Writing, WriteFail, At, conn
<1>3. req \in [Client -> ReqType] /\ req[c] \in ReqType
  BY <1>2 DEF StreamInv, RInv, MsgType
<1>4. AbortReq(req[c]).phase = "ABORT"
  BY <1>3 DEF AbortReq, ReqType
<1>5. req'[c].phase = "ABORT"
  BY <1>1, <1>2, <1>3, <1>4
<1>6. proc[c].st = "exit"
  BY <1>1 DEF NoReader, Hangup
<1>7. /\ pipe[c]["srv_out"] # NoFd /\ pipe[c]["cgi_in"] = NoFd /\ ~proc[c].eof
      /\ Len(last_buf[c]) < BUFSZ
  BY <1>2 DEF ConnFed, Feeding, Bounded
<1>8. ConnFed(req'[c], last_buf'[c], cgi'[c], buf'[c], pipe'[c], proc'[c],
              Stage(c)', Unwritten(c)')
  BY <1>1, <1>2, <1>5, <1>6, <1>7, AbortedFed
<1> QED
  BY <1>8 DEF FedConn

(* Once all is written the buffer is empty, and at the end of the body the *)
(* program's input is closed.                                              *)
LEMMA WriteDoneFed ==
  ASSUME StreamInv, StreamInv', FedInv, NEW c, c = conn, WriteDone,
         NotFed(proc[c], proc'[c], pipe[c])
  PROVE  FedConn(c)'
<1> USE DEF loopVars, poolVars, setVars, fdVars, msgVars
<1>1. /\ Visiting /\ pc = "write" /\ pc' = "from_cgi" /\ wr.rsize = 0
      /\ UNCHANGED <<conns, cur, req, last_buf>>
      /\ buf' = [buf EXCEPT ![c] = NewBuf]
  BY DEF WriteDone, writeUnchanged, At, Visiting
<1>2. /\ c \in Client
      /\ ConnFed(req[c], last_buf[c], cgi[c], buf[c], pipe[c], proc[c], pc, Unwritten(c))
      /\ Unwritten(c) = wr.rsize - wr.took
      /\ Stage(c)' = "from_cgi" /\ Unwritten(c)' = Len(buf'[c].rest)
  BY <1>1, TurnFacts, NextStage
<1>3. /\ cgi \in [Client -> CgiType] /\ buf \in [Client -> BufType]
      /\ req[c] \in ReqType /\ proc[c] \in ProcType /\ proc'[c] \in ProcType
      /\ cgi[c] \in CgiType /\ wr.took \in Nat /\ wr.took <= wr.rsize
      /\ cgi[c].phase = "SRV_TO_CGI"
  BY <1>1, <1>2 DEF StreamInv, IInv, CoreType, Writing, conn, RInv, MsgType, SentInv, WriteLeft
<1>4. buf'[c] = NewBuf /\ Unwritten(c)' = 0 /\ Unwritten(c) = 0
  <2>1. buf'[c] = NewBuf
    BY <1>1, <1>2, <1>3
  <2>2. Len(NewBuf.rest) = 0
    BY NewFacts
  <2> QED
    BY <1>1, <1>2, <1>3, <2>1, <2>2
<1>5. CASE req[c].phase = "DONE"
  <2>1. cgi'[c] = [cgi[c] EXCEPT !.phase = "CGI_TO_SRV"]
    BY <1>2, <1>3, <1>5 DEF WriteDone
  <2>2. cgi'[c].phase = "CGI_TO_SRV"
    BY <1>3, <2>1 DEF CgiType
  <2>3. Bounded(req'[c], last_buf'[c])
    BY <1>1, <1>2 DEF ConnFed
  <2> QED
    BY <2>2, <2>3, FedDone
<1>6. CASE req[c].phase # "DONE"
  <2>1. UNCHANGED <<pipe, cgi>>
    BY <1>6 DEF WriteDone
  <2>2. ConnFed(req[c], last_buf[c], cgi[c], NewBuf, pipe[c], proc[c], pc, 0)
    BY <1>1, <1>2, <1>3, <1>4 DEF ConnFed, ToStart, Feeding
  <2>3. ConnFed(req[c], last_buf[c], cgi[c], NewBuf, pipe[c], proc'[c], "from_cgi", 0)
    <3>1. 0 \in Int /\ 0 <= 0 /\ cgi[c].phase # "READY"
      BY <1>3
    <3> QED
      BY <1>3, <2>2, <3>1, FedStays
  <2> QED
    BY <1>1, <1>2, <1>4, <2>1, <2>3 DEF FedConn
<1> QED
  BY <1>5, <1>6

(* The handlers that end a response, or send a part of it.                 *)
LEMMA ServingFed ==
  ASSUME StreamInv, StreamInv', FedInv, NEW c, c = conn,
         HandshakeFail \/ DynamicEnd \/ SendErrorPage \/ SendHeader \/ SendBody
  PROVE  FedConn(c)'
<1> USE DEF loopVars, poolVars, setVars, fdVars, msgVars
<1>1. Visiting
  BY DEF HandshakeFail, Receiving, DynamicEnd, ServingDynamic, SendErrorPage, SendHeader,
     SendBody, ServingStatic, At, Visiting
<1>2. /\ c \in Client /\ ConnOK(c)
      /\ ConnFed(req[c], last_buf[c], cgi[c], buf[c], pipe[c], proc[c], pc, Unwritten(c))
  BY <1>1, TurnFacts
<1>3. CASE DropConn(c) \/ Finish(c, TRUE, "static") \/ Finish(c, FALSE, "max_fd")
  BY <1>1, <1>3, DropFed, FinishFed
<1>4. CASE ~(DropConn(c) \/ Finish(c, TRUE, "static") \/ Finish(c, FALSE, "max_fd"))
  <2>1. /\ SendErrorPage \/ SendHeader \/ SendBody
        /\ UNCHANGED <<req, last_buf, cgi, pipe, proc>>
    BY <1>4 DEF HandshakeFail, DynamicEnd, SendErrorPage, SendHeader, SendBody,
       staticUnchanged
  <2>2. CASE SendErrorPage
    <3>1. resp[c].phase = "ABORT"
      BY <2>2 DEF SendErrorPage
    <3>2. req[c].phase = "ABORT"
      BY <1>2, <3>1, NewFacts DEF ConnOK, Content, Reading, Static, Dynamic, Refused
    <3>3. /\ cgi[c].phase # "READY" /\ Len(last_buf[c]) < BUFSZ
          /\ cgi[c].phase = "SRV_TO_CGI" =>
               /\ pipe[c]["srv_out"] # NoFd /\ pipe[c]["cgi_in"] = NoFd
               /\ ~proc[c].eof /\ proc[c].st = "exit"
      BY <1>2, <3>2 DEF ConnFed, ToStart, Feeding, Bounded
    <3>4. ConnFed(req'[c], last_buf'[c], cgi'[c], buf'[c], pipe'[c], proc'[c],
                  Stage(c)', Unwritten(c)')
      BY <2>1, <3>2, <3>3, AbortedFed
    <3> QED
      BY <3>4 DEF FedConn
  <2>3. CASE SendHeader \/ SendBody
    <3>1. resp[c].phase \in {"HEADER", "BODY"}
      BY <2>3 DEF SendHeader, SendBody
    <3>2. cgi[c].phase = "DISABLED"
      BY <1>2, <3>1, NewFacts DEF ConnOK, Content, Reading, Static, Dynamic, Refused
    <3>3. cgi'[c].phase \notin {"READY", "SRV_TO_CGI"} /\ Bounded(req'[c], last_buf'[c])
      BY <1>2, <2>1, <3>2 DEF ConnFed
    <3> QED
      BY <3>3, FedDone
  <2> QED
    BY <2>1, <2>2, <2>3
<1> QED
  BY <1>3, <1>4

(* The connection whose turn it is.                                        *)
LEMMA VisitFed ==
  ASSUME StreamInv, StreamInv', FedInv, [Next]_vars, NEW c \in Client, AtTurn(c)
  PROVE  FedConn(c)' /\ NotOverfed(proc'[c])
<1>1. /\ Visiting /\ c = conn /\ IInv /\ RInv /\ SentInv
      /\ proc[c] \in ProcType /\ proc'[c] \in ProcType
  BY DEF AtTurn, StreamInv, SentInv
<1>2. CASE InitCgi
  BY <1>1, <1>2, InitCgiFed
<1>3. CASE WriteSome
  BY <1>1, <1>3, WriteSomeFed
<1>4. CASE ~InitCgi /\ ~WriteSome
  <2>1. NotFed(proc[c], proc'[c], pipe[c])
    BY <1>1, <1>4, FedByServer
  <2>2. NotOverfed(proc'[c])
    BY <1>1, <2>1, NotOverfedStays DEF FedInv
  <2>3. FedConn(c)'
    <3>1. CASE \/ RecvSkip \/ Handshake \/ LogErr \/ InitCgiSkip \/ ForSelect \/ ToCgi
               \/ WriteShort \/ FromCgiSkip \/ DynamicSkip \/ StaticSkip \/ MaxFd
      BY <1>1, <2>1, <3>1, PassingFed
    <3>2. CASE RecvIgnore
      BY <1>1, <2>1, <3>2, RecvIgnoreFed
    <3>3. CASE RecvData
      BY <1>1, <2>1, <3>3, RecvDataFed
    <3>4. CASE Prepare
      BY <1>1, <2>1, <3>4, PrepareFed
    <3>5. CASE \/ InitCgiNoPipe \/ InitCgiFail \/ FromCgi \/ FromCgiEof \/ FromCgiFail
               \/ ServeDynamic
      BY <1>1, <3>5, StoppedFed
    <3>6. CASE WriteFail
      BY <1>1, <3>6, WriteFailFed
    <3>7. CASE WriteDone
      BY <1>1, <2>1, <3>7, WriteDoneFed
    <3>8. CASE HandshakeFail \/ DynamicEnd \/ SendErrorPage \/ SendHeader \/ SendBody
      BY <1>1, <3>8, ServingFed
    <3>9. CASE UNCHANGED <<pc, cur, conns, wr, req, last_buf, cgi, buf, pipe>>
      <4>1. /\ ConnFed(req[c], last_buf[c], cgi[c], buf[c], pipe[c], proc[c], pc, Unwritten(c))
            /\ Stage(c) = pc
        BY <1>1, TurnFacts, VisitFacts
      <4>2. Stage(c)' = pc /\ Unwritten(c)' = Unwritten(c)
        <5>1. Stage(c)' = Stage(c)
          BY <3>9 DEF Stage
        <5> QED
          BY <3>9, <4>1, <5>1 DEF Unwritten
      <4>3. Unwritten(c) \in Int /\ Unwritten(c) <= Unwritten(c) /\ req[c] \in ReqType
        BY <1>1, FedFacts
      <4>4. /\ cgi[c].phase = "READY" =>
                 /\ pc \in {"recv", "logerr", "prepare", "init_cgi", "static", "max_fd"}
                 /\ pc \in {"recv", "static", "max_fd"} => BufSz(buf[c]) < BUFSZ
            /\ cgi[c].phase = "SRV_TO_CGI" /\ req[c].phase # "ABORT"
                 /\ pc \notin Early \cup {"to_cgi", "write"} => buf[c] = NewBuf
        BY <4>1 DEF ConnFed, ToStart, Feeding
      <4>5. ConnFed(req[c], last_buf[c], cgi[c], buf[c], pipe[c], proc'[c], pc, Unwritten(c))
        BY <1>1, <2>1, <4>1, <4>3, <4>4, FedStays
      <4> QED
        BY <3>9, <4>2, <4>5 DEF FedConn
    <3>10. CASE Clients \/ Programs \/ UNCHANGED vars
      BY <3>9, <3>10 DEF Clients, Connect, ClientSend, ClientRead, ClientHalfClose,
         ClientLeave, serverUnchanged, Programs, CgiRead, CgiEof, CgiWrite, CgiErr, CgiExit,
         cgiUnchanged, vars, loopVars, poolVars, fdVars, msgVars
    <3>11. CASE Select \/ AcceptSkip \/ AcceptRefuse \/ AcceptConn \/ LoopEnd
      <4>1. cur \in Nat /\ Len(conns) \in Nat
        BY <1>1, LenProperties DEF IInv, CoreType, PoolTypeOK
      <4> QED
        BY <1>1, <3>11, <4>1 DEF Select, AcceptSkip, AcceptRefuse, AcceptConn, Accepting,
                                 LoopEnd, Visiting
    <3> QED
      BY <1>4, <3>1, <3>2, <3>3, <3>4, <3>5, <3>6, <3>7, <3>8, <3>10, <3>11
         DEF Next, Server
  <2> QED
    BY <2>2, <2>3
<1> QED
  BY <1>2, <1>3, <1>4

(* The step of the invariant.                                              *)
LEMMA NextFed ==
  ASSUME StreamInv, StreamInv', FedInv, [Next]_vars
  PROVE  FedInv'
<1>1. ASSUME NEW c \in Client PROVE FedConn(c)' /\ NotOverfed(proc'[c])
  <2>1. CASE AtTurn(c)
    BY <2>1, VisitFed
  <2>2. CASE ~AtTurn(c)
    BY <2>2, OthersFed
  <2> QED
    BY <2>1, <2>2
<1> QED
  BY <1>1 DEF FedInv

(* No connection, and no program, at the start.                            *)
LEMMA InitFed == Init => FedInv
<1> SUFFICES ASSUME Init, NEW c \in Client PROVE FedConn(c) /\ NotOverfed(proc[c])
  BY DEF FedInv
<1>1. fd[c] = NoFd /\ proc[c] = NewProc
  BY DEF Init
<1>2. NewProc.st = "none"
  BY DEF NewProc
<1> QED
  BY <1>1, <1>2 DEF FedConn, InPool, NotOverfed

(* FedInv is an inductive invariant beside StreamInv: what a program was   *)
(* given, what the buffer holds for it and what is still to come of the    *)
(* body never exceed the length it was told.                               *)
THEOREM FedInvariant == Spec => [](StreamInv /\ FedInv)
<1>1. Init => FedInv
  BY InitFed
<1>2. StreamInv /\ StreamInv' /\ FedInv /\ [Next]_vars => FedInv'
  BY NextFed
<1> QED
  BY <1>1, <1>2, StreamInvariant, PTL DEF Spec

(* No program gets a unit beyond the CONTENT_LENGTH it was told, whatever  *)
(* the pieces in which the body is received, counted and written and       *)
(* whatever is piped behind it; and it sees no end of its input while it is*)
(* still fed (conn.c cn_parse_req, cn_stream_to_cgi; cgi.c cgi_init).      *)
THEOREM ProgramsGetTheirBody == Spec => []InputFed
<1>1. StreamInv /\ FedInv => InputFed
  <2> SUFFICES ASSUME StreamInv, FedInv, NEW c \in Client, proc[c].st # "none"
               PROVE  /\ Len(proc[c].seen) + Len(proc[c].stdin) <= Most(proc[c].env.clen, 0)
                      /\ InPool(c) /\ cgi[c].phase = "SRV_TO_CGI" => ~proc[c].eof
    BY DEF InputFed
  <2>1. Fed(proc[c]) <= Most(proc[c].env.clen, 0)
    BY DEF FedInv, NotOverfed
  <2>2. InPool(c) /\ cgi[c].phase = "SRV_TO_CGI" => ~proc[c].eof
    BY DEF FedInv, FedConn, ConnFed, Feeding
  <2> QED
    BY <2>1, <2>2 DEF Fed
<1> QED
  BY <1>1, FedInvariant, PTL
=============================================================================
