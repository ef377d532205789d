--------------------------- MODULE LisoProperties ---------------------------
(***************************************************************************)
(* What the server owes its clients and itself.  The clients of this       *)
(* module send well-defined requests: Requests says what each of them      *)
(* means, Encode how it is written on the wire, Reply what it must get.    *)
(***************************************************************************)
EXTENDS Liso

CONSTANT Requests     \* the requests of each client, in order

SeqX == INSTANCE SequencesExt

(* A request: clen is the Content-Length announced (-1: none), body the    *)
(* length of the body sent, end how it stands with the connection.         *)
Request ==
  [method: Methods, uri: Uri, clen: Nat \cup {-1}, body: Nat, close: BOOLEAN,
   junk: BOOLEAN]

Ask(m, u) ==
  [method |-> m, uri |-> u, clen |-> -1, body |-> 0, close |-> FALSE, junk |-> FALSE]
Post(u, n) == [Ask("POST", u) EXCEPT !.clen = n, !.body = n]
Closing(r) == [r EXCEPT !.close = TRUE]

(* The i-th unit of the body of the q-th request of a connection.          *)
BodyOf(r, q) == [i \in 1..r.body |-> [k |-> "body", i |-> 10 * q + i]]

Line(text) == << text, LF >>
Encode(r, q) ==
  Line([k |-> "start", method |-> r.method, uri |-> r.uri])
    \o (IF r.clen >= 0 THEN Line([k |-> "clen", n |-> r.clen]) ELSE << >>)
    \o (IF r.close THEN Line([k |-> "close"]) ELSE << >>)
    \o (IF r.junk THEN Line([k |-> "junk"]) ELSE << >>)
    \o << LF >> \o BodyOf(r, q)

Wire(rs) == SeqX!FlattenSeq([q \in 1..Len(rs) |-> Encode(rs[q], q)])

(* The units s cut in segments that end at the given positions.            *)
Cut(s, ends) ==
  [i \in 1 .. Len(ends) + 1 |->
     SubSeq(s, IF i = 1 THEN 1 ELSE ends[i - 1] + 1,
               IF i > Len(ends) THEN Len(s) ELSE ends[i])]

(* The reply of a server that keeps its word: the header within BUFSZ      *)
(* (request.h), no body in answer to HEAD.                                 *)
ErrorReply(r, status) ==
  RespHdr(status, 1, ~r.close)
    \o (IF r.method = "HEAD" THEN << >> ELSE RespMsg(status))

Reply(r) ==
  IF Len(Encode(r, 1)) - r.body > BUFSZ THEN ErrorReply(r, 400)
  ELSE IF r.method = "OTHER" THEN ErrorReply([r EXCEPT !.close = FALSE], 501)
  ELSE IF r.junk THEN ErrorReply(r, 400)
  ELSE IF r.method = "POST" /\ r.clen < 0 THEN ErrorReply(r, 411)
  ELSE IF r.uri \in CgiUri THEN [i \in 1..OUTSZ |-> CgiUnit(i)]
  ELSE IF FileSize[r.uri] < 0 THEN ErrorReply(r, 404)
  ELSE RespHdr(200, FileSize[r.uri], ~r.close)
         \o (IF r.method = "HEAD" THEN << >> ELSE FileUnits(r.uri))

Replies ==
  [c \in Client |-> [q \in 1..Len(Requests[c]) |-> Reply(Requests[c][q])]]
Expected(c) == SeqX!FlattenSeq(Replies[c])

-----------------------------------------------------------------------------
(* Types                                                                   *)

(* The variables of the pool and of the descriptor table.                  *)
PoolTypeOK ==
  /\ pc \in Labels
  /\ cur \in Nat \ {0}
  /\ top \in Nat
  /\ conns \in Seq(Client)
  /\ max_fd \in Nat
  /\ read_set \subseteq Fd /\ write_set \subseteq Fd
  /\ read_ready \subseteq Fd /\ write_ready \subseteq Fd
  /\ idx \in [Client -> Nat]
  /\ fd \in [Client -> Fd \cup {NoFd}]
  /\ pipe \in [Client -> [Ends -> Fd \cup {NoFd}]]
  /\ fdt \in [Fd -> Desc]

ProcType ==
  [st: {"none", "run", "exit"}, stdin: Seq(InUnit \cup OutUnit),
   seen: Seq(InUnit \cup OutUnit), eof: BOOLEAN, stdout: Seq(OutUnit), made: 0..OUTSZ,
   err: BOOLEAN, held: SUBSET (Client \X Ends),
   env: [method: Methods, uri: Uri \cup {""}, clen: Nat \cup {-1}, alive: BOOLEAN]]

(* Every variable holds what its C declaration and its bounds allow: the   *)
(* enumerations of request.h, response.h and cgi.h, buffers of at most     *)
(* BUFSZ units (buffer.h: "<= BUFSZ"), descriptors of the process.         *)
TypeOK ==
  /\ PoolTypeOK
  /\ wr \in [rsize: Nat, took: Nat]
  /\ \A c \in Client :
       /\ req[c] \in ReqType /\ resp[c] \in RespType /\ cgi[c] \in CgiType
       /\ buf[c] \in BufType /\ BufSz(buf[c]) <= BUFSZ
       /\ last_buf[c] \in Seq(InUnit) /\ Len(last_buf[c]) <= BUFSZ
       /\ ssl[c] \in {"none", "handshake", "accepted"}
       /\ pend[c] \in Seq(InUnit)
       /\ inq[c] \in Seq(WireUnit) /\ out[c] \in Seq(OutUnit)
       /\ link[c] \in {"off", "open", "half", "gone"}
       /\ sent[c] \in Nat /\ taken[c] \in 0..Len(out[c])
       /\ proc[c] \in ProcType
  /\ backlog \subseteq Client

-----------------------------------------------------------------------------
(* The pool and the descriptors                                            *)

(* select fails with EBADF at once, for ever, if a set names a descriptor  *)
(* that was closed (lisod.c main, select): each one in a set is open, and  *)
(* write_set holds sockets of the pool only.  Whoever closes a descriptor  *)
(* has to remove it (pl_del_conn: "order matters; we want to clear all").  *)
SelectSetsOpen ==
  /\ \A f \in read_set : fdt[f].what \in {"listen", "sock", "srv_in", "srv_err"}
  /\ \A f \in write_set : fdt[f].what = "sock"

(* No two fields hold the same descriptor and none is a stale number: what *)
(* a connection calls its socket or its pipe end is that very object in    *)
(* the kernel, so that a close or a send never hits another connection's.  *)
(* Conversely an open socket or pipe end is still known to its connection. *)
FdsOwned ==
  /\ \A c \in Client : fd[c] # NoFd => fdt[fd[c]] = Own(c, "sock")
  /\ \A c \in Client, e \in Ends :
       pipe[c][e] # NoFd => fdt[pipe[c][e]] = Own(c, e)
  /\ \A f \in Fd, c \in Client :
       /\ fdt[f] = Own(c, "sock") => fd[c] = f
       /\ \A e \in Ends : fdt[f] = Own(c, e) => pipe[c][e] = f

(* pool.c replaces a deleted connection by the last one: every connection  *)
(* knows its place, no connection is in the array twice, and exactly those *)
(* in the array have a socket (README.md, Pool).                           *)
PoolIndexed ==
  /\ \A i \in 1..Len(conns) : idx[conns[i]] = i
  /\ \A c \in Client : fd[c] # NoFd <=> \E i \in 1..Len(conns) : conns[i] = c
  /\ Len(conns) <= MAX_CONNS

(* select looks at descriptors up to max_fd only: when it is called, max_fd*)
(* covers both sets, although it is recomputed while connections are       *)
(* dropped, swapped and given new pipes during the loop.                   *)
MaxFdCovers ==
  pc = "select" => \A f \in read_set \cup write_set : f <= max_fd

(* Nothing stays open for a connection that was dropped (README.md: the    *)
(* server should "clean up connection resource in FatCb").                 *)
CleanedUp == \A f \in Fd : "who" \in DOMAIN fdt[f] => fd[fdt[f].who] # NoFd

(* An fd_set has FD_SETSIZE bits (cgi.c cgi_init, "fd used up!").          *)
MaxFdSelectable == max_fd < FD_SETSIZE

(* A step within a pass of the loop keeps the places already visited.      *)
VisitedKept ==
  pc \notin {"select", "accept", "accept_ssl"} /\ pc' # "select" =>
    /\ \A i \in 1 .. cur - 1 : i <= Len(conns') /\ conns'[i] = conns[i]
    /\ \/ cur' = cur
       \/ cur' = cur + 1 /\ pc = "max_fd" /\ conns' = conns

(* Dropping a connection inside the loop (i -= 1; continue) neither skips  *)
(* one nor visits one twice: the places already visited keep their         *)
(* connection, and cur moves on only past the connection it served.        *)
VisitedStay == [][VisitedKept]_vars

(* Where the loop over the array stands: the connections at cur and beyond *)
(* are still to be visited; the one at cur is being visited once cn_recv   *)
(* is over.                                                                *)
Serving == pc \notin {"select", "accept", "accept_ssl"}
RoundPhase == IF pc = "select" THEN "wait" ELSE IF Serving THEN "serve" ELSE "join"
Members == {c \in Client : fd[c] # NoFd}
Todo ==
  IF ~Serving THEN {}
  ELSE {conns[i] : i \in (IF pc = "recv" THEN cur ELSE cur + 1) .. Len(conns)}
Turn == IF Serving /\ pc # "recv" THEN {conns[cur]} ELSE {}

Rounds == INSTANCE PoolRounds WITH
  phase <- RoundPhase, members <- Members, todo <- Todo, turn <- Turn

(* The array, the index and i -= 1 implement rounds: between two calls of  *)
(* select each connection of the pool is visited, exactly once, although   *)
(* pl_del_conn moves the last connection of the array to the place of the  *)
(* one deleted (lisod.c main, pool.c).                                     *)
VisitsAll == Rounds!Spec

-----------------------------------------------------------------------------
(* Requests and responses                                                  *)

InPool(c) == fd[c] # NoFd

(* A client gets the responses to its requests, in order, each complete    *)
(* before the next one starts and nothing else, whatever the cuts of the   *)
(* stream, the room to send, and the other connections do.                 *)
ResponsesInOrder ==
  \A c \in Client : SeqX!IsPrefix(out[c], Expected(c))

(* A CGI program's environment and its input belong to one and the same    *)
(* request: CONTENT_LENGTH, if any, announces the body it reads, and the   *)
(* end of its input comes after the last unit (envp_new, cn_stream_to_cgi; *)
(* lisod.c, "cgi stream out/in transition"), unless the connection was     *)
(* dropped.                                                                *)
BodyFidelity ==
  \A c \in Client : proc[c].st # "none" =>
    \E q \in 1..Len(Requests[c]) :
      LET r == Requests[c][q]
          body == BodyOf(r, q)
      IN /\ proc[c].env = [method |-> r.method, uri |-> r.uri, alive |-> ~r.close,
                           clen |-> IF body = << >> THEN -1 ELSE Len(body)]
         /\ SeqX!IsPrefix(proc[c].seen, body)
         /\ proc[c].eof /\ InPool(c) => proc[c].seen = body

(* cn_parse_req looks for ends of line in what was received last only      *)
(* ("TODO ok to start with last_recv_end?"): it never leaves a whole line  *)
(* unparsed in the buffer of a connection that waits for more.             *)
NoLineLeft ==
  \A c \in Client :
    pc = "select" /\ InPool(c) /\ req[c].phase \in {"START", "HEADER"} =>
      \A i \in 1..Len(buf[c].rest) : buf[c].rest[i] # LF

(* While select waits, the socket of a connection is read as long as its   *)
(* request is not complete and no longer: what a client sends meanwhile    *)
(* stays in the kernel, and cn_parse_req never meets a request that is     *)
(* done.                                                                   *)
Backpressure ==
  pc = "select" => \A c \in Client : InPool(c) =>
    /\ req[c].phase = "DONE" => fd[c] \notin read_set
    /\ req[c].phase \in {"START", "HEADER", "BODY"} => fd[c] \in read_set

(* The server takes data from the socket of a connection that it keeps.    *)
Takes(c) ==
  /\ InPool(c) /\ InPool(c)'
  /\ UNCHANGED sent[c] /\ <<inq[c], pend[c]>>' # <<inq[c], pend[c]>>

(* Header, file and CGI output share the buffer that requests are received *)
(* in.  Something is sent only to a connection whose request is complete   *)
(* and whose socket is not read, or as the error page of a request that was*)
(* refused; and what the client sends next does not mix with it.  Behind a *)
(* complete request nothing is taken from the socket, though select may    *)
(* have found it readable before; behind a refused one it still is read    *)
(* (lisod.c 452), and what comes is thrown away (conn.c recv_ignore).      *)
RepliesWait ==
  [][\A c \in Client :
       /\ out'[c] # out[c] =>
            \/ req[c].phase = "DONE" /\ fd[c] \notin read_set
            \/ req[c].phase = "ABORT" /\ resp[c].phase = "ABORT"
       /\ Takes(c) =>
            \/ req[c].phase \in {"START", "HEADER", "BODY"}
            \/ /\ req[c].phase = "ABORT"
               /\ UNCHANGED <<req[c], buf[c], last_buf[c]>>]_vars

(* While select waits, each connection of the pool has a descriptor in a   *)
(* set whose event will bring it forward: its socket, or its CGI program's *)
(* output.                                                                 *)
Awaited ==
  pc = "select" => \A c \in Client : InPool(c) =>
    \/ fd[c] \in read_set \cup write_set
    \/ pipe[c]["srv_in"] \in read_set

(* A client that is still there is dropped only once it has all it asked   *)
(* for (README.md, Connection: FatCb is for fatal errors, "e.g. when client*)
(* is lost").                                                              *)
DroppedWhenServed ==
  [][\A c \in Client :
       InPool(c) /\ fd'[c] = NoFd /\ link[c] = "open" => out'[c] = Expected(c)]_vars

-----------------------------------------------------------------------------
(* Replies and inputs, whatever the constants                              *)

EndsWith(s, t) ==
  Len(t) <= Len(s) /\ SubSeq(s, Len(s) - Len(t) + 1, Len(s)) = t

(* The answer to a request for a file, and what is left of it to send.     *)
FileReply(rq) == RespHdr(200, FileSize[rq.uri], rq.alive) \o FileUnits(rq.uri)
Unsent(c) ==
  CASE resp[c].phase = "HEADER" -> buf[c].rest \o resp[c].mmbuf
    [] resp[c].phase = "BODY"   -> resp[c].mmbuf

(* A file goes out whole and in order over any number of partial sends, in *)
(* as many passes, while other connections are served and dropped: what was*)
(* sent and what is left are the header and the file (response.c,          *)
(* cn_serve_static).                                                       *)
FilesWhole ==
  \A c \in Client :
    InPool(c) /\ resp[c].phase \in {"HEADER", "BODY"} /\ link[c] # "gone" =>
      EndsWith(out[c] \o Unsent(c), FileReply(req[c]))

(* Until it ends, no step loses, repeats or overtakes a unit of it: units  *)
(* only move from what is left to what was sent.                           *)
FilesOnce ==
  [][\A c \in Client :
       /\ InPool(c)' /\ resp[c].phase \in {"HEADER", "BODY"}
       /\ resp'[c].phase \in {"HEADER", "BODY"} /\ link'[c] # "gone"
       => out'[c] \o Unsent(c)' = out[c] \o Unsent(c)]_vars

(* A client of the http port that still talks is hung up on only when it   *)
(* asked for it, behind a response that has ended: no ready bit of another *)
(* connection, of a descriptor reused or of a send before makes recv or    *)
(* send return 0 (conn.c cn_recv, cn_serve_static, cn_serve_dynamic).  The *)
(* header of a HEAD response may be cut.                                   *)
DroppedWhenOver ==
  [][\A c \in Client \ Tls :
       InPool(c) /\ fd'[c] = NoFd /\ link[c] = "open" =>
         /\ ~req[c].alive
         /\ \/ /\ resp[c].phase \in {"HEADER", "BODY"}
               /\ req[c].method = "HEAD" \/ EndsWith(out'[c], FileReply(req[c]))
            \/ /\ resp[c].phase = "ABORT"
               /\ EndsWith(out'[c], ErrorPage(req[c], resp[c]))
            \/ /\ cgi[c].phase = "DONE"
               /\ proc[c].st = "exit" /\ proc[c].stdout = << >>]_vars

(* A program gets no unit beyond the CONTENT_LENGTH it was told, although  *)
(* its connection's buffer holds what follows the body as well, and while  *)
(* it is fed its input does not end (conn.c cn_parse_req, cn_stream_to_cgi;*)
(* cgi.c cgi_init, who closes which end).                                  *)
InputFed ==
  \A c \in Client : proc[c].st # "none" =>
    /\ Len(proc[c].seen) + Len(proc[c].stdin) <= Most(proc[c].env.clen, 0)
    /\ InPool(c) /\ cgi[c].phase = "SRV_TO_CGI" => ~proc[c].eof

-----------------------------------------------------------------------------
(* The abstract service                                                    *)

Talk(s) == SelectSeq(s, LAMBDA u : u.k \notin {"hello", "mac"})

(* Units of request r after which its reply is known: its first line tells *)
(* an unknown method, the line at fault a bad header, one unit more than   *)
(* BUFSZ a header too large; a good request is read to its end.            *)
KnownAfter(r) ==
  LET head == Len(Encode(r, 1)) - r.body
  IN IF head > BUFSZ THEN Least(BUFSZ + 1, head)
     ELSE IF r.method = "OTHER" THEN 2
     ELSE IF r.junk THEN head - 1
     ELSE IF r.method = "POST" /\ r.clen < 0 THEN head
     ELSE head + r.body

Call(c) == IF fd[c] # NoFd THEN "open"
           ELSE IF link[c] = "off" \/ c \in backlog THEN "none" ELSE "over"

(* Units of talk in the first n segments of each client.                   *)
Uttered ==
  [c \in Client |-> [n \in 0 .. Len(Segments[c]) |->
                       Len(Talk(SeqX!FlattenSeq(SubSeq(Segments[c], 1, n))))]]

(* Sent, and neither waiting in the kernel nor inside OpenSSL.             *)
Heard(c) ==
  IF fd[c] = NoFd THEN 0
  ELSE Uttered[c][sent[c]] - Len(Talk(inq[c])) - Len(pend[c])

Known ==
  [c \in Client |-> [q \in 1..Len(Requests[c]) |->
     Len(Wire(SubSeq(Requests[c], 1, q - 1))) + KnownAfter(Requests[c][q])]]

Http == INSTANCE HttpService WITH
  call <- [c \in Client |-> Call(c)],
  heard <- [c \in Client |-> Heard(c)],
  said <- out,
  quiet <- {c \in Client : link[c] \in {"half", "gone"}}

(* The server implements HttpService (README.md, Connection): whatever the *)
(* cuts, records, partial sends and reused buffers, no reply begins before *)
(* its request is received in full, replies follow each other whole, and a *)
(* client that listens is hung up on only with the last unit it is owed.   *)
ImplementsHttp == Http!Spec

-----------------------------------------------------------------------------
(* Progress                                                                *)

(* The server is one process that runs when it can: weak fairness of       *)
(* Server, with its ENABLED condition and its steps spelled out (select    *)
(* waits for an event, write for room in the pipe or for its end, and each *)
(* step of the server moves pc, cur or wr).                                *)
CanRun ==
  /\ pc = "select" =>
       \/ \E f \in read_set : f <= max_fd /\ Readable(f)
       \/ \E f \in write_set : f <= max_fd /\ Writable(f)
  /\ pc = "write" =>
       \/ wr.rsize = 0 \/ NoReader(conns[cur]) \/ PipeRoom(conns[cur]) > 0
       \/ wr.took > 0 /\ "signal" \in Faults
ServerMoves == <<pc, cur, wr>>' # <<pc, cur, wr>>
ServerFairness == <>[]CanRun => []<><<ServerMoves>>_vars

(* A client is a process of its own, and so is a CGI program: each goes on *)
(* to its end as long as it can.  No client has to leave.                  *)
Fairness ==
  /\ ServerFairness
  /\ \A c \in Client :
       /\ WF_vars(Connect(c) \/ ClientSend(c) \/ ClientRead(c))
       /\ WF_vars(CgiRead(c) \/ CgiEof(c) \/ CgiWrite(c) \/ CgiExit(c))

FairSpec == Spec /\ Fairness

(* All clients that stay come to have all they asked for, and no more,     *)
(* whatever the others do (lisod.c main: each connection has its turn).    *)
Served == <>(\A c \in Client : link[c] = "gone" \/ out[c] = Expected(c))

(* The end of its input reaches every program, though programs forked while*)
(* it is fed hold the writing end of its stdin as well (cgi_init closes the*)
(* child's copies of its own pipes only): once the body is written or the  *)
(* connection gone, it reads to the end or exits.                          *)
InputsEnd ==
  \A c \in Client :
    proc[c].st = "run" /\ (cgi[c].phase = "CGI_TO_SRV" \/ ~InPool(c))
      ~> (proc[c].eof \/ proc[c].st = "exit")

(* Every pass of the loop ends: no handler keeps the server for ever, so   *)
(* that every connection has its turn (lisod.c: "assumes we can stream     *)
(* conn->buf->data_p to cgi pipe without blocking").                       *)
LoopReturns == []<>(pc = "select")

(* Once every client is gone the pool empties (Tests.md, "Pool size        *)
(* check": "I would make sure poolsz drops to 0").                         *)
PoolDrains == (\A c \in Client : link[c] = "gone") ~> (conns = << >>)
=============================================================================
