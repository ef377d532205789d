-------------------------------- MODULE Liso --------------------------------
(***************************************************************************)
(* The select loop of lisod.c with the pool (pool.c), the connection       *)
(* handlers (conn.c) and the CGI pipes (cgi.c) it drives, over a model of  *)
(* the kernel: the descriptor table, the listeners' backlogs, the sockets' *)
(* queues and the pipes.  One label of pc per handler of the loop's body;  *)
(* clients and CGI programs move between any two of them.                  *)
(***************************************************************************)
EXTENDS Conn, FiniteSets

CONSTANTS
  Client,       \* clients; each connects at most once
  Tls,          \* those that connect to the https port
  Segments,     \* what each client sends: a sequence of sequences of units
  Leaves,       \* clients that may close their socket at any time
  HalfCloses,   \* clients that shut down their sending side once all is sent
  MAX_CONNS,    \* pool.h
  FD_SETSIZE,   \* capacity of an fd_set
  NOFILE,       \* descriptors the process may hold
  SNDBUF,       \* units the kernel holds for a client that does not read
  PIPESZ,       \* capacity of a pipe
  OUTSZ,        \* units a CGI program writes
  CgiOrder,     \* a CGI program reads its input first ("read"), writes its
                \* output first ("write"), or mixes both ("any")
  Faults        \* what may happen besides: SSL_new or fork fails, a signal cuts a
                \* blocked write short, a CGI program dies or writes to stderr

(* Once its handshake is complete a client sends nothing but records.      *)
HandshakeFirst(segments) ==
  \A i \in 1..Len(segments) : \A j \in 1..Len(segments[i]) :
    segments[i][j] = HelloDone =>
      /\ \A k \in j + 1..Len(segments[i]) : segments[i][k] \in RecordUnit
      /\ \A n \in i + 1..Len(segments) : segments[n] \in Seq(RecordUnit)

ASSUME LisoAssumption ==
  /\ Tls \subseteq Client /\ Leaves \subseteq Client /\ HalfCloses \subseteq Client
  /\ Segments \in [Client -> Seq(Seq(WireUnit))]
  /\ \A c \in Client \ Tls : Segments[c] \in Seq(Seq(InUnit))
  /\ \A c \in Tls : HandshakeFirst(Segments[c])
  /\ {MAX_CONNS, FD_SETSIZE, NOFILE, SNDBUF, PIPESZ, OUTSZ} \subseteq Nat
  /\ NOFILE > 2 /\ FD_SETSIZE > 2
  /\ CgiOrder \in {"read", "write", "any"}
  /\ Faults \subseteq {"ssl_new", "fork", "signal", "die", "stderr"}

Fd == 0 .. NOFILE - 1
NoFd == -1
Std == 0          \* stands for the standard streams, the lock file and the log
Sock == 1         \* sock, the http listener
SslSock == 2      \* ssl_sock, the https listener; also pool->min_max_fd

VARIABLES
  pc,           \* the next handler of the loop
  cur,          \* i, counted from 1
  top,          \* the loop's local max_fd
  wr,           \* cn_stream_to_cgi: units left to write, units write() took
  (* pool_t *)
  conns, max_fd, read_set, write_set, read_ready, write_ready,
  (* conn_t, by client *)
  idx, fd, req, last_buf, resp, cgi, pipe, buf, ssl,
  pend,         \* units decrypted that the server has not read yet
  (* the kernel *)
  fdt,          \* descriptor table
  backlog,      \* clients waiting in a listener
  inq,          \* units received and not read, by client
  out,          \* units sent, by client
  (* clients and CGI programs *)
  link,         \* "off", "open", "half" (sending side shut), "gone"
  sent,         \* segments the client has sent
  taken,        \* units of out the client has read
  proc          \* CGI programs, by client

loopVars == <<cur, top, wr>>
poolVars == <<conns, idx, max_fd>>
setVars == <<read_set, write_set>>
readyVars == <<read_ready, write_ready>>
fdVars == <<fdt, fd, pipe>>
msgVars == <<req, last_buf, resp, cgi, buf>>
tlsVars == <<ssl, pend>>
netVars == <<backlog, link, sent, taken>>
ioVars == <<inq, out>>
vars == <<pc, loopVars, poolVars, setVars, readyVars, fdVars, msgVars, tlsVars,
          netVars, ioVars, proc>>

Labels == {"select", "accept", "accept_ssl", "recv", "logerr", "prepare",
           "init_cgi", "for_select", "to_cgi", "write", "from_cgi", "dynamic",
           "static", "max_fd"}

-----------------------------------------------------------------------------
(* Descriptors                                                             *)

Ends == {"cgi_in", "srv_out", "srv_in", "cgi_out", "srv_err", "cgi_err"}
NoPipes == [e \in Ends |-> NoFd]
Free == [what |-> "free"]
Own(c, what) == [what |-> what, who |-> c]
Desc == {Free} \cup [what: {"std", "listen"}]
          \cup [what: Ends \cup {"sock", "leak"}, who: Client]

FreeFds == {f \in Fd : fdt[f] = Free}
IsLowest(S, f) == f \in S /\ \A g \in S : f <= g
(* pipe(2): the two lowest free descriptors, the reading end first.        *)
IsPipe(S, r, w) == IsLowest(S, r) /\ IsLowest(S \ {r}, w)
Fds(S) == S \ {NoFd}
(* Bugs: an end of the program's standard input, or the server's end of it,*)
(* is not closed.                                                          *)
PipeFds_CgiInKept(c) == Fds({pipe[c][e] : e \in Ends \ {"cgi_in"}})
PipeFds_SrvOutKept(c) == Fds({pipe[c][e] : e \in Ends \ {"srv_out"}})
PipeFds(c) == Fds({pipe[c][e] : e \in Ends})
Closed(S) == [f \in Fd |-> IF f \in S THEN Free ELSE fdt[f]]

(* Bug: the field keeps the number of the descriptor closed.               *)
ClosePipe_KeepsNumber(c, e) ==
  /\ fdt' = Closed(Fds({pipe[c][e]}))
  /\ UNCHANGED pipe

(* close_pipe                                                              *)
ClosePipe(c, e) ==
  /\ fdt' = Closed(Fds({pipe[c][e]}))
  /\ pipe' = [pipe EXCEPT ![c][e] = NoFd]

-----------------------------------------------------------------------------
(* The kernel's queues                                                     *)

Least(a, b) == IF a < b THEN a ELSE b
Most(a, b) == IF a > b THEN a ELSE b
Take(s, n) == SubSeq(s, 1, Least(n, Len(s)))
Skip(s, n) == SubSeq(s, n + 1, Len(s))

Room(c) == SNDBUF - (Len(out[c]) - taken[c])

Waiting(f) == {c \in backlog : (f = SslSock) <=> (c \in Tls)}

(* The program is gone and the server has closed its own copy of end e.    *)
Hangup(c, e) == proc[c].st = "exit" /\ pipe[c][e] = NoFd

Readable(f) ==
  LET d == fdt[f]
  IN \/ d.what = "listen" /\ Waiting(f) # {}
     \/ d.what = "sock" /\ (inq[d.who] # << >> \/ link[d.who] # "open")
     \/ d.what = "srv_in" /\ (proc[d.who].stdout # << >> \/ Hangup(d.who, "cgi_out"))
     \/ d.what = "srv_err" /\ (proc[d.who].err \/ Hangup(d.who, "cgi_err"))

Writable(f) == LET d == fdt[f]
               IN d.what = "sock" /\ (Room(d.who) > 0 \/ link[d.who] = "gone")

(* smart_recv of at most n units; no data stands for 0 (the client closed) *)
(* and for an error, which every caller treats alike.                      *)
Nothing(c) == [data |-> << >>, inq |-> inq[c], pend |-> pend[c]]

RecvPlain(c, n) ==
  [data |-> Take(inq[c], n), inq |-> Skip(inq[c], n), pend |-> << >>]

(* SSL_read: what is left of the last record, else the next record if it   *)
(* is complete; a record's units beyond n stay inside OpenSSL.             *)
RecvTls(c, n) ==
  LET macs == {i \in 1..Len(inq[c]) : inq[c][i] = Mac}
      m == CHOOSE i \in macs : \A j \in macs : i <= j
      record == SubSeq(inq[c], 1, m - 1)
  IN IF pend[c] # << >>
     THEN [data |-> Take(pend[c], n), inq |-> inq[c], pend |-> Skip(pend[c], n)]
     ELSE IF macs = {} THEN Nothing(c)
     ELSE [data |-> Take(record, n), inq |-> Skip(inq[c], m),
           pend |-> Skip(record, n)]

RecvResults(c, n) ==
  {IF ssl[c] = "none" THEN RecvPlain(c, n) ELSE RecvTls(c, n)}
    \cup (IF link[c] = "gone" THEN {Nothing(c)} ELSE {})

(* smart_send of n units: how many are taken, 0 for an error.  SSL_write   *)
(* sends a whole record or fails.  A client that is gone takes and loses   *)
(* what is sent until its reset comes back.                                *)
SendResults(c, n) ==
  IF link[c] = "gone" THEN {0, n}
  ELSE IF ssl[c] = "none" THEN {Least(Room(c), n)}
  ELSE {IF Room(c) >= n THEN n ELSE 0}

Delivered(c, units, n) ==
  out' = [out EXCEPT ![c] =
            IF link[c] = "gone" THEN @ ELSE @ \o SubSeq(units, 1, n)]

-----------------------------------------------------------------------------
(* Startup: main up to the loop, with the listeners open and in read_set.  *)

NewProc == [st |-> "none", env |-> NoEnv, stdin |-> << >>, seen |-> << >>,
            eof |-> FALSE, stdout |-> << >>, made |-> 0, err |-> FALSE, held |-> {}]
NoWrite == [rsize |-> 0, took |-> 0]

Init ==
  /\ pc = "select" /\ cur = 1 /\ top = SslSock /\ wr = NoWrite
  /\ conns = << >> /\ max_fd = SslSock
  /\ idx = [c \in Client |-> 0]
  /\ read_set = {Sock, SslSock} /\ write_set = {}
  /\ read_ready = {} /\ write_ready = {}
  /\ fdt = [f \in Fd |-> IF f = Std THEN [what |-> "std"]
                         ELSE IF f \in {Sock, SslSock} THEN [what |-> "listen"]
                         ELSE Free]
  /\ fd = [c \in Client |-> NoFd]
  /\ pipe = [c \in Client |-> NoPipes]
  /\ req = [c \in Client |-> NewReq]
  /\ last_buf = [c \in Client |-> << >>]
  /\ resp = [c \in Client |-> NewResp]
  /\ cgi = [c \in Client |-> NewCgi]
  /\ buf = [c \in Client |-> NewBuf]
  /\ ssl = [c \in Client |-> "none"]
  /\ pend = [c \in Client |-> << >>]
  /\ backlog = {}
  /\ inq = [c \in Client |-> << >>]
  /\ out = [c \in Client |-> << >>]
  /\ link = [c \in Client |-> "off"]
  /\ sent = [c \in Client |-> 0]
  /\ taken = [c \in Client |-> 0]
  /\ proc = [c \in Client |-> NewProc]

-----------------------------------------------------------------------------
(* select and accept                                                       *)

(* pl_ready and select, which returns once something is ready.             *)
Select ==
  /\ pc = "select"
  /\ read_ready' = {f \in read_set : f <= max_fd /\ Readable(f)}
  /\ write_ready' = {f \in write_set : f <= max_fd /\ Writable(f)}
  /\ read_ready' \cup write_ready' # {}
  /\ pc' = "accept"
  /\ UNCHANGED <<loopVars, poolVars, setVars, fdVars, msgVars, tlsVars, netVars,
                 ioVars, proc>>

(* After the two listeners the loop over the pool starts.                  *)
AfterAccept ==
  IF pc = "accept" THEN pc' = "accept_ssl" /\ UNCHANGED loopVars
  ELSE pc' = "recv" /\ cur' = 1 /\ top' = SslSock /\ UNCHANGED wr

Listener == IF pc = "accept" THEN Sock ELSE SslSock
Accepting == pc \in {"accept", "accept_ssl"} /\ Listener \in read_ready

AcceptSkip ==
  /\ pc \in {"accept", "accept_ssl"}
  /\ \/ Listener \notin read_ready
     \/ FreeFds = {}                        \* accept fails; the client waits
  /\ AfterAccept
  /\ UNCHANGED <<poolVars, setVars, readyVars, fdVars, msgVars, tlsVars, netVars,
                 ioVars, proc>>

(* The client is accepted and closed at once.                              *)
AcceptRefuse ==
  /\ Accepting
  /\ \E c \in Waiting(Listener), f \in FreeFds :
       /\ IsLowest(FreeFds, f)
       /\ \/ f >= FD_SETSIZE
          \/ Len(conns) = MAX_CONNS
          \/ c \in Tls /\ "ssl_new" \in Faults
       /\ backlog' = backlog \ {c}
       /\ inq' = [inq EXCEPT ![c] = << >>]
  /\ AfterAccept
  /\ UNCHANGED <<poolVars, setVars, readyVars, fdVars, msgVars, tlsVars, link, sent,
                 taken, out, proc>>

(* cn_new, cn_init_ssl and pl_add_conn.                                    *)
AcceptConn ==
  /\ Accepting
  /\ \E c \in Waiting(Listener), f \in FreeFds :
       /\ IsLowest(FreeFds, f)
       /\ f < FD_SETSIZE
       /\ Len(conns) < MAX_CONNS
       /\ backlog' = backlog \ {c}
       /\ conns' = Append(conns, c)
       /\ idx' = [idx EXCEPT ![c] = Len(conns) + 1]
       /\ fd' = [fd EXCEPT ![c] = f]
       /\ fdt' = [fdt EXCEPT ![f] = Own(c, "sock")]
       /\ read_set' = read_set \cup {f}
       /\ ssl' = [ssl EXCEPT ![c] = IF c \in Tls THEN "handshake" ELSE "none"]
  /\ AfterAccept
  /\ UNCHANGED <<max_fd, write_set, readyVars, pipe, msgVars, pend, link, sent, taken,
                 ioVars, proc>>

-----------------------------------------------------------------------------
(* The visit of one connection                                             *)

conn == conns[cur]
At(label) == pc = label /\ cur <= Len(conns)

(* Bug: the socket is not read again.                                      *)
ResetReadSet_NotRead(c) == read_set \ {pipe[c]["srv_in"], pipe[c]["srv_err"]}

(* pl_reset_conn: the socket is read again, the CGI program's output is not*)
(* read any more; cgi_reset closes what is open of the three pipes.        *)
ResetReadSet(c) ==
  (read_set \cup {fd[c]}) \ {pipe[c]["srv_in"], pipe[c]["srv_err"]}

(* Bugs: the socket is cleared before pl_reset_conn sets it; the connection*)
(* moved keeps its old index.                                              *)
DelReadSet_SwappedOrder(c) ==
  (read_set \ {pipe[c]["srv_in"], pipe[c]["srv_err"], fd[c]}) \cup {fd[c]}
DelIdx_NotMoved(c) == [idx EXCEPT ![c] = 0]

(* pl_del_conn: the last connection of the pool takes the place.           *)
DelReadSet(c) == ResetReadSet(c) \ {fd[c]}
DelConns(c) ==
  [j \in 1 .. Len(conns) - 1 |-> IF j = idx[c] THEN conns[Len(conns)] ELSE conns[j]]
DelIdx(c) == [idx EXCEPT ![conns[Len(conns)]] = idx[c], ![c] = 0]

(* Bug: continue without i -= 1.                                           *)
Revisit_NextPlace == pc' = "recv" /\ cur' = cur + 1 /\ UNCHANGED <<top, wr>>

(* i -= 1; continue                                                        *)
Revisit == pc' = "recv" /\ UNCHANGED loopVars

(* liso_drop_conn: pl_del_conn and cn_free.                                *)
DropConn(c) ==
  /\ conns' = DelConns(c)
  /\ idx' = DelIdx(c)
  /\ fdt' = Closed(Fds({fd[c]}) \cup PipeFds(c))
  /\ fd' = [fd EXCEPT ![c] = NoFd]
  /\ pipe' = [pipe EXCEPT ![c] = NoPipes]
  /\ read_set' = DelReadSet(c)
  /\ write_set' = write_set \ {fd[c]}
  /\ req' = [req EXCEPT ![c] = NewReq]
  /\ last_buf' = [last_buf EXCEPT ![c] = << >>]
  /\ resp' = [resp EXCEPT ![c] = NewResp]
  /\ cgi' = [cgi EXCEPT ![c] = NewCgi]
  /\ buf' = [buf EXCEPT ![c] = NewBuf]
  /\ ssl' = [ssl EXCEPT ![c] = "none"]
  /\ pend' = [pend EXCEPT ![c] = << >>]
  /\ inq' = [inq EXCEPT ![c] = << >>]
  /\ UNCHANGED max_fd
  /\ Revisit

(* liso_conn_err on request rq.                                            *)
ConnErr(c, rq, status) ==
  /\ req' = [req EXCEPT ![c] = AbortReq(rq)]
  /\ resp' = [resp EXCEPT ![c] = AbortResp(@, status)]
  /\ write_set' = write_set \cup {fd[c]}

(* liso_reset_or_close: a connection kept alive is reset and the request   *)
(* piped behind the one just served is parsed.  The caller that passes     *)
(* clear removes the socket from write_set afterwards.                     *)
ResetOrClose(c, clear) ==
  LET r == ParseReq(NewReq, BufOf(last_buf[c]), << >>, 0)
      done == r.req.phase = "DONE"
      writes == ~clear /\ (done \/ r.status # 0)
  IN /\ fdt' = Closed(PipeFds(c))
     /\ pipe' = [pipe EXCEPT ![c] = NoPipes]
     /\ read_set' = IF done THEN ResetReadSet(c) \ {fd[c]} ELSE ResetReadSet(c)
     /\ write_set' = IF writes THEN write_set \cup {fd[c]} ELSE write_set \ {fd[c]}
     /\ req' = [req EXCEPT ![c] = IF r.status # 0 THEN AbortReq(r.req) ELSE r.req]
     /\ last_buf' = [last_buf EXCEPT ![c] = r.last]
     /\ buf' = [buf EXCEPT ![c] = r.buf]
     /\ cgi' = [cgi EXCEPT ![c] = CgiParsed(NewCgi, r.req)]
     /\ resp' = [resp EXCEPT ![c] =
                   IF r.status # 0 THEN AbortResp(NewResp, r.status)
                   ELSE RespParsed(NewResp, r.req)]

(* The end of a response: succ_cb.  next is the handler that follows.      *)
Finish(c, clear, next) ==
  IF req[c].alive
  THEN /\ ResetOrClose(c, clear)
       /\ pc' = next
       /\ UNCHANGED <<loopVars, poolVars, fd, tlsVars, inq>>
  ELSE DropConn(c)

(* cn_recv: nothing to receive.                                            *)
RecvSkip ==
  /\ At("recv")
  /\ fd[conn] \notin read_ready
  /\ pc' = "logerr"
  /\ UNCHANGED <<loopVars, poolVars, setVars, readyVars, fdVars, msgVars, tlsVars,
                 netVars, ioVars, proc>>

Receiving == At("recv") /\ fd[conn] \in read_ready

(* SSL_accept takes the next message of the handshake.  It returns 0 when  *)
(* the peer closed; the other failures are taken for "would block".        *)
Handshake ==
  /\ Receiving
  /\ ssl[conn] = "handshake"
  /\ \/ /\ inq[conn] # << >>
        /\ inq' = [inq EXCEPT ![conn] = Tail(@)]
        /\ ssl' = [ssl EXCEPT ![conn] =
                     IF inq[conn][1] = HelloDone THEN "accepted" ELSE @]
     \/ inq[conn] = << >> /\ UNCHANGED <<inq, ssl>>
  /\ pc' = "logerr"
  /\ UNCHANGED <<loopVars, poolVars, setVars, readyVars, fdVars, msgVars, pend,
                 netVars, out, proc>>

HandshakeFail ==
  /\ Receiving
  /\ ssl[conn] = "handshake"
  /\ inq[conn] = << >> /\ link[conn] # "open"
  /\ DropConn(conn)
  /\ UNCHANGED <<readyVars, netVars, out, proc>>

(* Bug: the units already parsed are not counted.                          *)
RecvRoom_PastData(c) == BUFSZ - Len(buf[c].rest)

(* recv_ignore, for an aborted request or a header that fills the buffer.  *)
RecvRoom(c) == BUFSZ - BufSz(buf[c])
Overfull(c) == req[c].phase # "ABORT" /\ RecvRoom(c) <= 0

(* Bug: a refused request is received like any other.                      *)
Ignored_Overfull(c) == Overfull(c)
Ignored(c) == req[c].phase = "ABORT" \/ Overfull(c)

RecvIgnore ==
  /\ Receiving
  /\ ssl[conn] # "handshake"
  /\ Ignored(conn)
  /\ \E r \in RecvResults(conn, BUFSZ) :
       \/ /\ r.data = << >>
          /\ DropConn(conn)
          /\ UNCHANGED <<readyVars, netVars, out, proc>>
       \/ /\ r.data # << >>
          /\ inq' = [inq EXCEPT ![conn] = r.inq]
          /\ pend' = [pend EXCEPT ![conn] = r.pend]
          /\ IF Overfull(conn) THEN ConnErr(conn, req[conn], 400)
             ELSE UNCHANGED <<req, resp, write_set>>
          /\ pc' = "logerr"
          /\ UNCHANGED <<loopVars, poolVars, read_set, readyVars, fdVars, last_buf,
                         cgi, buf, ssl, netVars, out, proc>>

(* recv into the room the buffer has left, then cn_parse_req.              *)
RecvData ==
  /\ Receiving
  /\ ssl[conn] # "handshake"
  /\ ~Ignored(conn)
  /\ \E r \in RecvResults(conn, RecvRoom(conn)) :
       \/ /\ r.data = << >>
          /\ DropConn(conn)
          /\ UNCHANGED <<readyVars, netVars, out, proc>>
       \/ LET b == [buf[conn] EXCEPT !.rest = @ \o r.data]
              p == ParseReq(req[conn], b, last_buf[conn], BufSz(buf[conn]))
          IN /\ r.data # << >>
             /\ inq' = [inq EXCEPT ![conn] = r.inq]
             /\ pend' = [pend EXCEPT ![conn] = r.pend]
             /\ last_buf' = [last_buf EXCEPT ![conn] = p.last]
             /\ buf' = [buf EXCEPT ![conn] = p.buf]
             /\ IF p.status # 0
                THEN ConnErr(conn, p.req, p.status) /\ UNCHANGED cgi
                ELSE /\ req' = [req EXCEPT ![conn] = p.req]
                     /\ cgi' = [cgi EXCEPT ![conn] = CgiParsed(@, p.req)]
                     /\ resp' = [resp EXCEPT ![conn] = RespParsed(@, p.req)]
                     /\ UNCHANGED write_set
             /\ pc' = "logerr"
             /\ UNCHANGED <<loopVars, poolVars, read_set, readyVars, fdVars, ssl,
                            netVars, out, proc>>

(* cgi_logerr reads what the CGI program wrote to its stderr.              *)
LogErr ==
  /\ At("logerr")
  /\ proc' = IF pipe[conn]["srv_err"] >= 0 /\ pipe[conn]["srv_err"] \in read_ready
             THEN [proc EXCEPT ![conn].err = FALSE] ELSE proc
  /\ pc' = "prepare"
  /\ UNCHANGED <<loopVars, poolVars, setVars, readyVars, fdVars, msgVars, tlsVars,
                 netVars, ioVars>>

(* cn_prepare_static_header.  The file is opened, mapped and closed again; *)
(* an empty file cannot be mapped, and its descriptor stays open.          *)
Preparing ==
  req[conn].type = "STATIC" /\ req[conn].phase = "DONE" /\ resp[conn].phase = "READY"

Prepare ==
  /\ At("prepare")
  /\ LET size == FileSize[req[conn].uri]
     IN IF ~Preparing THEN UNCHANGED <<msgVars, fdt, write_set>>
        ELSE IF size > 0 /\ FreeFds # {}
        THEN /\ resp' = [resp EXCEPT ![conn].phase = "HEADER",
                                     ![conn].mmbuf = FileUnits(req[conn].uri)]
             /\ buf' = [buf EXCEPT ![conn] = BufOf(RespHdr(200, size, req[conn].alive))]
             /\ UNCHANGED <<req, last_buf, cgi, fdt, write_set>>
        ELSE /\ ConnErr(conn, req[conn], 404)
             /\ fdt' = [f \in Fd |-> IF size = 0 /\ IsLowest(FreeFds, f)
                                     THEN Own(conn, "leak") ELSE fdt[f]]
             /\ UNCHANGED <<last_buf, cgi, buf>>
  /\ pc' = "init_cgi"
  /\ UNCHANGED <<loopVars, poolVars, read_set, readyVars, fd, pipe, tlsVars, netVars,
                 ioVars, proc>>

Starting == req[conn].type = "DYNAMIC" /\ cgi[conn].phase = "READY"

InitCgiSkip ==
  /\ At("init_cgi")
  /\ ~Starting
  /\ pc' = "for_select"
  /\ UNCHANGED <<loopVars, poolVars, setVars, readyVars, fdVars, msgVars, tlsVars,
                 netVars, ioVars, proc>>

(* Bug: the result of cgi_init is ignored.                                 *)
CgiFailed_Ignored ==
  /\ cgi' = [cgi EXCEPT ![conn].phase = "SRV_TO_CGI"]
  /\ pc' = "for_select"
  /\ UNCHANGED <<loopVars, poolVars, setVars, readyVars, fd, req, resp, last_buf, buf,
                 tlsVars, netVars, ioVars, proc>>

(* cn_init_cgi when cgi_init returns false.                                *)
CgiFailed ==
  /\ ConnErr(conn, req[conn], 500)
  /\ cgi' = [cgi EXCEPT ![conn].phase = "ABORT"]
  /\ pc' = "for_select"
  /\ UNCHANGED <<loopVars, poolVars, read_set, readyVars, fd, last_buf, buf, tlsVars,
                 netVars, ioVars, proc>>

(* A call of pipe fails: the ends of the pipes made before it are held in  *)
(* local variables only.                                                   *)
InitCgiNoPipe ==
  /\ At("init_cgi")
  /\ Starting
  /\ Cardinality(FreeFds) < 6
  /\ \E S \in SUBSET FreeFds :
       /\ Cardinality(S) = 2 * (Cardinality(FreeFds) \div 2)
       /\ \A f \in S, g \in FreeFds \ S : f < g
       /\ fdt' = [f \in Fd |-> IF f \in S THEN Own(conn, "leak") ELSE fdt[f]]
  /\ CgiFailed
  /\ UNCHANGED pipe

(* The three pipes of cgi_init, in the order it makes them: stdin, stdout, *)
(* stderr (no element when a call of pipe fails).                          *)
Pipes(S) == {q \in S \X S : IsPipe(S, q[1], q[2])}
Others(S, q) == S \ {q[1], q[2]}

PipeEnds(i, o, r) ==
  [e \in Ends |-> CASE e = "cgi_in" -> i[1] [] e = "srv_out" -> i[2]
                    [] e = "srv_in" -> o[1] [] e = "cgi_out" -> o[2]
                    [] e = "srv_err" -> r[1] [] e = "cgi_err" -> r[2]]

NewPipes ==
  UNION {UNION {{PipeEnds(i, o, r) : r \in Pipes(Others(Others(FreeFds, i), o))} :
                  o \in Pipes(Others(FreeFds, i))} :
           i \in Pipes(FreeFds)}

Beyond(p) == p["srv_in"] >= FD_SETSIZE \/ p["srv_err"] >= FD_SETSIZE

(* A descriptor select cannot take, or fork fails: the six ends stay open  *)
(* until the connection is reset.                                          *)
InitCgiFail ==
  /\ At("init_cgi")
  /\ Starting
  /\ \E p \in NewPipes :
       /\ Beyond(p) \/ "fork" \in Faults
       /\ pipe' = [pipe EXCEPT ![conn] = p]
       /\ fdt' = [f \in Fd |-> IF \E e \in Ends : p[e] = f
                               THEN Own(conn, CHOOSE e \in Ends : p[e] = f)
                               ELSE fdt[f]]
  /\ CgiFailed

(* Bugs: the two ends of the program's output are swapped; the parent keeps*)
(* the reading end of the program's input.                                 *)
SrvEnds_Swapped == {"srv_out", "cgi_out", "srv_err"}
SrvEnds_CgiInKept == {"srv_out", "srv_in", "srv_err", "cgi_in"}

(* The three ends the parent keeps.                                        *)
SrvEnds == {"srv_out", "srv_in", "srv_err"}

(* Bug: the child keeps its copy of the writing end of its own stdin.      *)
Inherited_OwnKept(c) ==
  {p \in Client \X {"srv_out", "srv_in"} : pipe[p[1]][p[2]] # NoFd \/ p[1] = c}

(* The child closes its copies of the parent's three ends, and inherits the*)
(* ends the parent holds of the programs of other connections.             *)
Inherited(c) ==
  {p \in (Client \ {c}) \X {"srv_out", "srv_in"} : pipe[p[1]][p[2]] # NoFd}

InitCgi ==
  /\ At("init_cgi")
  /\ Starting
  /\ \E p \in NewPipes :
       /\ ~Beyond(p)
       /\ pipe' = [pipe EXCEPT ![conn] =
                     [e \in Ends |-> IF e \in SrvEnds THEN p[e] ELSE NoFd]]
       /\ fdt' = [f \in Fd |-> IF \E e \in SrvEnds : p[e] = f
                               THEN Own(conn, CHOOSE e \in SrvEnds : p[e] = f)
                               ELSE fdt[f]]
       /\ read_set' = read_set \cup {p["srv_err"]}
  /\ cgi' = [cgi EXCEPT ![conn].phase = "SRV_TO_CGI"]
  /\ proc' = [c \in Client |->
                IF c = conn
                THEN [NewProc EXCEPT !.st = "run", !.env = EnvpNew(req[c]),
                                     !.held = Inherited(c)]
                ELSE [proc[c] EXCEPT !.held = {p \in @ : p[1] # conn}]]
  /\ pc' = "for_select"
  /\ UNCHANGED <<loopVars, poolVars, write_set, readyVars, fd, req, last_buf, resp,
                 buf, tlsVars, netVars, ioVars>>

(* Bug: the socket is still read.                                          *)
ForSelect_StillRead ==
  /\ At("for_select")
  /\ write_set' = IF req[conn].phase = "DONE" /\ req[conn].type = "STATIC"
                  THEN write_set \cup {fd[conn]} ELSE write_set
  /\ pc' = "to_cgi"
  /\ UNCHANGED <<loopVars, poolVars, read_set, readyVars, fdVars, msgVars, tlsVars,
                 netVars, ioVars, proc>>

(* main: a request received in full stops the reading; a static response   *)
(* can be sent at once.                                                    *)
ForSelect ==
  /\ At("for_select")
  /\ LET done == req[conn].phase = "DONE"
     IN /\ read_set' = IF done THEN read_set \ {fd[conn]} ELSE read_set
        /\ write_set' = IF done /\ req[conn].type = "STATIC"
                        THEN write_set \cup {fd[conn]} ELSE write_set
  /\ pc' = "to_cgi"
  /\ UNCHANGED <<loopVars, poolVars, readyVars, fdVars, msgVars, tlsVars, netVars,
                 ioVars, proc>>

-----------------------------------------------------------------------------
(* cn_stream_to_cgi: a blocking write of what the buffer holds, in a loop. *)

ToCgi ==
  /\ At("to_cgi")
  /\ IF req[conn].type = "DYNAMIC" /\ cgi[conn].phase = "SRV_TO_CGI"
     THEN wr' = [rsize |-> Len(buf[conn].rest), took |-> 0] /\ pc' = "write"
     ELSE wr' = NoWrite /\ pc' = "from_cgi"
  /\ UNCHANGED <<cur, top, poolVars, setVars, readyVars, fdVars, msgVars, tlsVars,
                 netVars, ioVars, proc>>

PipeRoom(c) == PIPESZ - Len(proc[c].stdin)
NoReader(c) == Hangup(c, "cgi_in")

writeUnchanged == <<cur, top, poolVars, readyVars, fd, last_buf, tlsVars, netVars,
                    ioVars>>

(* write(srv_out, data_p, rsize) in progress: what the pipe has room for.  *)
WriteSome ==
  /\ At("write")
  /\ wr.rsize > 0
  /\ ~NoReader(conn) /\ PipeRoom(conn) > 0
  /\ LET n == Least(PipeRoom(conn), wr.rsize - wr.took)
         units == SubSeq(buf[conn].rest, wr.took + 1, wr.took + n)
     IN /\ proc' = [proc EXCEPT ![conn].stdin = @ \o units]
        /\ wr' = IF wr.took + n = wr.rsize THEN NoWrite ELSE [wr EXCEPT !.took = @ + n]
  /\ UNCHANGED <<pc, setVars, fdt, pipe, req, resp, cgi, buf, writeUnchanged>>

(* write returns early with what it took so far, because of a signal or    *)
(* because the program exited; the loop calls it again from data_p.        *)
WriteShort ==
  /\ At("write")
  /\ wr.took > 0
  /\ \/ NoReader(conn)
     \/ "signal" \in Faults /\ PipeRoom(conn) <= 0
  /\ wr' = [rsize |-> wr.rsize - wr.took, took |-> 0]
  /\ UNCHANGED <<pc, setVars, fdt, pipe, req, resp, cgi, buf, proc, writeUnchanged>>

(* EPIPE.  The phase stays SRV_TO_CGI.                                     *)
WriteFail ==
  /\ At("write")
  /\ wr.rsize > 0 /\ wr.took = 0
  /\ NoReader(conn)
  /\ ConnErr(conn, req[conn], 500)
  /\ wr' = NoWrite
  /\ pc' = "from_cgi"
  /\ UNCHANGED <<read_set, fdt, pipe, cgi, buf, proc, writeUnchanged>>

(* Bug: the program's input is closed before the body is complete.         *)
WriteDone_Early ==
  /\ At("write")
  /\ wr.rsize = 0
  /\ buf' = [buf EXCEPT ![conn] = NewBuf]
  /\ ClosePipe(conn, "srv_out")
  /\ read_set' = read_set \cup {pipe[conn]["srv_in"]}
  /\ cgi' = [cgi EXCEPT ![conn].phase = "CGI_TO_SRV"]
  /\ pc' = "from_cgi"
  /\ UNCHANGED <<wr, write_set, req, resp, proc, writeUnchanged>>

(* Bug: the program's output is not selected.                              *)
WriteDone_NotAwaited ==
  /\ At("write")
  /\ wr.rsize = 0
  /\ buf' = [buf EXCEPT ![conn] = NewBuf]
  /\ IF req[conn].phase = "DONE"
     THEN /\ ClosePipe(conn, "srv_out")
          /\ cgi' = [cgi EXCEPT ![conn].phase = "CGI_TO_SRV"]
     ELSE UNCHANGED <<fdt, pipe, cgi>>
  /\ pc' = "from_cgi"
  /\ UNCHANGED <<wr, setVars, req, resp, proc, writeUnchanged>>

(* All is written; once the body is complete the CGI program's input is    *)
(* closed and its output awaited.                                          *)
WriteDone ==
  /\ At("write")
  /\ wr.rsize = 0
  /\ buf' = [buf EXCEPT ![conn] = NewBuf]
  /\ IF req[conn].phase = "DONE"
     THEN /\ ClosePipe(conn, "srv_out")
          /\ read_set' = read_set \cup {pipe[conn]["srv_in"]}
          /\ cgi' = [cgi EXCEPT ![conn].phase = "CGI_TO_SRV"]
     ELSE UNCHANGED <<fdt, pipe, read_set, cgi>>
  /\ pc' = "from_cgi"
  /\ UNCHANGED <<wr, write_set, req, resp, proc, writeUnchanged>>

-----------------------------------------------------------------------------
(* cn_stream_from_cgi and cn_serve_dynamic                                 *)

(* Bug: a buffer that is not sent yet is overwritten.                      *)
Streaming_Unsent ==
  /\ At("from_cgi")
  /\ req[conn].type = "DYNAMIC"
  /\ pipe[conn]["srv_in"] > 0 /\ pipe[conn]["srv_in"] \in read_ready
  /\ cgi[conn].phase = "CGI_TO_SRV"

Streaming ==
  /\ At("from_cgi")
  /\ req[conn].type = "DYNAMIC"
  /\ pipe[conn]["srv_in"] > 0 /\ pipe[conn]["srv_in"] \in read_ready
  /\ cgi[conn].phase = "CGI_TO_SRV" /\ cgi[conn].buf_phase = "RECV"

FromCgiSkip ==
  /\ At("from_cgi") /\ ~Streaming
  /\ pc' = "dynamic"
  /\ UNCHANGED <<loopVars, poolVars, setVars, readyVars, fdVars, msgVars, tlsVars,
                 netVars, ioVars, proc>>

FromCgi ==
  /\ Streaming
  /\ proc[conn].stdout # << >>
  /\ buf' = [buf EXCEPT ![conn] = BufOf(Take(proc[conn].stdout, BUFSZ))]
  /\ proc' = [proc EXCEPT ![conn].stdout = Skip(@, Least(BUFSZ, Len(@)))]
  /\ cgi' = [cgi EXCEPT ![conn].buf_phase = "SEND"]
  /\ write_set' = write_set \cup {fd[conn]}
  /\ pc' = "dynamic"
  /\ UNCHANGED <<loopVars, poolVars, read_set, readyVars, fdVars, req, last_buf, resp,
                 tlsVars, netVars, ioVars>>

(* Bug: the end of the response is not announced to write_set.             *)
FromCgiEof_NotSelected ==
  /\ Streaming
  /\ proc[conn].stdout = << >> /\ Hangup(conn, "cgi_out")
  /\ buf' = [buf EXCEPT ![conn] = NewBuf]
  /\ cgi' = [cgi EXCEPT ![conn].phase = "DONE", ![conn].buf_phase = "SEND"]
  /\ read_set' = read_set \ {pipe[conn]["srv_in"]}
  /\ ClosePipe(conn, "srv_in")
  /\ pc' = "dynamic"
  /\ UNCHANGED <<loopVars, poolVars, write_set, readyVars, fd, req, last_buf, resp,
                 tlsVars, netVars, ioVars, proc>>

(* read returns 0: the response is complete.                               *)
FromCgiEof ==
  /\ Streaming
  /\ proc[conn].stdout = << >> /\ Hangup(conn, "cgi_out")
  /\ buf' = [buf EXCEPT ![conn] = NewBuf]
  /\ cgi' = [cgi EXCEPT ![conn].phase = "DONE", ![conn].buf_phase = "SEND"]
  /\ write_set' = write_set \cup {fd[conn]}
  /\ read_set' = read_set \ {pipe[conn]["srv_in"]}
  /\ ClosePipe(conn, "srv_in")
  /\ pc' = "dynamic"
  /\ UNCHANGED <<loopVars, poolVars, readyVars, fd, req, last_buf, resp, tlsVars,
                 netVars, ioVars, proc>>

(* The pipe is empty: read fails, which is taken for an error.             *)
FromCgiFail ==
  /\ Streaming
  /\ proc[conn].stdout = << >> /\ ~Hangup(conn, "cgi_out")
  /\ buf' = [buf EXCEPT ![conn] = NewBuf]
  /\ cgi' = [cgi EXCEPT ![conn].phase = "ABORT"]
  /\ ConnErr(conn, req[conn], 500)
  /\ pc' = "dynamic"
  /\ UNCHANGED <<loopVars, poolVars, read_set, readyVars, fdVars, last_buf, tlsVars,
                 netVars, ioVars, proc>>

ServingDynamic ==
  /\ At("dynamic")
  /\ req[conn].type = "DYNAMIC"
  /\ fd[conn] \in write_ready
  /\ cgi[conn].buf_phase = "SEND"

DynamicSkip ==
  /\ At("dynamic") /\ ~ServingDynamic
  /\ pc' = "static"
  /\ UNCHANGED <<loopVars, poolVars, setVars, readyVars, fdVars, msgVars, tlsVars,
                 netVars, ioVars, proc>>

ResponseEnded == buf[conn].rest = << >> /\ cgi[conn].phase = "DONE"

DynamicEnd ==
  /\ ServingDynamic
  /\ ResponseEnded
  /\ Finish(conn, TRUE, "static")
  /\ UNCHANGED <<readyVars, netVars, out, proc>>

(* One send of what the buffer holds; data_p stays where it is.            *)
ServeDynamic ==
  /\ ServingDynamic
  /\ ~ResponseEnded
  /\ \E n \in SendResults(conn, Len(buf[conn].rest)) :
       \/ /\ n = 0
          /\ DropConn(conn)
          /\ UNCHANGED <<readyVars, netVars, out, proc>>
       \/ /\ n > 0
          /\ Delivered(conn, buf[conn].rest, n)
          /\ IF n = Len(buf[conn].rest)
             THEN /\ cgi' = [cgi EXCEPT ![conn].buf_phase = "RECV"]
                  /\ write_set' = write_set \ {fd[conn]}
             ELSE UNCHANGED <<cgi, write_set>>
          /\ pc' = "static"
          /\ UNCHANGED <<loopVars, poolVars, read_set, readyVars, fdVars, req, last_buf,
                         resp, buf, tlsVars, netVars, inq, proc>>

-----------------------------------------------------------------------------
(* cn_serve_static: an error page, a header or a part of the file.         *)

ServingStatic ==
  /\ At("static")
  /\ fd[conn] \in write_ready
  /\ resp[conn].phase \in {"ABORT", "HEADER", "BODY"}

StaticSkip ==
  /\ At("static") /\ ~ServingStatic
  /\ pc' = "max_fd"
  /\ UNCHANGED <<loopVars, poolVars, setVars, readyVars, fdVars, msgVars, tlsVars,
                 netVars, ioVars, proc>>

staticUnchanged == <<loopVars, poolVars, setVars, fdVars, req, last_buf, cgi, tlsVars,
                     inq>>

(* cn_send_error_page                                                      *)
SendErrorPage ==
  /\ ServingStatic
  /\ resp[conn].phase = "ABORT"
  /\ LET page == ErrorPage(req[conn], resp[conn])
     IN \E n \in SendResults(conn, Len(page)) :
          \/ n = 0 /\ DropConn(conn) /\ UNCHANGED out
          \/ /\ n = Len(page)
             /\ Delivered(conn, page, n)
             /\ Finish(conn, FALSE, "max_fd")
          \/ /\ n \in 1 .. Len(page) - 1
             /\ Delivered(conn, page, n)
             /\ buf' = [buf EXCEPT ![conn] = Advance(BufOf(page), n)]
             /\ pc' = "max_fd"
             /\ UNCHANGED <<resp, staticUnchanged>>
  /\ UNCHANGED <<readyVars, netVars, proc>>

(* A HEAD request, or an empty file, is over once a header was sent.       *)
SendHeader ==
  /\ ServingStatic
  /\ resp[conn].phase = "HEADER"
  /\ \E n \in SendResults(conn, Len(buf[conn].rest)) :
       \/ n = 0 /\ DropConn(conn) /\ UNCHANGED out
       \/ /\ n > 0
          /\ req[conn].method = "HEAD" \/ resp[conn].mmbuf = << >>
          /\ Delivered(conn, buf[conn].rest, n)
          /\ Finish(conn, FALSE, "max_fd")
       \/ /\ n > 0
          /\ req[conn].method # "HEAD" /\ resp[conn].mmbuf # << >>
          /\ Delivered(conn, buf[conn].rest, n)
          /\ buf' = [buf EXCEPT ![conn] = Advance(@, n)]
          /\ resp' = [resp EXCEPT ![conn].phase =
                        IF n = Len(buf[conn].rest) THEN "BODY" ELSE @]
          /\ pc' = "max_fd"
          /\ UNCHANGED staticUnchanged
  /\ UNCHANGED <<readyVars, netVars, proc>>

(* Bug: all that send was asked to take counts as sent.                    *)
FileSent_Asked(r, n) == [r EXCEPT !.mmbuf = Skip(@, Least(BUFSZ, Len(@)))]
FileSent(r, n) == [r EXCEPT !.mmbuf = Skip(@, n)]

SendBody ==
  /\ ServingStatic
  /\ resp[conn].phase = "BODY"
  /\ \E n \in SendResults(conn, Least(BUFSZ, Len(resp[conn].mmbuf))) :
       \/ n = 0 /\ DropConn(conn) /\ UNCHANGED out
       \/ /\ n > 0 /\ n = Len(resp[conn].mmbuf)
          /\ Delivered(conn, resp[conn].mmbuf, n)
          /\ Finish(conn, FALSE, "max_fd")
       \/ /\ n > 0 /\ n < Len(resp[conn].mmbuf)
          /\ Delivered(conn, resp[conn].mmbuf, n)
          /\ resp' = [resp EXCEPT ![conn] = FileSent(@, n)]
          /\ pc' = "max_fd"
          /\ UNCHANGED <<buf, staticUnchanged>>
  /\ UNCHANGED <<readyVars, netVars, proc>>

-----------------------------------------------------------------------------
(* The end of a visit, and of the loop.                                    *)

(* Bug: the CGI program's stderr is left out.                              *)
ConnMaxFd_NoErr(c) == Most(fd[c], pipe[c]["srv_in"])
ConnMaxFd(c) == Most(fd[c], Most(pipe[c]["srv_in"], pipe[c]["srv_err"]))

MaxFd ==
  /\ At("max_fd")
  /\ top' = Most(top, ConnMaxFd(conn))
  /\ cur' = cur + 1
  /\ pc' = "recv"
  /\ UNCHANGED <<wr, poolVars, setVars, readyVars, fdVars, msgVars, tlsVars, netVars,
                 ioVars, proc>>

(* Bug: the loop stops before the last connection.                         *)
LoopEnd_OneShort ==
  /\ pc = "recv" /\ cur >= Len(conns)
  /\ max_fd' = top
  /\ read_ready' = {} /\ write_ready' = {}
  /\ pc' = "select"
  /\ UNCHANGED <<loopVars, conns, idx, setVars, fdVars, msgVars, tlsVars, netVars,
                 ioVars, proc>>

(* The ready sets are overwritten by pl_ready before they are read again.  *)
LoopEnd ==
  /\ pc = "recv" /\ cur > Len(conns)
  /\ max_fd' = top
  /\ read_ready' = {} /\ write_ready' = {}
  /\ pc' = "select"
  /\ UNCHANGED <<loopVars, conns, idx, setVars, fdVars, msgVars, tlsVars, netVars,
                 ioVars, proc>>

Server ==
  \/ Select \/ AcceptSkip \/ AcceptRefuse \/ AcceptConn
  \/ RecvSkip \/ Handshake \/ HandshakeFail \/ RecvIgnore \/ RecvData
  \/ LogErr \/ Prepare
  \/ InitCgiSkip \/ InitCgiNoPipe \/ InitCgiFail \/ InitCgi
  \/ ForSelect
  \/ ToCgi \/ WriteSome \/ WriteShort \/ WriteFail \/ WriteDone
  \/ FromCgiSkip \/ FromCgi \/ FromCgiEof \/ FromCgiFail
  \/ DynamicSkip \/ DynamicEnd \/ ServeDynamic
  \/ StaticSkip \/ SendErrorPage \/ SendHeader \/ SendBody
  \/ MaxFd \/ LoopEnd

-----------------------------------------------------------------------------
(* Clients                                                                 *)

serverUnchanged == <<pc, loopVars, poolVars, setVars, readyVars, fdVars, msgVars,
                     tlsVars>>

Connected(c) == c \in backlog \/ fd[c] # NoFd

Connect(c) ==
  /\ link[c] = "off"
  /\ link' = [link EXCEPT ![c] = "open"]
  /\ backlog' = backlog \cup {c}
  /\ UNCHANGED <<serverUnchanged, sent, taken, ioVars, proc>>

ClientSend(c) ==
  /\ link[c] = "open" /\ sent[c] < Len(Segments[c])
  /\ sent' = [sent EXCEPT ![c] = @ + 1]
  /\ inq' = [inq EXCEPT ![c] = IF Connected(c) THEN @ \o Segments[c][sent[c] + 1] ELSE @]
  /\ UNCHANGED <<serverUnchanged, backlog, link, taken, out, proc>>

ClientRead(c) ==
  /\ link[c] \in {"open", "half"} /\ taken[c] < Len(out[c])
  /\ taken' = [taken EXCEPT ![c] = Len(out[c])]
  /\ UNCHANGED <<serverUnchanged, backlog, link, sent, ioVars, proc>>

ClientHalfClose(c) ==
  /\ c \in HalfCloses
  /\ link[c] = "open" /\ sent[c] = Len(Segments[c])
  /\ link' = [link EXCEPT ![c] = "half"]
  /\ UNCHANGED <<serverUnchanged, backlog, sent, taken, ioVars, proc>>

ClientLeave(c) ==
  /\ c \in Leaves
  /\ link[c] \in {"open", "half"}
  /\ link' = [link EXCEPT ![c] = "gone"]
  /\ taken' = [taken EXCEPT ![c] = Len(out[c])]
  /\ UNCHANGED <<serverUnchanged, backlog, sent, ioVars, proc>>

-----------------------------------------------------------------------------
(* The CGI program: it reads its input, writes OUTSZ units, possibly a     *)
(* line on its stderr, and exits.                                          *)

Running(c) == proc[c].st = "run"
(* No process has end e of the program's pipes any more.                   *)
Abandoned(c, e) ==
  pipe[c][e] = NoFd /\ \A d \in Client : <<c, e>> \notin proc[d].held
cgiUnchanged == <<serverUnchanged, netVars, ioVars>>

CgiRead(c) ==
  /\ Running(c) /\ (CgiOrder = "write" => proc[c].made = OUTSZ)
  /\ proc[c].stdin # << >>
  /\ proc' = [proc EXCEPT ![c].seen = @ \o proc[c].stdin, ![c].stdin = << >>]
  /\ UNCHANGED cgiUnchanged

CgiEof(c) ==
  /\ Running(c) /\ ~proc[c].eof
  /\ proc[c].stdin = << >> /\ Abandoned(c, "srv_out")
  /\ proc' = [proc EXCEPT ![c].eof = TRUE]
  /\ UNCHANGED cgiUnchanged

CgiWrite(c) ==
  /\ Running(c) /\ (CgiOrder = "read" => proc[c].eof)
  /\ proc[c].made < OUTSZ /\ Len(proc[c].stdout) < PIPESZ
  /\ proc' = [proc EXCEPT ![c].made = @ + 1,
                          ![c].stdout = Append(@, CgiUnit(proc[c].made + 1))]
  /\ UNCHANGED cgiUnchanged

CgiErr(c) ==
  /\ Running(c) /\ "stderr" \in Faults /\ ~proc[c].err
  /\ proc' = [proc EXCEPT ![c].err = TRUE]
  /\ UNCHANGED cgiUnchanged

Exit(p) == [p EXCEPT !.st = "exit", !.held = {}, !.stdin = << >>]

(* It exits when done or when a write to a pipe nobody reads fails (it     *)
(* inherits from main that SIGPIPE is ignored), and may die at any time if *)
(* Faults says so.                                                         *)
CgiExit(c) ==
  /\ Running(c)
  /\ \/ proc[c].eof /\ proc[c].made = OUTSZ
     \/ Abandoned(c, "srv_in")
     \/ "die" \in Faults
  /\ proc' = [proc EXCEPT ![c] = Exit(@)]
  /\ UNCHANGED cgiUnchanged

Clients == \E c \in Client :
  Connect(c) \/ ClientSend(c) \/ ClientRead(c) \/ ClientHalfClose(c) \/ ClientLeave(c)

Programs == \E c \in Client :
  CgiRead(c) \/ CgiEof(c) \/ CgiWrite(c) \/ CgiErr(c) \/ CgiExit(c)

Next == Server \/ Clients \/ Programs

Spec == Init /\ [][Next]_vars
=============================================================================
