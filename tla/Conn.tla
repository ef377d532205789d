-------------------------------- MODULE Conn --------------------------------
(***************************************************************************)
(* The sequential part of one connection: what request.c, response.c and   *)
(* conn.c compute from the bytes a connection has received.  The bytes on  *)
(* the wire are abstracted to units: the text of a header line and the end *)
(* of line that follows it are one unit each, so a line can be cut by the  *)
(* network, and a body is a sequence of units.  Nothing here changes state:*)
(* module Liso calls these operators from the handlers of the main loop.   *)
(***************************************************************************)
EXTENDS Integers, Sequences

CONSTANTS
  Uri,        \* the paths a request may name
  CgiUri,     \* those below /cgi/
  FileSize,   \* units of the file a path resolves to; -1 when there is none
  BUFSZ,      \* capacity of a buf_t (buffer.h)
  HDRSZ,      \* units of a response header
  INT_HALF    \* half the range of a C int: atoi wraps at this value

ASSUME ConnAssumption ==
  /\ CgiUri \subseteq Uri
  /\ FileSize \in [Uri -> Nat \cup {-1}]
  /\ BUFSZ \in Nat \ {0}
  /\ HDRSZ \in Nat \ {0} /\ HDRSZ < BUFSZ     \* "Assumes error page fits into buffer"
  /\ INT_HALF \in Nat \ {0}

-----------------------------------------------------------------------------
(* The wire.  A request is made of line texts, each followed by LF, and of *)
(* Body units; on a TLS connection Hello units come first and the units of *)
(* a record are followed by its Mac.                                       *)

Methods == {"GET", "HEAD", "POST", "OTHER"}
LineText ==
  [k: {"start"}, method: Methods, uri: Uri]
    \cup [k: {"clen"}, n: Nat]                \* Content-Length: n
    \cup [k: {"close"}]                       \* Connection: close
    \cup [k: {"other"}]                       \* any other header
    \cup [k: {"junk"}]                        \* a line without ':'
LF == [k |-> "lf"]                            \* end of line, CRLF
BodyUnit == [k: {"body"}, i: Nat]
Hello == [k: {"hello"}, last: BOOLEAN]
Mac == [k |-> "mac"]
InUnit == LineText \cup {LF} \cup BodyUnit
WireUnit == InUnit \cup Hello \cup {Mac}
RecordUnit == InUnit \cup {Mac}
HelloDone == [k |-> "hello", last |-> TRUE]   \* the last message of a handshake

(* What the server sends: a header (resp_hdr), cut in HDRSZ units, then a  *)
(* file, the page of an error status (resp_msg), or what a CGI wrote.      *)
RespHdr(status, len, alive) ==
  [i \in 1..HDRSZ |-> [k |-> "head", status |-> status, len |-> len,
                       alive |-> alive, part |-> i]]
RespMsg(status) == << [k |-> "page", status |-> status] >>
FileUnits(u) == [i \in 1..FileSize[u] |-> [k |-> "file", uri |-> u, i |-> i]]
CgiUnit(i) == [k |-> "cgi", i |-> i]

Status == {200, 400, 404, 411, 500, 501}
OutUnit ==
  [k: {"head"}, status: Status, len: Nat, alive: BOOLEAN, part: 1..HDRSZ]
    \cup [k: {"page"}, status: Status]
    \cup [k: {"file"}, uri: Uri, i: Nat]
    \cup [k: {"cgi"}, i: Nat]

-----------------------------------------------------------------------------
(* The structures of a connection.                                         *)

(* Bug: connections are not kept alive.                                    *)
NewReq_NotAlive ==
  [phase |-> "START", type |-> "STATIC", method |-> "OTHER", uri |-> "",
   alive |-> FALSE, clen |-> -1, rsize |-> 0]

NewReq == [phase |-> "START", type |-> "STATIC", method |-> "OTHER", uri |-> "",
           alive |-> TRUE, clen |-> -1, rsize |-> 0]

NewResp == [phase |-> "READY", status |-> 200, mmbuf |-> << >>]

NewCgi == [phase |-> "IDLE", buf_phase |-> "RECV"]

(* Bug: the length is passed on for every request.                         *)
EnvpNew_AnyLength(rq) ==
  [method |-> rq.method, uri |-> rq.uri, clen |-> rq.clen, alive |-> rq.alive]

(* envp_new: the part of a CGI program's environment that depends on the   *)
(* request: REQUEST_METHOD, REQUEST_URI, CONTENT_LENGTH (-1: not there) and*)
(* HTTP_CONNECTION.                                                        *)
EnvpNew(rq) ==
  [method |-> rq.method, uri |-> rq.uri, alive |-> rq.alive,
   clen |-> IF rq.clen > 0 THEN rq.clen ELSE -1]
NoEnv == [method |-> "OTHER", uri |-> "", alive |-> TRUE, clen |-> -1]

(* A buf_t: p units lie before data_p, rest is [data_p, data + sz).        *)
BufOf(units) == [p |-> 0, rest |-> units]
NewBuf == BufOf(<< >>)
BufSz(b) == b.p + Len(b.rest)
(* Bug: data_p moves on, but the units before it are kept as well.         *)
Advance_Kept(b, n) == [p |-> b.p + n, rest |-> b.rest]
Advance(b, n) == [p |-> b.p + n, rest |-> SubSeq(b.rest, n + 1, Len(b.rest))]

(* What the fields may hold: the enumerations of request.h, response.h and *)
(* cgi.h, and buffers of at most BUFSZ units (buffer.h: "<= BUFSZ").       *)
ReqType ==
  [phase: {"START", "HEADER", "BODY", "DONE", "ABORT"}, type: {"STATIC", "DYNAMIC"},
   method: Methods, uri: Uri \cup {""}, alive: BOOLEAN, clen: Int, rsize: Int]
RespType ==
  [phase: {"READY", "HEADER", "BODY", "ABORT", "DISABLED"}, status: Status,
   mmbuf: Seq(OutUnit)]
CgiType ==
  [phase: {"IDLE", "READY", "SRV_TO_CGI", "CGI_TO_SRV", "DONE", "ABORT", "DISABLED"},
   buf_phase: {"RECV", "SEND"}]
BufType == [p: 0..BUFSZ, rest: Seq(InUnit \cup OutUnit)]

-----------------------------------------------------------------------------
(* req_parse, line by line.  The parser's state is the request, the text   *)
(* of the line being read, the units of the lines read, and the status of  *)
(* the error met (0: none).                                                *)

(* atoi on a string of digits: the low bits of the number, as a signed int.*)
Atoi(n) == LET low == n % (2 * INT_HALF)
           IN IF low < INT_HALF THEN low ELSE low - 2 * INT_HALF

Refuse(s, status) == [s EXCEPT !.req.phase = "ABORT", !.status = status]

(* Phase START: method, uri, version, end of line.                         *)
StartLine(s) ==
  IF s.line = << >> THEN Refuse(s, 400)
  ELSE IF s.line[1].k # "start" \/ s.line[1].method = "OTHER"
  THEN Refuse(s, 501)
  ELSE LET named == [s EXCEPT
             !.req.method = s.line[1].method,
             !.req.uri = s.line[1].uri,
             !.req.type = IF s.line[1].uri \in CgiUri THEN "DYNAMIC" ELSE "STATIC"]
       IN IF Len(s.line) > 1 THEN Refuse(named, 400)
          ELSE [named EXCEPT !.req.phase = "HEADER"]

(* Phase HEADER, the blank line: the length of the body is settled.        *)
BlankLine(s) ==
  IF s.req.clen >= 0
  THEN [s EXCEPT !.req.phase = "BODY", !.req.rsize = s.req.clen]
  ELSE IF s.req.method = "POST" THEN Refuse(s, 411)
  ELSE [s EXCEPT !.req.phase = "BODY", !.req.clen = 0, !.req.rsize = 0]

(* Phase HEADER, a field.                                                  *)
FieldLine(s) ==
  CASE s.line[1].k = "clen"  -> [s EXCEPT !.req.clen = Atoi(s.line[1].n)]
    [] s.line[1].k = "close" -> [s EXCEPT !.req.alive = FALSE]
    [] s.line[1].k = "other" -> s
    [] OTHER                 -> Refuse(s, 400)

ParseLine(s) ==
  IF s.req.phase = "START" THEN StartLine(s)
  ELSE IF s.line = << >> THEN BlankLine(s)
  ELSE FieldLine(s)

(* The loop stops at an error or once the blank line is read.              *)
ParseUnit(s, u) ==
  IF s.req.phase \notin {"START", "HEADER"} THEN s
  ELSE IF u # LF THEN [s EXCEPT !.line = Append(@, u)]
  ELSE [ParseLine(s) EXCEPT !.line = << >>, !.used = @ + Len(s.line) + 1]

(* The parser's state after each number of units, from none to all.        *)
ParserStates(rq, lines) ==
  LET state[n \in 0 .. Len(lines)] ==
        IF n = 0 THEN [req |-> rq, line |-> << >>, used |-> 0, status |-> 0]
        ELSE ParseUnit(state[n - 1], lines[n])
  IN state

ReqParse(rq, lines) == ParserStates(rq, lines)[Len(lines)]

-----------------------------------------------------------------------------
(* cn_parse_req                                                            *)

(* Bug: the search stops at the first end of line.                         *)
LinesEnd_First(b, from) ==
  LET Ends == {i \in (from - b.p + 1)..Len(b.rest) : b.rest[i] = LF}
  IN IF Ends = {} THEN 0 ELSE CHOOSE i \in Ends : \A j \in Ends : i <= j

(* Units of b up to its last end of line; only those received after        *)
(* position from are searched.                                             *)
LinesEnd(b, from) ==
  LET Ends == {i \in (from - b.p + 1)..Len(b.rest) : b.rest[i] = LF}
  IN IF Ends = {} THEN 0 ELSE CHOOSE i \in Ends : \A j \in Ends : j <= i

(* First half: the header lines received so far are parsed.                *)
ParseHeader(rq, b, from) ==
  LET end == LinesEnd(b, from)
      s == ReqParse(rq, SubSeq(b.rest, 1, end))
  IN IF rq.phase \notin {"START", "HEADER"} \/ end = 0
     THEN [req |-> rq, buf |-> b, status |-> 0]
     ELSE [req |-> s.req, status |-> s.status,
           buf |-> Advance(b, IF s.status # 0 THEN end ELSE s.used)]

(* Bug: what exceeds the body is dropped.                                  *)
ParseBody_Dropped(rq, b, last) ==
  LET left == rq.rsize - Len(b.rest)
  IN [req |-> [rq EXCEPT !.rsize = left, !.phase = IF left <= 0 THEN "DONE" ELSE "BODY"],
      last |-> last, buf |-> NewBuf, status |-> 0]

(* Bug: the first unit of what exceeds the body is lost.                   *)
ParseBody_OffByOne(rq, b, last) ==
  LET left == rq.rsize - Len(b.rest)
  IN [req |-> [rq EXCEPT !.rsize = left, !.phase = IF left <= 0 THEN "DONE" ELSE "BODY"],
      last |-> SubSeq(b.rest, Len(b.rest) + left + 2, Len(b.rest)),
      buf |-> NewBuf, status |-> 0]

(* Bug: what exceeds the body is copied to last, but stays in the buffer.  *)
ParseBody_Uncut(rq, b, last) ==
  LET left == rq.rsize - Len(b.rest)
  IN [req |-> [rq EXCEPT !.rsize = left, !.phase = IF left <= 0 THEN "DONE" ELSE "BODY"],
      last |-> IF left < 0 THEN SubSeq(b.rest, Len(b.rest) + left + 1, Len(b.rest)) ELSE last,
      buf |-> IF rq.type = "STATIC" THEN NewBuf ELSE b, status |-> 0]

(* Bug: the body is taken for complete one unit before its end.            *)
ParseBody_Early(rq, b, last) ==
  LET left == rq.rsize - Len(b.rest)
  IN [req |-> [rq EXCEPT !.rsize = left, !.phase = IF left <= 1 THEN "DONE" ELSE "BODY"],
      last |-> last, buf |-> NewBuf, status |-> 0]

(* Second half: what follows data_p is counted as body; what exceeds the   *)
(* body is kept for the next request in last.                              *)
ParseBody(rq, b, last) ==
  LET left == rq.rsize - Len(b.rest)
      over == IF left < 0 THEN -left ELSE 0
      cut == Len(b.rest) - over
  IN [req |-> [rq EXCEPT !.rsize = left,
                         !.phase = IF left <= 0 THEN "DONE" ELSE "BODY"],
      last |-> IF left < 0 THEN SubSeq(b.rest, cut + 1, Len(b.rest)) ELSE last,
      buf |-> IF rq.type = "STATIC" THEN NewBuf
              ELSE [b EXCEPT !.rest = SubSeq(@, 1, cut)],
      status |-> 0]

ParseReq(rq, b, last, from) ==
  LET h == ParseHeader(rq, b, from)
  IN IF h.status = 0 /\ h.req.phase = "BODY"
     THEN ParseBody(h.req, h.buf, last)
     ELSE [req |-> h.req, buf |-> h.buf, last |-> last, status |-> h.status]

(* The transitions cn_parse_req makes once the header is read: a static    *)
(* request disables the CGI, a dynamic one the static response.            *)
InBody(rq) == rq.phase \in {"BODY", "DONE"}

CgiParsed(cg, rq) ==
  IF ~InBody(rq) THEN cg
  ELSE IF rq.type = "STATIC" THEN [cg EXCEPT !.phase = "DISABLED"]
  ELSE [cg EXCEPT !.phase = IF @ = "IDLE" THEN "READY" ELSE @]

RespParsed(rs, rq) ==
  IF InBody(rq) /\ rq.type = "DYNAMIC" THEN [rs EXCEPT !.phase = "DISABLED"] ELSE rs

(* liso_conn_err: the request is given up and an error page is due.        *)
AbortReq(rq) == [rq EXCEPT !.phase = "ABORT"]
AbortResp(rs, status) == [rs EXCEPT !.phase = "ABORT", !.status = status]

(* cn_send_error_page: the page is built from scratch at each call.        *)
ErrorPage(rq, rs) ==
  RespHdr(rs.status, Len(RespMsg(rs.status)), rq.alive) \o RespMsg(rs.status)
=============================================================================
