------------------------------ MODULE MCFindings ------------------------------
(* The smallest scenarios in which the server breaks what its documents    *)
(* and comments promise, one pair of Requests and Segments per scenario.   *)
EXTENDS LisoProperties, TLC
CONSTANTS c1, c2
MCUri == {"/page", "/none", "/empty", "/cgi/x"}
MCFileSize ==
  ("/page" :> 1) @@ ("/none" :> -1) @@ ("/empty" :> 0) @@ ("/cgi/x" :> -1)

AllAtOnce(reqs) == [c \in Client |-> << Wire(reqs[c]) >>]
Sealed(units) == Append(units, Mac)
Hellos == << [k |-> "hello", last |-> FALSE], [k |-> "hello", last |-> TRUE] >>

(* A page requested behind a CGI request, in one segment.                  *)
PipedRequests == (c1 :> << Ask("GET", "/cgi/x"), Ask("GET", "/page") >>)
PipedSegments == AllAtOnce(PipedRequests)

(* One CGI request.                                                        *)
CgiRequests == [c \in Client |-> << Ask("GET", "/cgi/x") >>]
CgiSegments == AllAtOnce(CgiRequests)

(* A HEAD request and another one behind it.                               *)
HeadRequests == (c1 :> << Ask("HEAD", "/page"), Ask("GET", "/page") >>)
HeadSegments == AllAtOnce(HeadRequests)

MissingRequests == (c1 :> << Ask("GET", "/none") >>)
MissingSegments == AllAtOnce(MissingRequests)

HeadMissingRequests == (c1 :> << Ask("HEAD", "/none") >>)
HeadMissingSegments == AllAtOnce(HeadMissingRequests)

EmptyRequests == (c1 :> << Closing(Ask("GET", "/empty")) >>)
EmptySegments == AllAtOnce(EmptyRequests)

(* A CGI request piped behind a page, its body cut after the first unit.   *)
SplitRequests == (c1 :> << Ask("GET", "/page"), Post("/cgi/x", 3) >>)
SplitSegments == (c1 :> Cut(Wire(SplitRequests[c1]), <<9>>))

(* A page requested behind a malformed request, in the same segment or cut *)
(* in its first line, and behind one for a file that is not there.         *)
BadRequests ==
  (c1 :> << [Ask("GET", "/page") EXCEPT !.junk = TRUE], Ask("GET", "/page") >>)
BadSegments == AllAtOnce(BadRequests)
BadCutSegments == (c1 :> Cut(Wire(BadRequests[c1]), <<6>>))
NoFileRequests == (c1 :> << Ask("GET", "/none"), Ask("GET", "/page") >>)
NoFileSegments == (c1 :> Cut(Wire(NoFileRequests[c1]), <<3>>))

(* A Content-Length beyond the range of int.                               *)
LongRequests == (c1 :> << Post("/page", INT_HALF + 1) >>)
LongSegments == AllAtOnce(LongRequests)

(* A body larger than the pipe.                                            *)
BodyRequests == (c1 :> << Post("/cgi/x", 3) >>)
BodySegments == AllAtOnce(BodyRequests)

(* TLS: a client that sends something else than a handshake; a record that *)
(* comes in two segments; a record larger than the buffer.                 *)
PageRequests == (c1 :> << Ask("GET", "/page") >>)
NoTlsSegments == AllAtOnce(PageRequests)
TornSegments ==
  (c1 :> << Hellos >> \o Cut(Sealed(Wire(PageRequests[c1])), <<2>>))
BigRecordRequests == (c1 :> << Post("/page", 3) >>)
BigRecordSegments == (c1 :> << Hellos, Sealed(Wire(BigRecordRequests[c1])) >>)
=============================================================================
