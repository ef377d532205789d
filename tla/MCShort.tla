------------------------------- MODULE MCShort -------------------------------
(* A body larger than the pipe for a program that may die before it reads, *)
(* from a client that may leave.                                           *)
EXTENDS LisoProperties, TLC
CONSTANTS c1
MCUri == {"/cgi/x"}
MCFileSize == ("/cgi/x" :> -1)
MCRequests == (c1 :> << Post("/cgi/x", 5) >>)
MCSegments == (c1 :> Cut(Wire(MCRequests[c1]), <<7>>))
=============================================================================
