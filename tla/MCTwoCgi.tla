------------------------------- MODULE MCTwoCgi -------------------------------
(* Two clients ask for the CGI program; the first may leave.               *)
EXTENDS LisoProperties, TLC
CONSTANTS c1, c2
MCUri == {"/cgi/x"}
MCFileSize == ("/cgi/x" :> -1)
MCRequests ==
  (c1 :> << Ask("GET", "/cgi/x") >>) @@ (c2 :> << Closing(Post("/cgi/x", 1)) >>)
MCSegments ==
  (c1 :> << Wire(MCRequests[c1]) >>) @@ (c2 :> Cut(Wire(MCRequests[c2]), <<7>>))
=============================================================================
