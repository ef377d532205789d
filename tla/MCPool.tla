-------------------------------- MODULE MCPool --------------------------------
(* More clients than the pool takes, one of which leaves when it likes, and*)
(* few descriptors: pipe and accept fail, a pipe gets a descriptor select  *)
(* cannot take, fork and SSL_new fail.                                     *)
EXTENDS LisoProperties, TLC
CONSTANTS c1, c2, c3
MCUri == {"/page", "/cgi/x"}
MCFileSize == ("/page" :> 1) @@ ("/cgi/x" :> -1)
MCRequests ==
  (c1 :> << Ask("GET", "/cgi/x"), Ask("GET", "/cgi/x") >>)
    @@ (c2 :> << Closing(Ask("GET", "/page")) >>)
    @@ (c3 :> << >>)
MCSegments == [c \in Client |-> << Wire(MCRequests[c]) >>]
=============================================================================
