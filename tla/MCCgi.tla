-------------------------------- MODULE MCCgi --------------------------------
(* A CGI request whose body comes in three segments, the last of which     *)
(* begins the next request of its connection, beside a static one.  BUFSZ  *)
(* is too small for last_buf to hold that request as a whole (v_piped).    *)
EXTENDS LisoProperties, TLC
CONSTANTS c1, c2
MCUri == {"/page", "/cgi/x"}
MCFileSize == ("/page" :> 2) @@ ("/cgi/x" :> -1)
MCRequests ==
  (c1 :> << Post("/cgi/x", 4), Closing(Ask("HEAD", "/page")) >>)
    @@ (c2 :> << Closing(Ask("HEAD", "/page")) >>)
MCSegments ==
  (c1 :> Cut(Wire(MCRequests[c1]), <<6, 7>>))
    @@ (c2 :> << Wire(MCRequests[c2]) >>)
=============================================================================
