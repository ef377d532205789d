-------------------------------- MODULE MCSlow --------------------------------
(* Small buffers and a client that reads slowly: headers and files are sent*)
(* in parts, requests arrive in parts, a header exceeds the buffer.        *)
EXTENDS LisoProperties, TLC
CONSTANTS c1, c2
MCUri == {"/page", "/big"}
MCFileSize == ("/page" :> 2) @@ ("/big" :> 8)
MCRequests ==
  (c1 :> << Ask("GET", "/page"), Post("/big", 3), Ask("GET", "/page") >>)
    @@ (c2 :> << Closing(Post("/page", 1)) >>)
MCSegments ==
  (c1 :> Cut(Wire(MCRequests[c1]), <<4>>)) @@ (c2 :> << Wire(MCRequests[c2]) >>)
=============================================================================
