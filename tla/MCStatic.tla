------------------------------ MODULE MCStatic ------------------------------
(* Static requests: two clients pipeline requests, good and bad, of every  *)
(* method.  The network cuts those of the first inside a header and inside *)
(* a line; the second uses https, with a handshake of two messages and     *)
(* records that end inside a line and inside a body, and may leave.        *)
EXTENDS LisoProperties, TLC
CONSTANTS c1, c2
MCUri == {"/page", "/none"}
MCFileSize == ("/page" :> 3) @@ ("/none" :> -1)
MCRequests ==
  (c1 :> << Ask("GET", "/none"), Ask("HEAD", "/page"), Closing(Ask("GET", "/none")) >>)
    @@ (c2 :> << Post("/page", 2), [Ask("GET", "/page") EXCEPT !.junk = TRUE],
                 Ask("GET", "/page") >>)
Sealed(units) == Append(units, Mac)
Hellos == << [k |-> "hello", last |-> FALSE], [k |-> "hello", last |-> TRUE] >>
MCSegments ==
  (c1 :> Cut(Wire(MCRequests[c1]), <<2, 7>>))
    @@ (c2 :> LET s == Cut(Wire(MCRequests[c2]), <<3, 6, 12>>)
              IN << Hellos, Sealed(s[1]), Sealed(s[2]) \o Sealed(s[3]), Sealed(s[4]) >>)
=============================================================================
