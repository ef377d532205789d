------------------------------- MODULE MCLife -------------------------------
(* Servers given the same files; the pid of the first is longer.           *)
EXTENDS LifecycleProperties, TLC
CONSTANTS s1, s2, k1, k2
MCPid == (s1 :> << 1, 2 >>) @@ (s2 :> << 3 >>)
=============================================================================
