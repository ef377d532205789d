----------------------------- MODULE PoolRounds -----------------------------
(***************************************************************************)
(* What the loop of main promises to the connections of the pool, whatever *)
(* array, index and sets it is written with: each time select returns, the *)
(* newcomers are taken in as long as there is room, and then every member  *)
(* has its turn, once, before select is called again; a member leaves only *)
(* in its own turn.  LisoProperties says how Liso implements this.         *)
(***************************************************************************)
EXTENDS Naturals, FiniteSets

CONSTANTS Client, MAX_CONNS

VARIABLES
  phase,      \* "wait" for an event, "join" the pool, "serve" its members
  members,    \* the connections of the pool
  todo,       \* those whose turn in this round is still to come
  turn        \* the one whose turn it is, if any

vars == <<phase, members, todo, turn>>

Init == phase = "wait" /\ members = {} /\ todo = {} /\ turn = {}

Wake ==
  /\ phase = "wait" /\ phase' = "join"
  /\ UNCHANGED <<members, todo, turn>>

Admit ==
  \/ UNCHANGED members
  \/ /\ Cardinality(members) < MAX_CONNS
     /\ \E c \in Client \ members : members' = members \cup {c}

Join ==
  /\ phase = "join" /\ Admit
  /\ UNCHANGED <<phase, todo, turn>>

(* The round is of those who are members when it begins.                   *)
Begin ==
  /\ phase = "join" /\ Admit
  /\ phase' = "serve" /\ todo' = members'
  /\ UNCHANGED turn

Call(c) ==
  /\ phase = "serve" /\ turn = {} /\ c \in todo
  /\ turn' = {c} /\ todo' = todo \ {c}
  /\ UNCHANGED <<phase, members>>

(* A member leaves in its own turn, which may begin and end with that.     *)
Leave(c) ==
  /\ phase = "serve"
  /\ \/ turn = {c}
     \/ turn = {} /\ c \in todo
  /\ members' = members \ {c} /\ todo' = todo \ {c} /\ turn' = {}
  /\ UNCHANGED phase

Done ==
  /\ phase = "serve" /\ turn' = {}
  /\ UNCHANGED <<phase, members, todo>>

End ==
  /\ phase = "serve" /\ turn = {} /\ todo = {}
  /\ phase' = "wait"
  /\ UNCHANGED <<members, todo, turn>>

Next ==
  \/ Wake \/ Join \/ Begin \/ Done \/ End
  \/ \E c \in Client : Call(c) \/ Leave(c)

Spec == Init /\ [][Next]_vars
=============================================================================
