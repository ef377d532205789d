---------------------------- MODULE HttpService ----------------------------
(***************************************************************************)
(* What the server promises to each of its clients, whatever its loop, its *)
(* buffers and the kernel do in between: it hears the client's stream of   *)
(* units, and says the replies to the requests it has heard, in order, and *)
(* none before its request is known; it hangs up when it has said all that *)
(* it owes, or when the client stopped talking.  LisoProperties shows that *)
(* Liso implements this.                                                   *)
(***************************************************************************)
EXTENDS Integers, Sequences
LOCAL INSTANCE SequencesExt

CONSTANTS
  Client,
  Replies,    \* the reply to each request of a client: a sequence of units
  Known       \* after how many units of the client's stream that reply is known

VARIABLES
  call,       \* how each client's call stands: "none", "open", "over"
  heard,      \* units of the client's stream the server has taken
  said,       \* units the client was sent
  quiet       \* clients that said they will send no more, or left

vars == <<call, heard, said, quiet>>

(* What client c is owed once n units are heard, and in the end.           *)
KnownBy(c, n) == {q \in 1 .. Len(Known[c]) : Known[c][q] <= n}
Owed(c, n) ==
  FlattenSeq([q \in 1 .. Len(Replies[c]) |->
                IF q \in KnownBy(c, n) THEN Replies[c][q] ELSE << >>])
OwedInAll(c) == FlattenSeq(Replies[c])

Init ==
  /\ call = [c \in Client |-> "none"]
  /\ heard = [c \in Client |-> 0]
  /\ said = [c \in Client |-> << >>]
  /\ quiet = {}

(* Only what f says of c changes, to v.                                    *)
Becomes(f, g, c, v) == g[c] = v /\ \A d \in Client \ {c} : g[d] = f[d]

Accept(c) ==
  /\ call[c] = "none"
  /\ Becomes(call, call', c, "open")
  /\ UNCHANGED <<heard, said, quiet>>

(* A client that has no connection yet is turned away.                     *)
Refuse(c) ==
  /\ call[c] = "none"
  /\ Becomes(call, call', c, "over")
  /\ UNCHANGED <<heard, said, quiet>>

Hear(c) ==
  /\ call[c] = "open"
  /\ heard'[c] > heard[c]
  /\ Becomes(heard, heard', c, heard'[c])
  /\ UNCHANGED <<call, said, quiet>>

(* The client is sent some more, or nothing, of what it is owed.           *)
Continue(c) ==
  /\ Becomes(said, said', c, said'[c])
  /\ IsPrefix(said[c], said'[c])
  /\ IsPrefix(said'[c], Owed(c, heard[c]))

Say(c) ==
  /\ call[c] = "open"
  /\ said'[c] # said[c]
  /\ Continue(c)
  /\ UNCHANGED <<call, heard, quiet>>

(* The last units of the last reply may be said on hanging up.             *)
HangUp(c) ==
  /\ call[c] = "open"
  /\ Becomes(call, call', c, "over")
  /\ Continue(c)
  /\ c \in quiet \/ said'[c] = OwedInAll(c)
  /\ Becomes(heard, heard', c, 0)
  /\ UNCHANGED quiet

Quiet(c) ==
  /\ c \notin quiet
  /\ quiet' = quiet \cup {c}
  /\ UNCHANGED <<call, heard, said>>

Next ==
  \E c \in Client :
    Accept(c) \/ Refuse(c) \/ Hear(c) \/ Say(c) \/ HangUp(c) \/ Quiet(c)

Spec == Init /\ [][Next]_vars
=============================================================================
