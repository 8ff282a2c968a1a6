------------------------- MODULE MCActionEnvelope -------------------------
(* Four calls that meet in every way a key can be met: c1 and c2 are two   *)
(* deliveries of one command, c3 carries their key to another request, and *)
(* c4 asks the same of their request under a key of its own.               *)
EXTENDS ActionEnvelope, TLC

CONSTANTS c1, c2, c3, c4, k1, k2, r1, r2

AllCalls == {c1, c2, c3, c4}
AllKeys == {k1, k2}
AllRequests == {r1, r2}

KeyOfCall == (c1 :> k1) @@ (c2 :> k1) @@ (c3 :> k1) @@ (c4 :> k2)
RequestOfCall == (c1 :> r1) @@ (c2 :> r1) @@ (c3 :> r2) @@ (c4 :> r1)
PredecessorOfCall == [c \in AllCalls |-> 0]
=============================================================================
