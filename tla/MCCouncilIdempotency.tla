------------------------ MODULE MCCouncilIdempotency ------------------------
(***************************************************************************)
(* Small instances of CouncilIdempotency for TLC: the requests retry one   *)
(* key, the last of three with another body.                               *)
(***************************************************************************)
EXTENDS CouncilIdempotency, TLC

CONSTANTS r1, r2, r3

MCMixed == {r1, r3}
MCThree == {r1, r2, r3}
MCKeys == {"k"}
MCBodies == {"b1", "b2"}
MCKey == [r \in Requests |-> "k"]
MCBody == [r \in Requests |-> IF r = r3 THEN "b2" ELSE "b1"]
MCOneBody == [r \in Requests |-> "b1"]
MCSymmetry == Permutations(Requests)
=============================================================================
