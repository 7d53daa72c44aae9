------------------------ MODULE MCEscalationClaims ------------------------
(***************************************************************************)
(* Small instances of EscalationClaims for TLC.  Row 1 may be drained by   *)
(* both loops; row 2 belongs to a later epoch, which loop d1 is not armed  *)
(* for and loop d2, whose process names no epoch, drains like any other.   *)
(***************************************************************************)
EXTENDS EscalationClaims

MCEscalations == {1, 2}
MCOneEscalation == {1}
MCDispatchers == {"d1", "d2"}
MCCreatedAt == [e \in Escalations |-> e]
MCRowEpoch == [e \in Escalations |-> 6 + e]
MCLoopEpoch == [d \in Dispatchers |-> IF d = "d1" THEN 7 ELSE 0]
MCCosts == {1, 3}
MCCaps == {3, 6}
=============================================================================
