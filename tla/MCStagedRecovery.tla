-------------------------- MODULE MCStagedRecovery --------------------------
(***************************************************************************)
(* Small instances of StagedRecovery for TLC.                              *)
(***************************************************************************)
EXTENDS StagedRecovery, TLC

CONSTANTS p1, p2, e1, e2

MCEscalations == {e1, e2}
MCKey == e1 :> 1 @@ e2 :> 2
MCTokens == {"t"}
MCToken == [e \in Escalations |-> "t"]
MCTokenExpiry == [e \in Escalations |-> 2]
MCTwoProcesses == {p1, p2}
MCAnswers == e1 :> {"execute"} @@ e2 :> {"execute", "misshapen", "dismiss"}
=============================================================================
