---------------------------- MODULE EscalationRows ----------------------------
(***************************************************************************)
(* What the dispatcher, which obtains an answer for a row, and recovery,   *)
(* which ends the row on it, expect of each other in pending_escalations:  *)
(* an answer is stored once, with the row's turn to 'staged', and stands   *)
(* until the row that ended on it is pruned.                               *)
(***************************************************************************)
CONSTANTS Rows, NoAnswer

VARIABLES state, answer

Init ==
    /\ state \in [Rows -> {"absent", "open"}]
    /\ answer = [r \in Rows |-> NoAnswer]

Enqueue(r) ==
    /\ state[r] = "absent"
    /\ state' = [state EXCEPT ![r] = "open"]
    /\ UNCHANGED answer

Stage(r) ==
    /\ state[r] = "open"
    /\ state' = [state EXCEPT ![r] = "staged"]
    /\ answer'[r] # NoAnswer
    /\ answer' = [answer EXCEPT ![r] = answer'[r]]

End(r) ==
    /\ state[r] = "staged"
    /\ state' = [state EXCEPT ![r] = "ended"]
    /\ UNCHANGED answer

Prune(S) ==
    /\ \A r \in S : state[r] = "ended"
    /\ state' = [r \in Rows |-> IF r \in S THEN "absent" ELSE state[r]]
    /\ answer' = [r \in Rows |-> IF r \in S THEN NoAnswer ELSE answer[r]]

Next ==
    \/ \E r \in Rows : Enqueue(r) \/ Stage(r) \/ End(r)
    \/ \E S \in SUBSET Rows : Prune(S)

vars == <<state, answer>>

Spec == Init /\ [][Next]_vars
=============================================================================
