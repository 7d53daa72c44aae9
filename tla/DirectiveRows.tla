---------------------------- MODULE DirectiveRows ----------------------------
(***************************************************************************)
(* What recovery, which files directives, and the outbox, which hands them *)
(* out and ends them, expect of each other in directive_outbox: one        *)
(* directive per row and never a second, filed after all that are on file, *)
(* ended once, and kept until it has ended.                                *)
(***************************************************************************)
EXTENDS Integers

CONSTANT Rows

VARIABLES state, created

OnFile == {r \in Rows : state[r] \in {"staged", "ended"}}

Init ==
    /\ state = [r \in Rows |-> "absent"]
    /\ created = [r \in Rows |-> 0]

\* A dismissal is filed as ended.
File(r) ==
    /\ state[r] = "absent"
    /\ \E s \in {"staged", "ended"} : state' = [state EXCEPT ![r] = s]
    /\ \A f \in OnFile : created[f] < created'[r]
    /\ created' = [created EXCEPT ![r] = created'[r]]

End(S) ==
    /\ \A r \in S : state[r] = "staged"
    /\ state' = [r \in Rows |-> IF r \in S THEN "ended" ELSE state[r]]
    /\ UNCHANGED created

Prune(S) ==
    /\ \A r \in S : state[r] = "ended"
    /\ state' = [r \in Rows |-> IF r \in S THEN "pruned" ELSE state[r]]
    /\ created' = [r \in Rows |-> IF r \in S THEN 0 ELSE created[r]]

Next ==
    \/ \E r \in Rows : File(r)
    \/ \E S \in SUBSET Rows : End(S) \/ Prune(S)

vars == <<state, created>>

Spec == Init /\ [][Next]_vars
=============================================================================
