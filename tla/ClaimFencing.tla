---------------------------- MODULE ClaimFencing ----------------------------
(***************************************************************************)
(* What a fenced claim promises, whatever the leases, tokens and retries   *)
(* that implement it: at any time a job has at most one owner and a worker *)
(* owns at most one job, an owner may be preempted or lost at any moment,  *)
(* only the owner can finish the job, and a finished job stays finished.   *)
(***************************************************************************)
CONSTANTS Jobs, Workers, Nobody

VARIABLES owner, finished

Init ==
    /\ owner = [j \in Jobs |-> Nobody]
    /\ finished = [j \in Jobs |-> FALSE]

\* A worker without a job takes an unfinished one, from nobody or its owner.
Take(w, j) ==
    /\ ~finished[j]
    /\ \A i \in Jobs : owner[i] # w
    /\ owner' = [owner EXCEPT ![j] = w]
    /\ UNCHANGED finished

\* Some owners are lost: crashed, gave up, or were swept.
Lose(S) ==
    /\ owner' = [j \in Jobs |-> IF j \in S THEN Nobody ELSE owner[j]]
    /\ UNCHANGED finished

Finish(w, j) ==
    /\ owner[j] = w
    /\ owner' = [owner EXCEPT ![j] = Nobody]
    /\ finished' = [finished EXCEPT ![j] = TRUE]

Next ==
    \/ \E w \in Workers, j \in Jobs : Take(w, j) \/ Finish(w, j)
    \/ \E S \in SUBSET Jobs : Lose(S)

Spec == Init /\ [][Next]_<<owner, finished>>
=============================================================================
