-------------------------- MODULE EscalationClaims --------------------------
(***************************************************************************)
(* The dispatcher leg of the watch plane: rows of pending_escalations are  *)
(* claimed under a lease and a fencing token, a worst-case reservation is  *)
(* made against the UTC-day spend ledger in the same transaction, the      *)
(* council is called, and the answer is either staged and settled or the   *)
(* claim is abandoned and its reservation released.                        *)
(*                                                                         *)
(* Every database transaction (BEGIN IMMEDIATE on one SQLite file) is one  *)
(* action.  Several dispatcher loops, one per sidecar process open on the  *)
(* same watch.db, interleave between transactions; each of them holds its  *)
(* claim, its token and its council call in memory only, and may crash.    *)
(*                                                                         *)
(* Time is kept as the time LEFT until claimed_until_ms, next_retry_at_ms  *)
(* and the dispatch fence, so the clock needs no bound; the host clock is  *)
(* taken to run forward.  Money is counted in whole units.                 *)
(***************************************************************************)
EXTENDS Integers, FiniteSets

CONSTANTS
    Escalations,    \* the primary keys (tenant, id) of pending_escalations
    CreatedAt,      \* created_at_ms of each row, fixed by the fire it came from
    RowEpoch,       \* replay_epoch stamped on each row when it is enqueued
    Dispatchers,    \* the live dispatcher loops sharing the database
    LoopEpoch,      \* the armed replay epoch of each loop's process; 0 drains all
    NoJob,          \* the job of a loop that holds no claim
    Nobody,         \* the owner of a row no loop can write
    QueueCap,       \* ceiling on non-terminal rows, enforced at enqueue
    Estimate,       \* the per-directive reservation, max_fanout_cost_usd
    AmbientCap,     \* the boot-resolved daily spend cap
    Caps,           \* daily caps a hardware-attested arm may carry
    Costs,          \* realised costs the council may report
    LastDay,        \* bound: UTC days 1..LastDay are explored
    Lease,          \* lease_duration_ms, in ticks
    Backoff,        \* RETRY_BACKOFF_MS, in ticks
    Deadline,       \* deliberation_deadline_ms, in ticks
    MaxClaims       \* bound: claims of one row that are explored

ASSUME EscalationsAssumption == IsFiniteSet(Escalations) /\ NoJob \notin Escalations /\ Nobody \notin Dispatchers
ASSUME RowsAssumption ==
    /\ CreatedAt \in [Escalations -> Nat]
    /\ RowEpoch \in [Escalations -> Nat]
    /\ LoopEpoch \in [Dispatchers -> Nat]
ASSUME MoneyAssumption ==
    /\ Estimate \in Nat \ {0}
    /\ AmbientCap \in Nat
    /\ Caps \subseteq Nat \ {0}
    /\ Costs \subseteq Nat
ASSUME TimeAssumption ==
    /\ LastDay \in Nat \ {0}
    /\ Lease \in Nat
    /\ Backoff \in Nat
    /\ Deadline \in Nat
ASSUME BoundAssumption == MaxClaims \in Nat /\ QueueCap \in Nat

VARIABLES
    status,      \* pending_escalations.status ("absent" before the insert)
    claimToken,  \* claim_token: the number of the row's latest claim, 0 is NULL
    leaseLeft,   \* claimed_until_ms - now; -1 once it lies in the past
    retryLeft,   \* next_retry_at_ms - now, 0 once due; -1 is NULL
    stamp,       \* reserved_day_bucket (with reserved_estimate_usd); 0 is NULL
    realized,    \* realized_cost_usd; -1 is NULL
    response,    \* council_response_json: the claim that obtained it; 0 is NULL
    reserved,    \* spend_ledger.reserved_usd of each day
    settled,     \* spend_ledger.settled_usd of each day
    today,       \* utc_day_bucket(now)
    armCap,      \* signed cap of the arm verify_arm_row accepts; 0 is no arm
    loop,        \* what each dispatcher loop holds in memory
    overshoot,   \* history: realised cost above the reservation, per day
    peakCap      \* history: the widest ceiling a day was ever reserved under

rowVars == <<status, claimToken, leaseLeft, retryLeft, stamp, realized, response>>
ledgerVars == <<reserved, settled>>
historyVars == <<overshoot, peakCap>>
vars == <<rowVars, ledgerVars, today, armCap, loop, historyVars>>

Days == 1..LastDay
NoDay == 0
NoCost == -1
NoRetry == -1
Expired == -1

NonTerminal == {"queued", "claimed", "council_response_staged", "failed"}
Statuses == NonTerminal \cup {"absent"}
Phases == {"idle", "calling", "answered", "refused"}

\* What a dispatcher loop holds between transactions.
Memory == [phase : Phases, job : Escalations \cup {NoJob}, token : Nat,
           fence : Nat, answer : Costs \cup {NoCost}]

Idle == [phase |-> "idle", job |-> NoJob, token |-> 0, fence |-> 0, answer |-> NoCost]

Lower(a, b) == IF a <= b THEN a ELSE b
Higher(a, b) == IF a <= b THEN b ELSE a

(***************************************************************************)
(* The type invariant.                                                     *)
(***************************************************************************)
TypeOK ==
    /\ status \in [Escalations -> Statuses]
    /\ claimToken \in [Escalations -> Nat]
    /\ leaseLeft \in [Escalations -> Int]
    /\ retryLeft \in [Escalations -> Int]
    /\ stamp \in [Escalations -> Days \cup {NoDay}]
    /\ realized \in [Escalations -> Int]
    /\ response \in [Escalations -> Nat]
    /\ reserved \in [Days -> Nat]
    /\ settled \in [Days -> Nat]
    /\ today \in Days
    /\ armCap \in Caps \cup {0}
    /\ loop \in [Dispatchers -> Memory]
    /\ overshoot \in [Days -> Nat]
    /\ peakCap \in [Days -> Nat]

Init ==
    /\ status = [e \in Escalations |-> "absent"]
    /\ claimToken = [e \in Escalations |-> 0]
    /\ leaseLeft = [e \in Escalations |-> Expired]
    /\ retryLeft = [e \in Escalations |-> NoRetry]
    /\ stamp = [e \in Escalations |-> NoDay]
    /\ realized = [e \in Escalations |-> NoCost]
    /\ response = [e \in Escalations |-> 0]
    /\ reserved = [b \in Days |-> 0]
    /\ settled = [b \in Days |-> 0]
    /\ today = 1
    /\ armCap = 0
    /\ loop = [d \in Dispatchers |-> Idle]
    /\ overshoot = [b \in Days |-> 0]
    /\ peakCap = [b \in Days |-> 0]

(***************************************************************************)
(* Producer side: one row per causal fire, refused at the queue ceiling.   *)
(***************************************************************************)
Enqueue(e) ==
    /\ status[e] = "absent"
    /\ Cardinality({f \in Escalations : status[f] \in NonTerminal}) < QueueCap
    /\ status' = [status EXCEPT ![e] = "queued"]
    /\ UNCHANGED <<claimToken, leaseLeft, retryLeft, stamp, realized, response,
                   ledgerVars, today, armCap, loop, historyVars>>

(***************************************************************************)
(* The claim-and-reserve transaction.                                      *)
(***************************************************************************)
\* Defect: a lease is taken over in the very tick it expires in.
LeaseOverEarly(e) == status[e] = "claimed" /\ leaseLeft[e] <= 0

LeaseOver(e) == status[e] = "claimed" /\ leaseLeft[e] < 0

\* Defect: rows whose answer is already staged are claimed again.
EligibleStaged(d, e) ==
    /\ \/ status[e] \in NonTerminal \ {"claimed"} /\ retryLeft[e] <= 0
       \/ LeaseOver(e)
    /\ claimToken[e] < MaxClaims

Eligible(d, e) ==
    /\ \/ status[e] \in {"queued", "failed"} /\ retryLeft[e] <= 0
       \/ LeaseOver(e)
    /\ RowEpoch[e] = LoopEpoch[d] \/ LoopEpoch[d] = 0
    /\ claimToken[e] < MaxClaims

\* ORDER BY next_retry_at_ms IS NULL DESC, next_retry_at_ms, created_at_ms.
\* Past retry instants are all 0 here, so rows that carry one are unordered.
Before(e, f) ==
    /\ retryLeft[e] = NoRetry
    /\ retryLeft[f] = NoRetry => CreatedAt[e] < CreatedAt[f]

Selectable(d) ==
    {e \in Escalations : /\ Eligible(d, e)
                         /\ \A f \in Escalations : Eligible(d, f) => ~Before(f, e)}

\* Narrow-only ceiling: the signed cap never widens the ambient one.
SpendCap == Lower(armCap, AmbientCap)

\* MAX(0, reserved_usd - estimate) on one day of a ledger.
Release(ledger, b, amount) ==
    [ledger EXCEPT ![b] = IF @ >= amount THEN @ - amount ELSE 0]

\* Defect: the stamp of the lapsed claim is overwritten, not backed out.
AfterReclaimLeaky(e) == reserved

\* A reclaim of a lapsed claim first backs out the previous holder's stamp.
AfterReclaim(e) ==
    IF status[e] = "claimed" /\ stamp[e] # NoDay
    THEN Release(reserved, stamp[e], Estimate)
    ELSE reserved

\* Defect: the cap test leaves out what the day has already settled.
FitsCapUnsettled(e) == AfterReclaim(e)[today] + Estimate <= SpendCap

\* The cap test fused into the reserving UPDATE ... RETURNING; when it finds
\* no row the whole transaction, the release above included, rolls back.
FitsCap(e) == AfterReclaim(e)[today] + settled[today] + Estimate <= SpendCap

\* The code draws 16 random bytes; the token is only ever compared together
\* with the row id, so numbering a row's claims is as fresh.
FreshToken(e) == claimToken[e] + 1

Claim(d) ==
    /\ loop[d].phase = "idle"
    /\ armCap # 0
    /\ \E e \in Selectable(d) :
         /\ FitsCap(e)
         /\ reserved' = [AfterReclaim(e) EXCEPT ![today] = @ + Estimate]
         /\ status' = [status EXCEPT ![e] = "claimed"]
         /\ claimToken' = [claimToken EXCEPT ![e] = FreshToken(e)]
         /\ leaseLeft' = [leaseLeft EXCEPT ![e] = Lease]
         /\ stamp' = [stamp EXCEPT ![e] = today]
         /\ loop' = [loop EXCEPT ![d] = [phase |-> "calling", job |-> e,
                                         token |-> FreshToken(e), fence |-> Deadline,
                                         answer |-> NoCost]]
    /\ peakCap' = [peakCap EXCEPT ![today] = Higher(@, SpendCap)]
    /\ UNCHANGED <<retryLeft, realized, response, settled, today, armCap, overshoot>>

(***************************************************************************)
(* The council call, raced by lease renewal and the monotonic fence.       *)
(***************************************************************************)
\* The council is outside the repository's watch plane: it answers with a
\* cost (or a cost header the settle filter rejects), refuses, or hangs.
CouncilAnswers(d) ==
    /\ loop[d].phase = "calling"
    /\ \E c \in Costs \cup {NoCost} :
         loop' = [loop EXCEPT ![d].phase = "answered", ![d].answer = c]
    /\ UNCHANGED <<rowVars, ledgerVars, today, armCap, historyVars>>

CouncilFails(d) ==
    /\ loop[d].phase = "calling"
    /\ loop' = [loop EXCEPT ![d].phase = "refused"]
    /\ UNCHANGED <<rowVars, ledgerVars, today, armCap, historyVars>>

\* Defect: the OCC predicate checks the status but not the token.
HoldsAnyClaim(d) ==
    /\ loop[d].phase # "idle"
    /\ status[loop[d].job] = "claimed"

\* The OCC predicate every holder-side write carries.
Holds(d) ==
    /\ loop[d].phase # "idle"
    /\ status[loop[d].job] = "claimed"
    /\ claimToken[loop[d].job] = loop[d].token

\* Defect: each renewal restarts the dispatch fence.
RenewRestartsFence(d) ==
    /\ loop[d].phase = "calling"
    /\ Holds(d)
    /\ leaseLeft' = [leaseLeft EXCEPT ![loop[d].job] = Lease]
    /\ loop' = [loop EXCEPT ![d].fence = Deadline]
    /\ UNCHANGED <<status, claimToken, retryLeft, stamp, realized, response,
                   ledgerVars, today, armCap, historyVars>>

Renew(d) ==
    /\ loop[d].phase = "calling"
    /\ Holds(d)
    /\ leaseLeft' = [leaseLeft EXCEPT ![loop[d].job] = Lease]
    /\ UNCHANGED <<status, claimToken, retryLeft, stamp, realized, response,
                   ledgerVars, today, armCap, loop, historyVars>>

\* H3: the fence drops the call and leaves the row claimed until it lapses.
Fence(d) ==
    /\ loop[d].phase = "calling"
    /\ loop[d].fence = 0
    /\ loop' = [loop EXCEPT ![d] = Idle]
    /\ UNCHANGED <<rowVars, ledgerVars, today, armCap, historyVars>>

(***************************************************************************)
(* Settle, release, and the refusals of a superseded holder.               *)
(***************************************************************************)
\* A missing or invalid cost settles at the reservation, never at zero.
Charge(c) == IF c = NoCost THEN Estimate ELSE c

StoreAndStage(d) ==
    LET e == loop[d].job
        b == stamp[e]
        cost == loop[d].answer
    IN  /\ loop[d].phase = "answered"
        /\ Holds(d)
        /\ status' = [status EXCEPT ![e] = "council_response_staged"]
        /\ response' = [response EXCEPT ![e] = loop[d].token]
        /\ realized' = [realized EXCEPT ![e] = cost]
        /\ stamp' = [stamp EXCEPT ![e] = NoDay]
        /\ IF b = NoDay
           THEN UNCHANGED <<ledgerVars, overshoot>>
           ELSE /\ reserved' = Release(reserved, b, Estimate)
                /\ settled' = [settled EXCEPT ![b] = @ + Charge(cost)]
                /\ overshoot' = [overshoot EXCEPT ![b] =
                                   @ + Higher(Charge(cost) - Estimate, 0)]
        /\ loop' = [loop EXCEPT ![d] = Idle]
        /\ UNCHANGED <<claimToken, leaseLeft, retryLeft, today, armCap, peakCap>>

MarkFailed(d) ==
    LET e == loop[d].job
        b == stamp[e]
    IN  /\ loop[d].phase = "refused"
        /\ Holds(d)
        /\ status' = [status EXCEPT ![e] = "failed"]
        /\ retryLeft' = [retryLeft EXCEPT ![e] = Backoff]
        /\ stamp' = [stamp EXCEPT ![e] = NoDay]
        /\ reserved' = IF b = NoDay THEN reserved ELSE Release(reserved, b, Estimate)
        /\ loop' = [loop EXCEPT ![d] = Idle]
        /\ UNCHANGED <<claimToken, leaseLeft, realized, response, settled, today,
                       armCap, historyVars>>

\* RenewOutcome::Lost, or no rows under the OCC predicate at store or fail.
LoseLease(d) ==
    /\ loop[d].phase # "idle"
    /\ ~Holds(d)
    /\ loop' = [loop EXCEPT ![d] = Idle]
    /\ UNCHANGED <<rowVars, ledgerVars, today, armCap, historyVars>>

\* One transaction over every lapsed claim; stamps are summed per day first.
PhantomSweep ==
    LET lapsed == {e \in Escalations : LeaseOver(e)}
        owed(b) == Estimate * Cardinality({e \in lapsed : stamp[e] = b})
    IN  /\ lapsed # {}
        /\ reserved' = [b \in Days |-> Release(reserved, b, owed(b))[b]]
        /\ status' = [e \in Escalations |-> IF e \in lapsed THEN "failed" ELSE status[e]]
        /\ stamp' = [e \in Escalations |-> IF e \in lapsed THEN NoDay ELSE stamp[e]]
        /\ UNCHANGED <<claimToken, leaseLeft, retryLeft, realized, response, settled,
                       today, armCap, loop, historyVars>>

(***************************************************************************)
(* Environment: crashes, time, midnight, arming.                           *)
(***************************************************************************)
Crash(d) ==
    /\ loop[d].phase # "idle"
    /\ loop' = [loop EXCEPT ![d] = Idle]
    /\ UNCHANGED <<rowVars, ledgerVars, today, armCap, historyVars>>

Tick ==
    /\ leaseLeft' = [e \in Escalations |-> Higher(leaseLeft[e] - 1, Expired)]
    /\ retryLeft' = [e \in Escalations |->
                       IF retryLeft[e] > 0 THEN retryLeft[e] - 1 ELSE retryLeft[e]]
    /\ loop' = [d \in Dispatchers |->
                  [loop[d] EXCEPT !.fence = IF @ > 0 THEN @ - 1 ELSE 0]]
    /\ UNCHANGED <<status, claimToken, stamp, realized, response, ledgerVars, today,
                   armCap, historyVars>>

Midnight ==
    /\ today < LastDay
    /\ today' = today + 1
    /\ UNCHANGED <<rowVars, ledgerVars, armCap, loop, historyVars>>

\* An operator arms (or re-arms) with a signed cap; an arm is withdrawn by
\* disarm, by its signed window running out, or by failing re-verification.
Arm(c) ==
    /\ armCap' = c
    /\ UNCHANGED <<rowVars, ledgerVars, today, loop, historyVars>>

LoseArm ==
    /\ armCap # 0
    /\ armCap' = 0
    /\ UNCHANGED <<rowVars, ledgerVars, today, loop, historyVars>>

DispatcherStep(d) ==
    \/ Claim(d)
    \/ Renew(d)
    \/ Fence(d)
    \/ StoreAndStage(d)
    \/ MarkFailed(d)
    \/ LoseLease(d)

Next ==
    \/ \E e \in Escalations : Enqueue(e)
    \/ \E d \in Dispatchers : \/ DispatcherStep(d)
                              \/ CouncilAnswers(d)
                              \/ CouncilFails(d)
                              \/ Crash(d)
    \/ PhantomSweep
    \/ Tick
    \/ Midnight
    \/ \E c \in Caps : Arm(c)
    \/ LoseArm

Spec == Init /\ [][Next]_vars

(***************************************************************************)
(* Fairness: time passes, the sweep timer fires, and a running loop takes  *)
(* the step its select! or its next await has ready.  Nothing is assumed   *)
(* of the council, of renewal ticks, of operators or of crashes.           *)
(***************************************************************************)
Fairness ==
    /\ WF_vars(Tick)
    /\ WF_vars(PhantomSweep)
    /\ \A d \in Dispatchers : /\ WF_vars(Fence(d))
                              /\ WF_vars(StoreAndStage(d))
                              /\ WF_vars(MarkFailed(d))
                              /\ WF_vars(LoseLease(d))

FairSpec == Spec /\ Fairness

(***************************************************************************)
(* The abstract view: who may finish a row, and that it is finished once.  *)
(***************************************************************************)
Holders(e) == {d \in Dispatchers : Holds(d) /\ loop[d].job = e}

HolderOf(e) == IF Holders(e) = {} THEN Nobody ELSE CHOOSE d \in Holders(e) : TRUE

Fencing == INSTANCE ClaimFencing WITH
    Jobs <- Escalations,
    Workers <- Dispatchers,
    owner <- [e \in Escalations |-> HolderOf(e)],
    finished <- [e \in Escalations |-> status[e] = "council_response_staged"]

\* A day's line of spend_ledger, as an account of the rows that hold a reservation.
Account(b) == INSTANCE SpendAccount WITH
    Spenders <- Escalations,
    Amounts <- {0, Estimate} \cup Costs,
    Limit <- AmbientCap,
    Nothing <- NoCost,
    held <- [e \in Escalations |-> IF stamp[e] = b THEN Estimate ELSE NoCost],
    balance <- reserved[b] + settled[b]

\* The rows as recovery knows them.
PendingEscalations == INSTANCE EscalationRows WITH
    Rows <- Escalations,
    NoAnswer <- 0,
    state <- [e \in Escalations |->
                IF status[e] = "absent" THEN "absent"
                ELSE IF status[e] = "council_response_staged" THEN "staged" ELSE "open"],
    answer <- response

(***************************************************************************)
(* Properties.                                                             *)
(***************************************************************************)
\* The rows whose reservation is booked on day b.
Booked(b) == {e \in Escalations : stamp[e] = b}

\* Each day's reserved_usd is exactly the sum of the reservations stamped on
\* live claims of that day: over claims, reclaims of lapsed leases, failures,
\* sweeps, settles and midnights, no reservation leaks, none is released
\* twice, and the MAX(0, ...) of the release statements never hides an error.
LedgerMatchesStamps ==
    \A b \in Days : reserved[b] = Estimate * Cardinality(Booked(b))

\* What a day has reserved and settled never exceeds the widest ceiling it
\* was reserved under, but for the realised cost above the reservation that
\* note_settle_report flags; a narrower re-arm or a cap crossed at midnight
\* does not widen it.
ExposureWithinCap ==
    \A b \in Days : reserved[b] + settled[b] <= peakCap[b] + overshoot[b]

\* The staged answer is the one obtained under the row's latest claim: the
\* late answer of a holder whose lease was reclaimed is never stored.
StagedFromLatestClaim ==
    \A e \in Escalations :
        status[e] = "council_response_staged" => response[e] = claimToken[e]

\* At most one loop can write a row: the fencing token of a claim is in the
\* memory of one loop only, whatever was reclaimed, swept or crashed.
OneHolder ==
    \A d1, d2 \in Dispatchers :
        Holds(d1) /\ Holds(d2) /\ loop[d1].job = loop[d2].job => d1 = d2

\* A row is settled once: once it carries an answer no step replaces the
\* answer or its price, so the dup-charge alarm has nothing to report.
SettledOnce ==
    [][\A e \in Escalations :
          response[e] # 0 => /\ response'[e] = response[e]
                             /\ realized'[e] = realized[e]]_vars

\* An unexpired lease is honoured: while it runs, no other loop takes the row,
\* and only the loop holding the token can move it out of 'claimed'.
LeaseHonoured ==
    [][\A e \in Escalations :
          status[e] = "claimed" /\ leaseLeft[e] >= 0 =>
             /\ claimToken'[e] = claimToken[e]
             /\ status'[e] # "claimed" =>
                   \E d \in Dispatchers : Holds(d) /\ loop[d].job = e]_vars

\* No claim lasts for ever, however the council hangs, the loop crashes or
\* renewals keep coming: it is settled, failed, swept or superseded.
ClaimsEnd ==
    \A e \in Escalations : \A k \in 1..MaxClaims :
        (status[e] = "claimed" /\ claimToken[e] = k)
            ~> ~(status[e] = "claimed" /\ claimToken[e] = k)

\* The token protocol implements exclusive ownership with preemption: a row
\* is finished once and by its owner, a loop owns one row at a time.
ClaimsAreFenced == Fencing!Spec

\* Each UTC day keeps an account: a row reserves once and within the ambient cap, and
\* its reservation leaves the day it was made on, once and whole, though the row is
\* reclaimed, swept, failed or settled on a later one.
DaysAreAccounts ==
    /\ \A b \in Days : Account(b)!Init
    /\ [][\A b \in Days : [Account(b)!Next]_(Account(b)!vars)]_vars

\* Seen from recovery: however often a row is claimed, reclaimed, failed and swept,
\* its answer is stored once, with its turn to 'staged', and stands.
AnswersAreKept == PendingEscalations!Spec
=============================================================================
