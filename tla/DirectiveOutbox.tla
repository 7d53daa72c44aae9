-------------------------- MODULE DirectiveOutbox --------------------------
(***************************************************************************)
(* The worker leg of the watch plane: signed directives staged in          *)
(* directive_outbox are handed out in batches under a lease and a claim    *)
(* handle, and come back as an ack, a nack, or a lapsed lease; directives  *)
(* past their authorization window or their delivery ceiling are expired.  *)
(*                                                                         *)
(* The built-in worker loop works through one batch at a time; remote      *)
(* workers call the same operations over HTTP, keep their handles as long  *)
(* as they like, and may repeat a call whose answer was lost.  All of them *)
(* share the one connection of their sidecar, so every operation is atomic *)
(* but for its clock: a claim and a heartbeat carry a now_ms their caller  *)
(* sampled before the call was queued on that connection.                  *)
(***************************************************************************)
EXTENDS Integers, FiniteSets

CONSTANTS
    Directives,   \* primary keys of directive_outbox, of one tenant
    CreatedAt,    \* created_at_ms, strictly increasing per tenant when staged
    Loops,        \* the built-in worker loop, if enabled
    Remotes,      \* workers that come in through the HTTP routes
    BatchLimit,   \* max_claims_per_tick, or the clamped limit of a request
    MaxAttempts,  \* directive_max_delivery_attempts
    Ttl,          \* directive_stage_ttl_ms, in ticks
    Lease,        \* lease_duration_ms, or extension_ms of a heartbeat
    MaxDelay      \* bound: ticks between sampling now_ms and the transaction

ASSUME DirectivesAssumption ==
    /\ IsFiniteSet(Directives)
    /\ CreatedAt \in [Directives -> Nat]
    /\ \A d, f \in Directives : CreatedAt[d] = CreatedAt[f] => d = f
    /\ Loops \cap Remotes = {}
ASSUME LimitsAssumption ==
    /\ BatchLimit \in Nat \ {0}
    /\ MaxAttempts \in Nat \ {0}
    /\ Ttl \in Nat \ {0}
    /\ Lease \in Nat
    /\ MaxDelay \in Nat

VARIABLES
    status,      \* directive_outbox.status ("absent" before the insert)
    leaseLeft,   \* claimed_until_ms - now; Unleased stands for NULL and long past
    ttlLeft,     \* expires_at_ms - now, down to -MaxDelay
    claimCount,  \* claim_count
    handle,      \* claim_handle: the number of the claim it was drawn for, 0 is NULL
    lastError,   \* what last_error says
    held,        \* the claims each worker believes it has
    verdict,     \* what a loop has decided of the claim it is working on
    asked        \* age of the now_ms a worker's claim call carries; NotAsked is none

rows == <<status, leaseLeft, ttlLeft, claimCount, handle, lastError>>
vars == <<rows, held, verdict, asked>>

Workers == Loops \cup Remotes
Unleased == -(MaxDelay + 1)
NotAsked == -1
Terminal == {"acked", "expired", "dismissed"}
Claims == [dir : Directives, handle : 1..MaxAttempts]

\* The shape of the table and of what the workers remember, with the bounds
\* the two fences put on deliveries.
TypeOK ==
    /\ status \in [Directives -> {"absent", "staged"} \cup Terminal]
    /\ leaseLeft \in [Directives -> Unleased..Lease]
    /\ ttlLeft \in [Directives -> -MaxDelay..Ttl]
    /\ claimCount \in [Directives -> 0..MaxAttempts]
    /\ handle \in [Directives -> 0..MaxAttempts]
    /\ lastError \in [Directives -> {"none", "refused", "ttl", "attempts"}]
    /\ held \in [Workers -> SUBSET Claims]
    /\ verdict \in [Loops -> {"none", "executed", "refused"}]
    /\ asked \in [Workers -> NotAsked..MaxDelay]

Init ==
    /\ status = [d \in Directives |-> "absent"]
    /\ leaseLeft = [d \in Directives |-> Unleased]
    /\ ttlLeft = [d \in Directives |-> 0]
    /\ claimCount = [d \in Directives |-> 0]
    /\ handle = [d \in Directives |-> 0]
    /\ lastError = [d \in Directives |-> "none"]
    /\ held = [w \in Workers |-> {}]
    /\ verdict = [l \in Loops |-> "none"]
    /\ asked = [w \in Workers |-> NotAsked]

(***************************************************************************)
(* Recovery stages a signed directive, or files a dismissal.               *)
(***************************************************************************)
Stage(d) ==
    /\ status[d] = "absent"
    /\ \A f \in Directives : status[f] # "absent" => CreatedAt[f] < CreatedAt[d]
    /\ \E s \in {"staged", "dismissed"} : status' = [status EXCEPT ![d] = s]
    /\ ttlLeft' = [ttlLeft EXCEPT ![d] = Ttl]
    /\ UNCHANGED <<leaseLeft, claimCount, handle, lastError, held, verdict, asked>>

(***************************************************************************)
(* claim_outbox: two sweeps and a batch, in one transaction, by the clock  *)
(* the caller sampled age ticks ago.                                       *)
(***************************************************************************)
\* A loop asks once its last batch is worked off; a remote asks at will.
Ask(w) ==
    /\ asked[w] = NotAsked
    /\ w \in Loops => held[w] = {}
    /\ asked' = [asked EXCEPT ![w] = 0]
    /\ UNCHANGED <<rows, held, verdict>>

\* Defect: the sweeps and the batch take leased rows too.
FreeAnyLease(d, age) == status[d] = "staged"

\* Defect: IS NULL is forgotten, a row never claimed compares to nothing.
FreeNullForgotten(d, age) ==
    status[d] = "staged" /\ claimCount[d] > 0 /\ leaseLeft[d] + age < 0

Free(d, age) == status[d] = "staged" /\ leaseLeft[d] + age < 0

OverDelivered(age) == {d \in Directives : Free(d, age) /\ claimCount[d] >= MaxAttempts}

OutOfWindow(age) == {d \in Directives : Free(d, age) /\ ttlLeft[d] + age <= 0}

Dispatchable(age) ==
    {d \in Directives : Free(d, age)} \ (OverDelivered(age) \cup OutOfWindow(age))

\* ORDER BY created_at_ms LIMIT n.
Batch(age) ==
    {d \in Dispatchable(age) :
        Cardinality({f \in Dispatchable(age) : CreatedAt[f] < CreatedAt[d]}) < BatchLimit}

\* Defect: the window sweep runs first and claims the poison directives.
CauseTtlFirst(d, age) ==
    IF d \in OutOfWindow(age)
    THEN IF lastError[d] = "none" THEN "ttl" ELSE lastError[d]
    ELSE "attempts"

\* The delivery ceiling is swept first and keeps the older reason as its root;
\* the window sweep only fills an empty last_error.
Cause(d, age) ==
    IF d \in OverDelivered(age) THEN "attempts"
    ELSE IF lastError[d] = "none" THEN "ttl" ELSE lastError[d]

\* Defect: a directive keeps the handle of its first claim.
FirstHandle(d) == 1

\* sha256(nanos, tenant, id): fresh for every claim of a directive.
FreshHandle(d) == claimCount[d] + 1

Claim(w) ==
    LET age == asked[w]
        swept == OverDelivered(age) \cup OutOfWindow(age)
        batch == Batch(age)
    IN  /\ age # NotAsked
        /\ status' = [d \in Directives |-> IF d \in swept THEN "expired" ELSE status[d]]
        /\ lastError' = [d \in Directives |->
                           IF d \in swept THEN Cause(d, age) ELSE lastError[d]]
        /\ leaseLeft' = [d \in Directives |->
                           IF d \in batch THEN Lease - age ELSE leaseLeft[d]]
        /\ claimCount' = [d \in Directives |->
                            IF d \in batch THEN claimCount[d] + 1 ELSE claimCount[d]]
        /\ handle' = [d \in Directives |->
                        IF d \in batch THEN FreshHandle(d) ELSE handle[d]]
        /\ held' = [held EXCEPT ![w] =
                      @ \cup {[dir |-> d, handle |-> FreshHandle(d)] : d \in batch}]
        /\ asked' = [asked EXCEPT ![w] = NotAsked]
        /\ UNCHANGED <<ttlLeft, verdict>>

(***************************************************************************)
(* Heartbeat, ack and nack of a claim c = [dir, handle].                   *)
(***************************************************************************)
\* Defect: the handle alone is compared, not the status.
HandleMatches(c) == handle[c.dir] = c.handle

\* The guard of heartbeat_outbox, worker_ack_outbox and nack_outbox: staged,
\* and the handle is that of the latest claim.  Whether the lease still runs,
\* or whether the claim was nacked before, is not asked.
Actionable(c) == status[c.dir] = "staged" /\ handle[c.dir] = c.handle

HeartbeatOutbox(c) ==
    /\ Actionable(c)
    /\ \E age \in 0..MaxDelay : leaseLeft' = [leaseLeft EXCEPT ![c.dir] = Lease - age]
    /\ UNCHANGED <<status, ttlLeft, claimCount, handle, lastError, held, verdict, asked>>

WorkerAckOutbox(c) ==
    IF Actionable(c)
    THEN /\ status' = [status EXCEPT ![c.dir] = "acked"]
         /\ UNCHANGED <<leaseLeft, ttlLeft, claimCount, handle, lastError>>
    ELSE UNCHANGED rows

NackOutbox(c) ==
    IF Actionable(c)
    THEN /\ leaseLeft' = [leaseLeft EXCEPT ![c.dir] = Unleased]
         /\ lastError' = [lastError EXCEPT ![c.dir] = "refused"]
         /\ UNCHANGED <<status, ttlLeft, claimCount, handle>>
    ELSE UNCHANGED rows

\* A remote keeps its handle after a call: it may repeat it.
RemoteHeartbeat(w, c) == c \in held[w] /\ HeartbeatOutbox(c)

RemoteAck(w, c) ==
    /\ c \in held[w]
    /\ WorkerAckOutbox(c)
    /\ UNCHANGED <<held, verdict, asked>>

RemoteNack(w, c) ==
    /\ c \in held[w]
    /\ NackOutbox(c)
    /\ UNCHANGED <<held, verdict, asked>>

\* The operator's ack names the directive and needs no handle.
AckOutbox(d) ==
    /\ status[d] = "staged"
    /\ status' = [status EXCEPT ![d] = "acked"]
    /\ UNCHANGED <<leaseLeft, ttlLeft, claimCount, handle, lastError, held, verdict, asked>>

(***************************************************************************)
(* run_worker_tick: the batch is worked off oldest first.  The gates        *)
(* (signature, authority, capability token) and the effect itself, the     *)
(* draining of the producer, come out one way or the other.                *)
(***************************************************************************)
Working(l, c) ==
    /\ c \in held[l]
    /\ \A e \in held[l] : CreatedAt[c.dir] <= CreatedAt[e.dir]

Judge(l) ==
    /\ held[l] # {}
    /\ verdict[l] = "none"
    /\ \E v \in {"executed", "refused"} : verdict' = [verdict EXCEPT ![l] = v]
    /\ UNCHANGED <<rows, held, asked>>

Report(l, c) ==
    /\ Working(l, c)
    /\ \/ verdict[l] = "executed" /\ WorkerAckOutbox(c)
       \/ verdict[l] = "refused" /\ NackOutbox(c)
    /\ held' = [held EXCEPT ![l] = @ \ {c}]
    /\ verdict' = [verdict EXCEPT ![l] = "none"]
    /\ UNCHANGED asked

\* A crash, or a database error that aborts the tick, loses the whole batch.
Abandon(w) ==
    /\ held[w] # {} \/ asked[w] # NotAsked
    /\ held' = [held EXCEPT ![w] = {}]
    /\ verdict' = [l \in Loops |-> IF l = w THEN "none" ELSE verdict[l]]
    /\ asked' = [asked EXCEPT ![w] = NotAsked]
    /\ UNCHANGED rows

\* A queued call runs within MaxDelay ticks of its sampling the clock.
Tick ==
    /\ \A w \in Workers : asked[w] < MaxDelay
    /\ leaseLeft' = [d \in Directives |->
                       IF leaseLeft[d] > Unleased THEN leaseLeft[d] - 1 ELSE Unleased]
    /\ ttlLeft' = [d \in Directives |->
                     IF status[d] # "absent" /\ ttlLeft[d] > -MaxDelay
                     THEN ttlLeft[d] - 1 ELSE ttlLeft[d]]
    /\ asked' = [w \in Workers |-> IF asked[w] = NotAsked THEN NotAsked ELSE asked[w] + 1]
    /\ UNCHANGED <<status, claimCount, handle, lastError, held, verdict>>

RemoteCall(w) == \E c \in held[w] : \/ RemoteHeartbeat(w, c)
                                    \/ RemoteAck(w, c)
                                    \/ RemoteNack(w, c)

LoopStep(l) == Judge(l) \/ \E c \in held[l] : Report(l, c)

Next ==
    \/ \E d \in Directives : Stage(d) \/ AckOutbox(d)
    \/ \E w \in Workers : Ask(w) \/ Claim(w) \/ Abandon(w)
    \/ \E w \in Remotes : RemoteCall(w)
    \/ \E l \in Loops : LoopStep(l)
    \/ Tick

Spec == Init /\ [][Next]_vars

\* A loop keeps running, and a claim call that is made again and again runs
\* in the end: crashes do not strike every single time between the sampling
\* of now_ms and the transaction.  The clock is stopped only by the bound on
\* that wait, again and again while a loop polls, hence its strong fairness.
Fairness ==
    /\ SF_vars(Tick)
    /\ \A l \in Loops : /\ WF_vars(Ask(l))
                        /\ SF_vars(Claim(l))
                        /\ WF_vars(LoopStep(l))

FairSpec == Spec /\ Fairness

(***************************************************************************)
(* The abstract view: the table as recovery knows it.                      *)
(***************************************************************************)
OutboxTable == INSTANCE DirectiveRows WITH
    Rows <- Directives,
    state <- [d \in Directives |-> IF status[d] \in Terminal THEN "ended" ELSE status[d]],
    created <- [d \in Directives |-> IF status[d] = "absent" THEN 0 ELSE CreatedAt[d]]

(***************************************************************************)
(* Properties.                                                             *)
(***************************************************************************)
\* However often a directive is handed out again after a lapsed lease or a
\* nack, one worker at most remembers a handle the row still answers to.
OneLiveHandle ==
    \A w1, w2 \in Workers : \A c1 \in held[w1], c2 \in held[w2] :
        c1.dir = c2.dir /\ HandleMatches(c1) /\ HandleMatches(c2) => w1 = w2

\* A directive that ended stays as it ended: no late ack, nack, heartbeat or
\* sweep reopens it, leases it again or rewrites why it died.
EndedForGood ==
    [][\A d \in Directives :
          status[d] \in Terminal =>
             /\ status'[d] = status[d]
             /\ lastError'[d] = lastError[d]
             /\ handle'[d] = handle[d]
             /\ leaseLeft'[d] <= leaseLeft[d]]_vars

\* A hand-out stays within the delivery ceiling, and comes no later after
\* the authorization window closed than the claim call had to wait for the
\* connection.
DispatchFenced ==
    [][\A d \in Directives :
          handle'[d] # handle[d] =>
             /\ status[d] = "staged" /\ status'[d] = "staged"
             /\ claimCount[d] < MaxAttempts
             /\ ttlLeft[d] > -MaxDelay]_vars

\* The audit trail tells poison from age: an expired row says it died of
\* delivery attempts exactly when it had used them all.
DeathAttribution ==
    \A d \in Directives :
        status[d] = "expired" =>
            (lastError[d] = "attempts" <=> claimCount[d] = MaxAttempts)

\* While a lease runs the directive is nobody else's: it is not handed out
\* again and no sweep takes it, whatever its age and its attempts.
LeaseHonoured ==
    [][\A d \in Directives :
          status[d] = "staged" /\ leaseLeft[d] >= 0 =>
             /\ handle'[d] = handle[d]
             /\ status'[d] \in {"staged", "acked"}]_vars

\* With the built-in loop alone every staged directive ends: it is acked, or
\* it runs out of attempts or of time, whatever the gates say of it and
\* however often the loop dies with a batch in its hands.
DirectivesEnd ==
    \A d \in Directives : status[d] = "staged" ~> status[d] # "staged"

\* Seen from recovery: hand-outs, acks, nacks, heartbeats and sweeps end a staged
\* directive once, and touch no other.
DirectivesAreKept == OutboxTable!Spec
=============================================================================
