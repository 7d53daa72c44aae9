# IRIN in TLA+

This directory holds a formal model of the stateful core of IRIN: what the
gateway's sidecar and its Lua router do with money, leases, reservations and
signed directives when calls interleave, are lost or come late and processes
die. Modules are checked with TLC on small instances; the safety results that
carry the design are proved with TLAPS for every value of the constants.

Paths below are relative to the repository; `watch/` stands for
`gateway/sidecar-rs/src/watch/`, `sidecar/` for `gateway/sidecar-rs/src/`,
`lua/` for `gateway/lua/`.

## 1. The system

IRIN is four programs. The **gateway** is an OpenResty router (`gateway/lua`)
with a Rust **sidecar** (`sidecar/`) that it calls over a Unix socket. The
**Council** (`council-rs`) runs deliberations of several models; it is both an
upstream of the gateway and a client of it. The sidecar also runs the **watch
plane** (`watch/`), which turns observations of sentinels into council calls and
the council's answers into signed directives. The **desktop** application
(`council-rs/warroom-tauri`) supervises the others.

The path of a watch-plane event, and who hands it to whom:

    sentinel --fire--> watch_fires (hash chain)
       --CDC producer, causal dedup, queue ceiling--> pending_escalations
       --dispatcher: claim + reserve, council call--> council_response_staged
             (the call is an ordinary request through the council gate)
       --recovery: arm gate, parse, sign--> directive_outbox
       --worker: claim, judge, effect, ack--> acked / expired

An operator arms the producer in a two-step ceremony; the signed arm carries the
spend ceiling of the dispatcher. One instance holds the writer claim.

### Inventory

| Component | State | Operations | What is hard | What makes it correct |
|---|---|---|---|---|
| Escalation claims, spend ledger (`watch/db/claims_spend.rs`) | `pending_escalations`, `spend_ledger` | enqueue, claim+reserve, renew, store+settle, fail, sweep | several processes on one file, lapsed leases, a reclaim that overwrites a reservation, midnight | the ledger equals the live reservations; the ceiling holds; one holder per row; one answer per row |
| Live dispatcher (`watch/dispatcher.rs`) | claim, token and call in memory | tick, deliberate, recover staged row | crash between answer and store, hung call, fence | every claim ends; a superseded holder writes nothing |
| Recovery and signing (`watch/recovery.rs`) | staged rows, `directive_outbox` | arm gate, parse, capability bind, sign, persist, dead-letter | two sidecars, disarm in flight, skew hold, updates without status guard | a disarm is honoured; one directive per escalation and per token; sweeps reach every row |
| Directive outbox (`watch/db/outbox_store.rs`, `api/outbox_admin.rs`) | `directive_outbox` | stage, claim with two sweeps, heartbeat, ack, nack, operator ack, prune | late calls with old handles, lapsed leases, stale clocks | one live handle; delivery ceiling and window; ends are final |
| Worker (`watch/worker.rs`) | a batch in memory | tick, judge, effect, ack/nack | dies with a batch, effect before ack | every directive ends |
| Council gate (`sidecar/council.rs`, `council_storage.rs`, `lua/router.lua`, `lua/cost.lua`) | slots, reservations, LRU of answers, SQLite mirror | peek, lock, claim, store, fail, unlock, sweep, restart | awaits between check and write, restarts under a request, lost cleanup | one deliberation per key; sessions capped; settled answers stay; slots come back |
| Arming (`watch/api/arming.rs`, `db/arming.rs`, `attest.rs`) | staged ceremony, arm row, producer kill handle | stage, confirm, disarm, auto-disarm | 5 s drain with no kill handle, crash in ceremony | every producer can be stopped; a disarm reaches it |
| Writer claim (`watch/api/writer_claim.rs`) | one row | acquire, heartbeat, release, self-disarm | takeover of a stalled writer | a deposed producer ends at most its batch |
| CDC producer and enqueue (`watch/runner.rs`, `db/fires.rs`) | cursor, fires, retry counters | sweep tick, retry tick, boot | cap stall, poison fires, pruned dedup keys | no fire is passed over; no ended row is opened again while it is kept |
| Fire hash chain (`watch/db/fires.rs`) | `watch_fires` | insert, verify | concurrent appenders | the chain verifies after every interleaving |
| Quarantine, hard kill (`watch/quarantine.rs`, `watch/runtime.rs`) | a record in memory, a row in SQLite | gate, failure, success, retry of a pending kill, force wake, clear | timed-out writes still queued, gate passed before a kill | memory never admits what the row forbids; a clear stays a clear; kills and quarantines end |
| Capability tokens (`watch/capability.rs`) | consumption table | bind, validate | bind commits before persist | one directive per token |
| Reconciliation (`watch/recon.rs`) | two ledgers | compare, auto-disarm | late rows | divergence disarms once |
| Sentinels (`watch/sentinels/`) | small baselines | observe | - | predicates over external data |
| Budget gate (`sidecar/budget.rs`, `lua/cost.lua`) | spend per key in Redis or SQLite | check (reserve), record | checks that time out and are applied, releases that are lost | spend equals reservations and costs, and stays within the limit |
| Gateway router (`lua/router.lua`, `lua/cost.lua`, `lua/lib/ledger.lua`) | a record per request, its timers | access phase, log phase, timers with retries | clients that go away, two phases that may both close a chain | nothing proxied unreserved; one terminator per chain |
| Audit ledger (`sidecar/ledger.rs`) | hash-chained log | append, verify | - | the chain verifies |
| Cache, rate limit, auth, policy, keys, routing (`sidecar/*.rs`) | caches, counters | atomic calls | - | pure decisions |
| Council engine and server (`council-rs/src/engine`, `server`, `stream`) | rounds, seats, interventions | run, cancel, close | cancellation races the run's end | a run ends once |
| Librarian, precedents, providers, war room (`council-rs/src`) | SQLite, HTTP clients | queries | - | - |
| Desktop (`council-rs/warroom-tauri`) | process handles, status snapshot | start, stop, recompute | supervision, upgrades | one sidecar; monotonic status |
| Protocol crate (`sentinel/sovereign-protocol`), translators, web UI, scripts | none or user interface | - | - | - |

`PROJECT.json` lists the same components with their sources and the hazards, each
at the line where it bites.

## 2. Plan

In the order in which the modules were written, most important behaviour first.
All eight are checked, and the safety results named in section 6 proved.

1. **EscalationClaims** (with **ClaimFencing** and **SpendAccount**, its abstract
   specifications): money and exclusive claims.
2. **DirectiveOutbox**: leases, handles and ends of directives.
3. **CouncilIdempotency**: the council gate.
4. **StagedRecovery**: recovery, boot hydration and the prune in two sidecars.
5. **ProducerArming**: ceremony, writer claim, kill and drain, alarms.
6. **CdcEnqueue**: cursor, causal keys, queue ceiling, takeovers.
7. **GatewayRequests**: request chains and the budget, which implements
   **SpendAccount** too.
8. **SentinelQuarantine**: the circuit breaker of a sentinel.
9. **EscalationRows**, **DirectiveRows**: what the two modules at a seam promise each
   other about the table they share, implemented by both.

Left for a continuation: the Redis budget store, the fire hash chain as a reader
sees it during a prune, a deliberation of the Council (rounds, cancel, close), the
life cycle of the desktop's processes.

How the modules meet. Each models one database transaction, one await or one
critical section per step, and stands for its neighbours by nondeterministic steps
that allow whatever the neighbour's module allows:

| Seam | One side | Other side |
|---|---|---|
| a fire becomes a row | `Insert` of CdcEnqueue | `Enqueue` of EscalationClaims |
| an answer is staged | `StoreAndStage` of EscalationClaims | `StoreAnswer` of StagedRecovery |
| a directive is filed | `File` of StagedRecovery | `Stage` of DirectiveOutbox |
| a directive ends | the ends of DirectiveOutbox | `Settle` of StagedRecovery |
| the operator arms, disarms | `Confirm`, `DisarmClear` of ProducerArming | `Arm`, `LoseArm` of EscalationClaims; `Arm`, `Disarm` of StagedRecovery |
| the claim changes hands | `ArmClaim`, `Watchdog` of ProducerArming | `Start`, `GoStale`, `Heartbeat`, `Stop` of CdcEnqueue |
| a request enters the council gate | `gate` of GatewayRequests | CouncilIdempotency |
| a sentinel fires | the fire statement of SentinelQuarantine | `InsertFire` of CdcEnqueue |

For the two seams in the middle of the path, where signed directives come from, that
sentence is proved rather than claimed. EscalationRows is the contract of the
dispatcher with recovery over `pending_escalations`, DirectiveRows that of recovery
with the outbox over `directive_outbox`; the module on either side, with its own
claims, leases, sweeps, crashes and late calls, implements it (`AnswersAreKept`,
`DirectivesAreKept`). So neither side can do to the table what the other does not
expect. The remaining seams are by inspection.

Each module has an `MC...` module that gives its constants values, one `.cfg` per
question, and a `...Proofs` module. No module declares a RECURSIVE operator.
Mutants named in `PROJECT.json` are operators that stand beside the definition
they replace, commented `Defect:`; no action uses them.

## 3. Modules and the code

### EscalationClaims (`watch/db/claims_spend.rs`, `watch/dispatcher.rs`)

One row of `pending_escalations` per element of `Escalations`, its columns as
functions (`status`, `claimToken`, `leaseLeft`, `retryLeft`, `stamp`, `realized`,
`response`), `spend_ledger` as `reserved` and `settled` per UTC day, and what each
dispatcher loop holds in memory as `loop[d]`. Every `BEGIN IMMEDIATE` transaction is
one action:

| Action | Code |
|---|---|
| `Enqueue` | `insert_pending_escalation_with_causal_dedup_capped` |
| `Claim` | `claim_reserve_impl`: select, back out a lapsed stamp, cap test and reserve, stamp |
| `CouncilAnswers`, `CouncilFails` | `post_council_triage` (external) |
| `Renew`, `Fence` | the `select!` of `claim_and_stage_council_response_with_opts` |
| `StoreAndStage`, `MarkFailed`, `LoseLease` | `store_council_response_and_stage`, `mark_claim_failed`, zero rows under the OCC predicate |
| `PhantomSweep` | `sweep_phantom_claims_report` |
| `Crash`, `Tick`, `Midnight`, `Arm`, `LoseArm` | environment |

Time is what is left until a deadline, so the clock needs no bound. Tokens are
numbered per row: the code draws 16 random bytes and compares them only together
with the row id. Money is counted in whole units. A staged row is the end of a row
here; what recovery does with it is StagedRecovery. The retention prune does not
touch the statuses modelled.

**ClaimFencing** is what the protocol promises: an owner per job, one job per
owner, preemption at any time, finished by the owner and once. `owner` maps to the
loop whose token the row answers to, `finished` to `council_response_staged`.

**SpendAccount** is what both money ledgers of the gateway promise: a reservation is
made within the limit, and leaves the balance once and whole, when a cost takes its
place or nothing does. Here there is one account per UTC day, `Account(b)`: its
spenders are the rows, a row holds the estimate while it is stamped on that day, the
balance is `reserved_usd` plus `settled_usd` of the day, and its limit is the ambient
cap, which no arm widens. A claim reserves on the day of the claim and may, in the same
transaction, release a lapsed claim's estimate on the day that one was stamped with;
so each step is a step of some account or of two, and the refinement is stated day by
day (`DaysAreAccounts`). Spending of the ceiling by answers dearer than the estimate is
a `Settle`; it may exceed the limit, as in the code, and blocks the next `Reserve`.

**EscalationRows** is the row as recovery knows it: open (queued, claimed and failed
are the dispatcher's business), staged with an answer that came with that turn, ended,
pruned. A staged row keeps its answer and leaves only by recovery's own write. The
dispatcher opens and stages; recovery stages (through `StoreAnswer`), ends and prunes.

### DirectiveOutbox (`watch/db/outbox_store.rs`, `watch/worker.rs`, `watch/api/outbox_admin.rs`)

Columns as functions again; `held[w]` is the set of claims a worker believes it has,
`verdict` what the built-in loop decided of its current one, `asked[w]` the age of
the `now_ms` that a queued claim call carries. `Claim` is the whole of
`claim_outbox`: delivery sweep, window sweep, batch. Remote workers keep handles
for ever and repeat calls; the loop reports once and forgets. The judgement (signature,
authority, capability token) and the effect are one nondeterministic verdict. Stale
clocks are bounded by `MaxDelay` ticks. Only a claim's and a heartbeat's clock decide
anything, so only theirs are modelled. Skew normalisation, which makes
`created_at_ms` strictly increase, is an assumption on `CreatedAt` and a guard of
`Stage`.

**DirectiveRows** is the table as recovery and the outbox share it: a directive is filed
once for its row, with a stamp above all that are on file, as staged or, a dismissal, as
ended; it ends once; it is pruned only when it has ended, and never comes back. A claim
call that sweeps several directives ends them in one step (`End(S)`). Here nothing is
pruned; recovery's model prunes, and takes each end as one `Settle`.

### CouncilIdempotency (`sidecar/council.rs`, `sidecar/council_storage.rs`, `lua/router.lua`, `lua/cost.lua`)

`pc[r]` follows a request of the Lua router through `council_endpoint_gate` and the
cleanup timer of `schedule_council_cleanup`; `slots`, `seq`, `reserver`, `resAge`,
`cached` are the sidecar's memory, `mirror` its SQLite table. A handler that awaits
between reads and writes is split at the await: `ClaimCheck`, `ClaimWriteAhead`,
`ClaimReserve`; `StoreMirror`, `StoreCached`. Any other request, an eviction, a
sweep or a restart may come between.

Abstractions, and why they lose nothing the properties tell apart:

- One caller: slots and keys are namespaced by `caller_key`.
- Less than 24 h, so a stored answer does not age out.
- `Failed` is the absence of a reservation: peek, claim and store treat it so.
- A `pending` or `failed` row of the mirror is the absence of a stored row: readers
  select `state='stored'`, and `recover_on_startup` deletes pending rows.
- Peek is atomic although it looks three times: what happens in between can only
  make a miss of a hit or a hit of a miss, as an earlier or a later peek would see.
- A mirror write that exceeds its 50 ms still runs in the order in which it was
  queued on the one connection, so `Slow` is `Ok`.
- A reservation whose `started` is older than PENDING_TTL is kept, as in the code,
  and is none to anyone who looks.
- `put_stored` follows the removal of the reservation under a second lock; a peek in
  between would be a miss that its own claim then refuses. `StoreCached` does both.
- A row of the mirror whose answer does not parse is a miss that does not look at the
  reservations; `MirrorFaults` admits it at any row that would replay.
- A client that disconnects while its claim is under way has its slot released and
  never deliberates: `Unlock` after a lost claim answer has the same outcome.
- `council_grants`, the table, is neither written nor read by the handlers.

`overrun` and `swept` are history: whose reservation ended, and whose slot was
swept, while its owner was at work.

### StagedRecovery (`watch/recovery.rs`, `watch/outbox.rs`, `watch/capability.rs`, boot hydration in `watch/dispatcher.rs`)

Several sidecars over one database (a rolling restart). `status`, `answer`,
`directive` and `bound` are the tables, `armUntil` the window of `active_arm`,
`sweep`, `cursor` and `page` the hydration sweep of a process, `row`, `at` and `now`
the recovery it runs and the clock it sampled. A recovery is one call on the process's own connection, so only
another process comes between its statements; it is cut where a statement commits
and where it samples the clock:

| Action | Code |
|---|---|
| `StoreAnswer` | `store_council_response_and_stage`, after which `run_dispatcher_tick_with_quarantine` recovers the row |
| `Boot`, `FetchPage`, `NextOfPage`, `Deadline` | `run_boot_hydration_sweep` |
| `Gate` | `check_recover_arm_gate`, `verify_arm_row` |
| `Validate` | `parse_staged_envelope` to the capability token in `parse_and_enrich_proposal`, with `bind_capability_token_consumption` and `dead_letter_staged_row` |
| `Sign` | the rest of `parse_and_enrich_proposal` (verdict, rationale, scope, shape), which may dead-letter a row whose token is bound; `sign_recovered_directive`, and `now_ms` of `build_signed_outbox_row`, before BEGIN IMMEDIATE |
| `File` | `persist_signed_directive_tx` with `outbox_insert_with_skew_normalize`: file, collide or hold for skew |
| `RecoveryFails`, `Crash` | an error in any statement, a kill of the process |
| `Settle`, `Prune` | the ends of a directive, `prune_terminal_rows` |
| `Arm`, `Disarm`, `Tick`, `ClockStep` | operator, clock; an NTP step goes either way |

The dead-letter and the filing write a status without looking at it, as the code
does, so a second sidecar may dead-letter a row whose directive is out. A failing
filing transaction rolls back; the capability binding before it stays. An answer is
one of five kinds, by where the recovery refuses it if it does; the envelope, the proposal and the signature are abstracted to
whether the recovery accepts them. A disarm deletes the row of `active_arm`, which a
gate already passed in *another* process does not see; `disarmedBy` records through
whose API it went.

### ProducerArming (`watch/api/arming.rs`, `watch/api/writer_claim.rs`, `watch/db/arming.rs`, `watch/runner.rs`)

`pending`, `staged`, `confirmed`, `arm`, `armEpoch` and `holder`/`live` are rows of
`watch.db` that all instances share. `killState[p]` is the one channel a process
keeps, `life`, `told` and `beat` are its spawned tasks. Handlers are cut at every
await: a confirm is `Confirm`, `ArmClaim`, `ArmStart` (or `ArmRefused`); a disarm
`DisarmClear`, `DisarmKill` and, once the producer has drained or 5 s are past,
`DisarmAnswer`; an alarm `AutoTake`, `AutoSignal`, `AutoDone`; an attempt of the boot
task at the claim `BootClaim` and `BootStart`, or `BootRefused`, or `BootUnaudited` and
`BootRelease`, whose failure is ignored. `draining` are the producers whose drain a
disarm awaits, `late` the tasks started while one of their process does, `shut` the boot
tasks that have yet to see the runner's shutdown.

| Action | Code |
|---|---|
| `Stage`, `Confirm`, `ConfirmExpired` | `admin_arm_stage_json`, `confirm_arm_attest` (one transaction each) |
| `ArmClaim`, `ArmStart`, `ArmRefused` | `arm_producer_start` |
| `DisarmClear`, `DisarmKill`, `DisarmAnswer` | `admin_disarm_producer_json`: clear, switch, drain or timeout |
| `AutoTake`, `AutoSignal`, `AutoDone` | `auto_disarm_producer` |
| `Boot`, `BootStart`, `Drain` | `start_watch_runner` |
| `BootClaim`, `BootRefused`, `BootUnaudited`, `BootRelease`, `BootLeaves` | `boot_producer_claim_attempt_with_mode`, `boot_producer_claim_retry_loop` |
| `Watchdog` (`Beat`, `BeatFails`, `SelfDisarm`, `Release`) | `writer_claim_heartbeat_loop` |
| `GoStale`, `Die`, `Shutdown` | the age of the claim, processes |

The verification of the attestation is taken as passed (refusals change no state
but the audit chain); the clear of a disarm is best effort and may fail, as in the
code. A restart is a new instance, since the uuid is drawn per process.

### CdcEnqueue (`watch/runner.rs`, `watch/db/outbox_store.rs`, `watch/db/fires.rs`)

`fired` is how much of the table `watch_fires` is committed, `row` the rows of
`pending_escalations` by causal key, `cursor`, `upto` and `fails` the memory of the
producer's task. The count of open rows and the insert after it are two statements
outside a transaction, and two actions: `CountRoom`, `Insert`; at the cap a known key
still passes (`CountFull`). `Tick` is the claim check and the fetch of the batch,
`TickEnds` the return of the high water, `Fault` a transient error, `InsertPoisoned`
one that counts towards the skip. `Deposed` is what the writer-claim watchdog does to
the producer.

The digest of a fire is its cause: that canonicalisation makes equal observations
equal, and others not, is assumed. `EndRow` stands for recovery's ends of a row, the
only terminal ones; it need never come. A row whose council calls fail is `failed`, is
retried without a ceiling and counts towards the cap, so it is `open` here. `Prune`
deletes an ended row, after which the same cause may be enqueued again, as in the code.
Retries of a failed row and the tenant's other columns are EscalationClaims.

### GatewayRequests (`lua/router.lua`, `lua/cost.lua`, `lua/lib/ledger.lua`, `sidecar/budget.rs`, `sidecar/ledger.rs`)

`pc[r]` is the place of a request in `route_chat` or `route_batch`; `kind`,
`provider`, `estimate`, `terminated`, `replay` the fields of its record that the log
phase reads; `job[r]` its timers. `check[r]` is a `/budget/check` on its way: the
sidecar may apply it (`Reserve`) after the router gave up on it (`TimedOut`, which
fails closed). A client that leaves ends the handler at any await (`Abort`), and the
log phase runs all the same (`Account`), from whatever the record holds then. `Settle`
is the closure's `/budget/record`, `Write` and `WriteFails` an attempt of
`record_with_retry`; `ngx.timer.at` may refuse a timer and a worker that shuts down
runs its timers as premature (`Premature`). `FailClosed` queues the terminator of a
request whose check timed out, unless its timer is refused too. `deserted` is history:
whose client left during the check.

`BudgetState` reads `budget_state.spent_usd` as the balance of a SpendAccount: a
request holds its estimate from the check that the sidecar applied to the record that
replaces it, whatever happens to the request in between.

One budget key, one day. The request itself, routing, the cache's contents, the
policy and the council gate are choices between the exits that the code has there;
the gate's own state is CouncilIdempotency.

### SentinelQuarantine (`watch/quarantine.rs`, `watch/runtime.rs`)

The breaker of one sentinel is a record in memory (`rec`) and a row of
`watch_sentinels` (`dbKilled`, `dbProbation`). `queue` is the database's own queue: a
caller that times out or goes away leaves its statement in it (`Abandoned`). `lock` is
the sentinel's `op_lock`, held over both writes.

| Action | Code |
|---|---|
| `Tick`, `Interesting`, `Escalate("runner")`, `Succeed`, `Fail` | the runner's pipeline, with `is_blocked` at its two gates |
| `ForceWake`, `Escalate(w)`, `WakeFails` | `force_wake`, which skips observe and interesting |
| `RecordFailure`, `KillPersisted`, `KillRefused` | `record_failure` and `set_hard_kill` |
| `RetryTick`, `RetryOnce`, `RetryTimesOut` | `pending_retry_loop` |
| `SendClear`, `MirrorClear`, `ClearRefused`, `AdminGone` | `admin_clear_quarantine` |
| `Execute`, `ExecuteFails` | a statement on the database thread |
| `Elapse`, `ProbationEnds` | deadlines |
| `Restart` | `hydrate_probation_from_db`, `hydrate_hard_kill_from_db` |

A missing record behaves as a fresh one and is one here. Deadlines (backoff, cycle
window, twice the backoff) pass in any order, which contains the order of the
configured values.

## 4. What the runs check

| Run | Instance | States | Shows |
|---|---|---|---|
| `claims_safety` | 2 rows, 2 loops of different epochs, 2 days, 2 claims per row, costs below and above the estimate | 1.1 M | exact ledger, ceiling, the staged answer is the latest claim's, leases honoured |
| `claims_liveness` | 1 row, 2 loops, 3 claims, fair | 105 k | every claim ends; the protocol implements ClaimFencing |
| `outbox_safety` | 2 directives, loop and remote, 2 attempts, calls a tick late | 912 k | one live handle, cause of death, ends are final, leases honoured |
| `outbox_liveness` | 2 directives, loop with batches of 2, fair | 11 k | every directive ends |
| `council_safety` | 3 symmetric requests for one key, 2 slots, failing mirror, 1 restart | 2.3 M | one deliberation, slots kept |
| `council_liveness` | 2 requests with different bodies, mirror that answers, 1 restart, fair | 67 k | slots return, a settled answer stays |
| `recovery_sidecars` | 2 sidecars, 2 rows that present one token, answers refused before and behind the token's check, pages of 1, 2 ticks, 1 clock step, 2 boots, fair | 961 k | one directive per row and per token, filed in order; sweeps end and miss nothing; no signature after the signer's own disarm |
| `arming_control` | 2 instances, one armed by its environment, 3 producer tasks, 1 ceremony, disarms and alarms of the former, fair | 455 k | a producer can be stopped, a disarm that answers has reached every producer but one started during its drain, a deposed one is told |
| `arming_boot` | the same, 2 tasks | violation | the finding below |
| `enqueue_sweeps` | 2 instances, 5 fires of 4 causes (one poisoned), cap 1, batches of 2, 3 starts, fair | 304 k | the cursor drops nothing; no ended row opens again; cap and takeover are exceeded by the stated margin only; fires reach the queue unless a new fire meets a full tenant |
| `gateway_chains` | 2 requests of any kind, estimate 2, cost 3, limit 3, 2 attempts, 1 fault, fair | 99 k | spend equals what requests owe, and stays within the limit; nothing proxied unreserved; one terminator; reservations settle, but those of a client that left during its check, and chains close |
| `quarantine_breaker` | 1 force wake, 2 failures a quarantine, 2 quarantines a kill, 2 faults, fair | 307 k | memory never admits what the row forbids; clears are final; late fires bounded; kills persist, the ladder decays |

Type invariants, and some results that follow from others checked here (`SettledOnce`,
`OneHolder`, `DispatchFenced`, `SessionsCapped`, `NoOrphans`, `OneStartPerStage`,
`DisarmEndsCeremonies`), are proved for all constants and need no run. So are the
refinements of SpendAccount: to see TLC check them, add `PROPERTY BudgetIsAccount` to
`GatewayRequests_chains.cfg` or `PROPERTY DaysAreAccounts` to
`EscalationClaims_safety.cfg`. Likewise `AnswersAreKept` in
`EscalationClaims_safety.cfg` and `StagedRecovery_sidecars.cfg`, and `DirectivesAreKept`
in the latter and `DirectiveOutbox_safety.cfg`. What some liveness properties rest on is
proved too, and is checked by adding `INVARIANTS ChainInHand ReservationInHand` to
`GatewayRequests_chains.cfg`, `INVARIANT NobodyForgotten` to
`SentinelQuarantine_breaker.cfg` and `PROPERTY SweepAdvances` to
`StagedRecovery_sidecars.cfg`.

Why the bounds are enough.

- Claims: two claims of a row are what a reclaim needs, the third shows that a reclaim
  of a reclaim is no different. Two days let a claim outlive its bucket. Estimate 2
  with costs 1 and 3, ceilings 3 and 6 under an ambient cap of 5, give refusals,
  overshoots and re-arms in both directions.
- Outbox: two attempts let a directive be handed out, lapse, be handed out again and
  die of its attempts; `Ttl` = 2 and `Lease` = 1 let it die of age first.
- Council: three requests fill two slots and have a third come; keys interact through
  slots only. `SweepAge` = `PendingTtl` + 1 keeps the code's order of 300 s and 330 s.
- Recovery: two sidecars race over a row, two rows over a token; pages of one make
  the watermark carry a sweep past a held row; one clock step forward and two ticks
  trip the skew breaker (`MaxSkew` = 1) and let the arm, the token and the directive
  expire; the second boot is a restart or the second sidecar.
- Arming: a boot task, a ceremony's task in the same instance and one in the other
  are every pair that contends for a channel or for the claim; one stage that both
  instances try to confirm is the race, a second would repeat it. `/disarm` and the
  alarms are those of one instance (`Disarmable`): they touch the other's producers
  through the shared tables only, and it starts, is deposed and dies like the first.
- Enqueue: cap 1 under three causes of one tenant stalls the cursor, the poisoned fire
  stands between two good ones of another tenant, the repeated cause dedups after its
  row ended or was pruned, three starts let one instance be deposed and start again.
- Gateway: limit 3 holds one estimate of 2 but not two, so a second request is
  refused unless the first has released; cost 3 exceeds the estimate. One fault at any
  of the fault points; the properties that a fault excuses say so by `spoiled`.
- Quarantine: the least ladder with a rung below the kill. Two faults let a retry time
  out after a kill was refused, and the process restart between them.

`recovery_sidecars`, `arming_control`, `arming_boot`, `enqueue_sweeps` and
`gateway_chains` switch deadlock checking off: sidecars are all down, producers all
off and requests all done in states the system may really end in. In the other runs
the clock or the sentinel never stops.

### Finding

`arming_boot`: a producer that the environment armed, whose boot found the claim held,
drops its kill channel from `producer_kill_state` (`watch/runner.rs`, the refusal
arm of `boot_producer_claim_attempt_with_mode`), waits for the claim, acquires it and
sweeps, with no handle by which a disarm could reach it; the watchdog releases the
claim at its first tick and leaves the sweep running. `quarantine.rs` states of
`action_production_armed` that such a producer's channel is held. `Killable` and
`DisarmReaches` except exactly these tasks (`cutOff`).

### Observations

Found while modelling; the models follow the code, and the properties above state
what holds.

- *Outbox.* A claim call that waits for the connection compares a `now_ms` from before
  the wait, and leases a directive whose window has closed meanwhile; the comment in
  `claim_outbox` says never. `DispatchFenced` states the bound, the wait.
- *Council.* Grant ids start over with the sidecar process while the router keeps old
  ones; an unlock from before a restart removes the slot of a request granted after
  it. `SlotsKept` holds until the first restart. "Orphaned by sidecar restart, by
  definition" does not hold of a deliberation, which runs in the router and the
  council: `OneDeliberation` names the two ways to a second one, a restart and a lapse.
  A claim's stored check and its pending write are two awaits, and a store in between
  is overwritten: `SettledForGood` is about answers stored while no claim is between.
  A mirror read that fails counts as no stored row.
- *Recovery.* The dead-letter update has no guard on the status, so a second sidecar
  may dead-letter a row whose directive the first filed; `NoOrphans` holds.
- *Arming.* The comment in `admin_disarm_producer_json` says of the clear that "the
  operator pulling the kill switch ends every in-flight ceremony". A confirm whose
  transaction has committed is not ended: it goes on to acquire the claim and start its
  producer, while `/disarm` awaits the old producer's drain (up to 5 s) or after its
  answer, and the arm's ceiling is gone but the producer sweeps. Between the switch and
  the answer such a producer is in `late`, which `DisarmReaches` excepts; it is in the
  kill state, so a second `/disarm` reaches it (`Killable`).
- *Enqueue.* The comment at the cap says the count and the insert cannot interleave
  with another producer; those of a deposed instance, on another connection, can.
  `CapHonoured` states the margin, one per further producer.
- *Gateway.* A blocked batch writes a terminating row in the access phase and does not
  mark its chain, so the log phase closes it a second time (`router.lua`,
  `route_batch`; `cost.lua`, the batch terminator); `COUNCIL_GATEWAY_CONTRACT.md` asks
  for one. `OneTerminator` is about chat and council requests.
  A client that leaves while its `/budget/check` is being applied has its estimate
  reserved, while the record has no `budget_estimated_usd`: the log phase does not
  release it, and with the SQLite store, which is never reset, it counts against the key
  for good. `ReservationsSettle` names the case (`deserted`).
- *Quarantine.* With the default backoffs the fifth quarantine cannot come within the
  window of an hour (60 + 300 + 1800 + 3600 s lie between them), so the hard kill that
  `docs/watch-api.md` describes as "5 within 1h" is out of the ladder's reach; the
  model's deadlines pass in any order and do reach it. `record_success` that
  removes the record forgets a probation. A record kept after a clear keeps
  `duration_ms` with `cycle_count` 0, so its next kill comes one trigger early. A kill
  that was never persisted is forgotten by a restart. A race of a wake with a *pending*
  kill may write more than the one audit row that `runtime.rs` allows for;
  `LateFiresBounded` is the bound.

## 5. Fairness

Weak unless said otherwise; what is not named need never happen: no client, council,
operator, crash, fault or confirm is obliged to anything.

- EscalationClaims: `Tick`, the sweep timer (`phantom_sweep_loop`), and a running
  loop's own ready steps (`select!` on the fence, the awaits after the call).
- DirectiveOutbox: the loop's `Ask` and its work on a batch; strong fairness of
  `Claim`, because a crash may strike again and again between sampling the clock and
  the transaction but not every time; strong fairness of `Tick`, because the bound on
  the wait of a queued call disables it while one waits.
- CouncilIdempotency: `Tick` and `Sweep` (`tokio::time::interval`).
- StagedRecovery: `Sweep(p) \/ Recover(p)` of each process: the runtime drives a
  sweep and a recovery it has begun. A failure or the deadline may end them instead.
- ProducerArming: `AutoSignal` (an await of an alarm that already holds the channel)
  and `Watchdog` (an interval).
- CdcEnqueue: `Deposed` (the watchdog), `Tick \/ TickEnds` (the sweep's interval);
  strong fairness of `CountRoom \/ CountFull` and of `Insert \/ InsertPoisoned`: a
  database that fails now and then does not fail every attempt. None of `EndRow`: an
  open row may stay open, and `outbox_store.rs` calls the stall that follows at the cap
  "the designed outcome" until the operator acts. `FiresReachQueue` therefore says that
  nothing else holds a fire back: whenever not all committed fires are in the queue, now
  or later a producer stands at a new fire of a full tenant (`Stalled`), or all are off.
- GatewayRequests: `Progress(r)` of each request: nginx runs handlers and timers on,
  the sidecar what it is sent.
- SentinelQuarantine: the runner, the retry loop, an answered clear, the database, and
  time; strong fairness of `RecordFailure` and `RetryOnce`, since the `op_lock` is a
  mutex of tokio, which is handed on first come first served.

## 6. What is proved

Proofs hold for any number of rows, loops, workers, requests, keys, processes and any
values of the limits, from the named assumptions of each module only (finite sets
where cardinalities are counted, positive limits, distinct null values). Each module's
`TypeCorrect` (or `...TypeCorrect`) proves its type invariant.

| Module | Further theorems | Argument |
|---|---|---|
| `EscalationClaimsProofs` | `LedgerExact`, `ExposureBounded`, `SingleHolder`, `NoLateAnswer`, `SettledForGood`, `LeaseRespected`, `Refinement`, `AccountRefinement`, `RowRefinement` | `TypeInv` adds that a busy loop has a job. `LedgerInv` adds `StampsTrackClaims`: a row is stamped only while claimed. Without it a sweep or a reclaim could release a stamp the row no longer owns. The ledger then moves by the estimate exactly as the set of booked rows gains or loses one row (`BookedMove`, `BackOut`), and MAX(0, ...) never bites. Exposure follows since the cap test is made after the reclaim's release. For the fence: `TokensIssued` (no loop holds a token its row has not reached), `OneClaimOneLoop` (no token is in two memories), `AnswersAreStaged` (a row carries an answer only when staged). A fresh token exceeds every token in memory, so a claim disarms all other holders at once. The refinement maps each action to `Take`, `Lose`, `Finish` or a stutter (`MapsTo...`). `AccountRefinement` splits the transaction of a claim at the reclaim (`AfterReclaimOf`): on every day the step is what the back-out does there, then what the reservation does (`AccountSteps`). The exact ledger makes each MAX(0, ...) a plain subtraction, and a sweep of n rows of a day takes n estimates from it. `RowRefinement` needs the fence's invariant: the store that stages a row still has its claim, so it finds the row open, and its answer is a token, hence one that was issued. |
| `DirectiveOutboxProofs` | `OneActor`, `EndsAreFinal`, `LeasesHold`, `DispatchIsFenced`, `DeathsAttributed`, `DirectiveRefinement` | `LatestHandle` (the row's handle is its claim count), `HandlesIssued`, `OneClaimOneWorker`; `StepFate` says once and for all what a step can do to one directive, and the three action properties are read off it; `CauseInv` adds that only expired rows blame attempts. `DirectiveRefinement` reads off `StepFate` too, once it is known that no step but `Stage` touches a directive not yet filed (`OnlyStageStages`). |
| `CouncilIdempotencyProofs` | `NoSecondDeliberation`, `SessionsStayCapped`, `SlotsNeverStolen`, `AnswersStaySettled` | `BusyOwn`: whoever is busy with a key owns its reservation or the key has an overrun; a claim replaces no reservation of another owner and a store removes one only for an owner or after an overrun. `SlotInv` holds until the first restart: `Named` (grant ids are below `seq`, and equal ids mean the same owner) and `Holding` (whoever is at work has its slot, unless swept). Sending each request at work to its slot is injective, which carries the cap over from slots to requests. After a restart `seq` starts over and `SlotInv` says nothing. `SettledForGood` needs only types. |
| `StagedRecoveryProofs` | `OneDirectiveEver`, `PruneLeavesNoOrphans`, `TokenCarriesOneDirective`, `SweepLeavesNone`, `NoSigningAfterOwnDisarm`, `StampsAreMonotone`, `DirectiveRefinement`, `RowRefinement`, `SweepNeverRepeats` | `Ledger` ties the tables: a row is signed for at most once; a signed row whose directive is on file is in one of its ends, one whose directive is gone is pruned. `Answered`: a row in a sidecar's hand, in its page or due to its sweep is no longer claimed and has its answer. `Bindings`: whoever passed the token's check with execute authority, and whoever was signed for with it, holds its token's binding, which nobody else may take. `Sweeping`: rows due to a sweep and still staged lie ahead of its watermark, those of its page first among them. `Gated`: a recovery past the gate in a process that disarmed last is impossible, since the disarm and the recovery share the connection. The refinements rest on `Ledger` (a signed row is never signed for again, so `File` finds no directive, on file or pruned) and on `Answered` (the row of a recovery has been staged, so a dead-letter or a filing moves it from staged or leaves it ended). `SweepNeverRepeats` needs only the part of `TypeOK` that puts a page ahead of the watermark. |
| `ProducerArmingProofs` | `ProducersKillable`, `DisarmReachesAll`, `OneStartOfAStage`, `DisarmFinal` | `Killable` is inductive once typed: whoever empties the kill state signals what it held, keeps it in hand, or is the refused boot. `Draining` carries that from the switch to the answer: while a disarm awaits a drain, every live producer of the process has been told, was cut off, is in an alarm's hand or was started since (`late`). `OneStart` adds `InFlight`: a confirm on its way holds a ceremony that no other one holds and that has started nothing. Disarmed stages stay in the audit history, from which a stage_id must be fresh. |
| `CdcEnqueueProofs` | `CursorDropsNothing`, `CapExceededByRacers`, `DeposedEndItsBatch`, `RowsEndOnce` | The cursor moves by one fire, and only past one that is enqueued or poisoned. `Room`: the open rows of a tenant and the producers that counted room for it are together at most the cap and one less than the instances; an insertion turns one of the latter into one of the former. `Straying`: the strays of a producer and the rest of its batch are at most a batch, and a fenced producer fetches none. |
| `GatewayRequestsProofs` | `NoUnreservedDispatch`, `TerminatorsExclude`, `SpendExact`, `LimitHolds`, `BudgetRefinement`, `ChainsInHand`, `ReservationsInHand` | `Chain(r)` for each request (`Reserved`, `Accounted`, `Closable`): which fields of the record, checks and timers go together at each place of the handler. Requests share only the spend, so a step of one frames the others (`OtherChain`). The spend is a fold over the set of requests; that it moves by what one request's share moves is proved from the one equation of the fold, by induction on the size of the set (`SetInduction`: an induction principle for a *set* of naturals, which needs no operator parameter, from the well-foundedness of <). `BudgetInv` adds `Once`: a chain whose reservation has been settled has no further timer that would settle it. So a release finds its estimate in the spend (`OwedByOthers`), and MAX(0, ...) never bites. `Pursued` is what remains of a chain whose request was terminated, replayed or accounted for: it has its row or a timer due to write it, and once it has ended what it reserved is settled or has a timer due to settle it. It starts the step the timers are registered, before the request ends; a timer that is refused or fires too late spoils the chain. `Records`: once a request is past its check, what the sidecar reserved for it stands in its record, or the request is spoiled or deserted. A replay is a council request, so no chat's settlement is skipped for one. `OthersRest` frames the other requests. |
| `SentinelQuarantineProofs` | `GateNeverLags`, `ClearsAreFinal`, `LateFires`, `WaitersServed` | `GateAgrees` is not inductive: a retry that timed out is still in the queue and kills when its turn comes. `QueueInv` says who waits for which statement, and that no kill stands behind a clear; `KillInv` that each kill on its way is known to the gate or is the one `record_failure` waits for, and that a runner it stops is idle. `LateInv`: the late fires, the fire statements in the queue that nobody waits for (`Stray`) and the wakes between the gate and their fire (`Ahead`) are together at most the wakes and the faults, the strays alone at most the faults; a statement that is executed turns one of the second kind into one of the first, and removing the head of the queue shifts the others one to one (`StrayOfTail`). `WaitersServed` is part of `QueueInv`: only the head is executed, and its sender is answered in that step; a time-out or a client that leaves stops waiting, but leaves the statement. |

Every safety property of the passing runs is proved. Only model-checked: liveness
(`ClaimsEnd`, `DirectivesEnd`, `SlotsReturn`, `SweepsEnd`, `DeposedStops`,
`FiresReachQueue`, `ReservationsSettle`, `ChainsClose`, `KillsPersist`,
`LadderDecays`), which is out of the prover's reach here, and the violation. For
`ChainsClose` and `ReservationsSettle` the safety half is proved for all constants: what
must happen is always still due, and TLC has only to show that a due timer fires. For
`SweepsEnd`, `KillsPersist` and `LadderDecays` a part of it is: a sweep takes no row
twice, and nobody waits for a statement that is no longer queued.

## 7. Not modelled

`PROJECT.json` names every component left out and why: the deliberation engine and its
server, the desktop, the sentinels, caches, rate limits, keys, the hash chains, the
translators and the user interfaces. In the modelled parts:

- audit rows and metrics, wire formats, the values of prompts, answers and signatures;
- EscalationClaims: replay-epoch refusal after a claim (it leaves the state the fence
  leaves), the out-of-band hint counters;
- GatewayRequests: the Redis store. With Redis and SQLite both configured the code
  reserves in SQLite and records in Redis; the model is of SQLite alone. The spend of
  a key in SQLite is never reset. The open-end row of a chain, whose timer shares
  nothing with the others; the release of a replay's estimate, which is 0. A
  reservation that is applied after its check timed out stays (`spoiled` marks it), and
  so does one whose client left during the check (`deserted`);
- SentinelQuarantine: the lengths of the backoffs, and other sentinels, which share
  only the database's queue;
- StagedRecovery: more than one tenant, and the audit events of a recovery, which
  commit in its transaction.
