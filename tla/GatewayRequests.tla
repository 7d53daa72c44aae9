--------------------------- MODULE GatewayRequests ---------------------------
(***************************************************************************)
(* The gateway's request path: the access phase takes a request through    *)
(* guard, cache, routing, budget, policy and the council gate to its       *)
(* provider, the log phase accounts for it, and timers scheduled by both   *)
(* write its rows of the audit chain and settle its budget reservation     *)
(* with the sidecar, which keeps budget_state in SQLite.                   *)
(*                                                                         *)
(* Every step that calls the sidecar is an await: the client may go away   *)
(* meanwhile, and an exchange that times out may have been applied.  One   *)
(* budget key; the council's own locks are in CouncilIdempotency.          *)
(***************************************************************************)
EXTENDS FiniteSets, Functions, Integers

CONSTANTS
    Requests,    \* requests that pass authentication
    Estimate,    \* the price of 1K output tokens of a chat model
    Costs,       \* prices of an answer
    Limit,       \* limit_for_key
    Attempts,    \* MAX_ATTEMPTS of record_with_retry
    MaxFaults    \* bound: lost exchanges, refused and premature timers

None == -1   \* no amount

ASSUME GatewayAssumption ==
    /\ IsFiniteSet(Requests)
    /\ Estimate \in Nat \ {0} /\ Limit \in Nat /\ Costs \subseteq Nat
    /\ Attempts \in Nat \ {0} /\ MaxFaults \in Nat

VARIABLES
    pc,          \* where the handler of a request is
    kind,        \* "chat", "council" or "batch"
    provider,    \* record.provider is set
    estimate,    \* record.budget_estimated_usd, or None
    terminated,  \* record.chain_terminated
    replay,      \* record.is_replay_exit
    check,       \* its /budget/check: "none", "sent", "reserved" or "denied"
    spent,       \* budget_state.spent_usd
    charged,     \* history: what /budget/record put in its reservation's place
    job,         \* its timers: "none", "queued", "running" or "over"
    tries,       \* attempts of record_with_retry that failed
    rows,        \* its terminating rows in audit_events
    spoiled,     \* history: a fault hit the request
    deserted,    \* history: requests whose client left during their /budget/check
    faults

record == <<kind, provider, estimate, terminated, replay>>
budget == <<check, spent, charged>>
timers == <<job, tries, rows>>
vars == <<pc, record, budget, timers, spoiled, deserted, faults>>

\* Timers of a request: the terminator of the access phase, the terminator of the
\* log phase, and the release of the estimate.  The timer of the open-end row, which
\* shares nothing with these, is left out.
Jobs == {"ending", "closing", "release"}

Steps == {"new", "guard", "cache", "route", "budget", "checking", "policy", "gate",
          "dispatch", "upstream", "log", "done"}

EstimateOf(r) == IF kind[r] = "chat" THEN Estimate ELSE 0

\* Types; a reservation is settled once it was made, and released only for a
\* request that reached no provider.
TypeOK ==
    /\ pc \in [Requests -> Steps]
    /\ kind \in [Requests -> {"none", "chat", "council", "batch"}]
    /\ provider \in [Requests -> BOOLEAN]
    /\ estimate \in [Requests -> {None, 0, Estimate}]
    /\ terminated \in [Requests -> BOOLEAN]
    /\ replay \in [Requests -> BOOLEAN]
    /\ check \in [Requests -> {"none", "sent", "reserved", "denied"}]
    /\ spent \in Nat
    /\ charged \in [Requests -> {None, 0} \cup Costs]
    /\ job \in [Requests -> [Jobs -> {"none", "queued", "running", "over"}]]
    /\ tries \in [Requests -> [Jobs -> 0 .. Attempts - 1]]
    /\ rows \in [Requests -> Nat]
    /\ spoiled \in [Requests -> BOOLEAN]
    /\ deserted \in SUBSET Requests
    /\ faults \in 0..MaxFaults
    /\ \A r \in Requests :
          /\ estimate[r] # None => check[r] = "reserved" /\ estimate[r] = EstimateOf(r)
          /\ job[r]["release"] # "none" => ~provider[r] /\ estimate[r] # None
          /\ charged[r] # None => estimate[r] # None /\ pc[r] = "done"

Init ==
    /\ pc = [r \in Requests |-> "new"]
    /\ kind = [r \in Requests |-> "none"]
    /\ provider = [r \in Requests |-> FALSE]
    /\ estimate = [r \in Requests |-> None]
    /\ terminated = [r \in Requests |-> FALSE]
    /\ replay = [r \in Requests |-> FALSE]
    /\ check = [r \in Requests |-> "none"]
    /\ spent = 0
    /\ charged = [r \in Requests |-> None]
    /\ job = [r \in Requests |-> [j \in Jobs |-> "none"]]
    /\ tries = [r \in Requests |-> [j \in Jobs |-> 0]]
    /\ rows = [r \in Requests |-> 0]
    /\ spoiled = [r \in Requests |-> FALSE]
    /\ deserted = {}
    /\ faults = 0

Goto(r, step) == pc' = [pc EXCEPT ![r] = step]

\* A fault hits request r, or none does.
Fault(r) ==
    /\ faults < MaxFaults
    /\ faults' = faults + 1
    /\ spoiled' = [spoiled EXCEPT ![r] = TRUE]

NoFault == UNCHANGED <<faults, spoiled>>

\* ngx.timer.at takes each timer of new, or refuses one of them.
Schedule(r, new, taken) ==
    /\ taken \subseteq new
    /\ job' = [job EXCEPT ![r] = [j \in Jobs |-> IF j \in taken THEN "queued" ELSE @[j]]]
    /\ IF taken = new THEN NoFault ELSE Fault(r)
    /\ UNCHANGED <<tries, rows>>

(***************************************************************************)
(* The access phase                                                        *)
(***************************************************************************)
\* Defect: a scheduled terminator is not noted on the record.
Unmarked(r, taken) == UNCHANGED terminated

Marked(r, taken) ==
    terminated' = [terminated EXCEPT ![r] = @ \/ taken # {}]

\* schedule_terminator, and the answer to the client.
Terminate(r) ==
    \E taken \in SUBSET {"ending"} :
        /\ Schedule(r, {"ending"}, taken)
        /\ Marked(r, taken)
        /\ Goto(r, "log")
        /\ UNCHANGED <<kind, provider, estimate, replay, budget>>

\* The request goes on, or ends with json_error alone.
Continue(r, step) ==
    /\ Goto(r, step)
    /\ NoFault
    /\ UNCHANGED <<record, budget, timers>>

\* route_chat up to the input guard.
Receive(r) ==
    /\ pc[r] = "new"
    /\ \E k \in {"chat", "council"} : kind' = [kind EXCEPT ![r] = k]
    /\ Goto(r, "guard")
    /\ NoFault
    /\ UNCHANGED <<provider, estimate, terminated, replay, budget, timers>>

\* route_batch: the provider is the client's choice, and known from the start.
ReceiveBatch(r) ==
    /\ pc[r] = "new"
    /\ kind' = [kind EXCEPT ![r] = "batch"]
    /\ provider' = [provider EXCEPT ![r] = TRUE]
    /\ Goto(r, "budget")
    /\ NoFault
    /\ UNCHANGED <<estimate, terminated, replay, budget, timers>>

EnforceInputGuard(r) ==
    pc[r] = "guard" /\ (Terminate(r) \/ Continue(r, "cache"))

\* Council models are not cached.
TryServeCached(r) ==
    /\ pc[r] = "cache"
    /\ (kind[r] = "chat" /\ Terminate(r)) \/ Continue(r, "route")

\* Routing, exact transports and the streaming rules; the last end without a
\* terminator of their own.
ResolveRoute(r) ==
    /\ pc[r] = "route"
    /\ Terminate(r) \/ Continue(r, "log") \/ Continue(r, "budget")

AfterBudget(r) == IF kind[r] = "batch" THEN "upstream" ELSE "policy"

\* check_budget sends /budget/check, or has no key to check.
CheckBudget(r) ==
    /\ pc[r] = "budget"
    /\ \/ Continue(r, AfterBudget(r))
       \/ /\ check' = [check EXCEPT ![r] = "sent"]
          /\ Goto(r, "checking")
          /\ NoFault
          /\ UNCHANGED <<record, spent, charged, timers>>

Admitted(r) ==
    /\ pc[r] = "checking" /\ check[r] = "reserved"
    /\ estimate' = [estimate EXCEPT ![r] = EstimateOf(r)]
    /\ Goto(r, AfterBudget(r))
    /\ NoFault
    /\ UNCHANGED <<kind, provider, terminated, replay, budget, timers>>

\* A batch gets the row of a blocked chat, which nothing marks as a terminator.
Block(r) ==
    IF kind[r] # "batch"
    THEN Terminate(r)
    ELSE \E taken \in SUBSET {"ending"} :
            /\ Schedule(r, {"ending"}, taken)
            /\ Goto(r, "log")
            /\ UNCHANGED <<record, budget>>

Blocked(r) ==
    /\ pc[r] = "checking" /\ check[r] = "denied"
    /\ Block(r)

\* Defect: a check that times out lets the request pass.
PassUnchecked(r) ==
    /\ Goto(r, AfterBudget(r))
    /\ UNCHANGED <<record, budget, timers>>

\* A check that times out fails closed, whether or not it is still applied; the
\* timer of its terminator is taken or refused.
FailClosed(r) ==
    /\ \E taken \in SUBSET {"ending"} :
          /\ job' = [job EXCEPT ![r]["ending"] = IF taken = {} THEN @ ELSE "queued"]
          /\ IF kind[r] = "batch" THEN UNCHANGED terminated ELSE Marked(r, taken)
    /\ Goto(r, "log")
    /\ UNCHANGED <<kind, provider, estimate, replay, budget, tries, rows>>

TimedOut(r) ==
    /\ pc[r] = "checking"
    /\ Fault(r)
    /\ FailClosed(r)

CheckPolicy(r) ==
    /\ pc[r] = "policy"
    /\ \/ Terminate(r)
       \/ Continue(r, IF kind[r] = "council" THEN "gate" ELSE "dispatch")

\* council_endpoint_gate: an error, the replay of a stored answer, or a slot and
\* a claim.
CouncilGate(r) ==
    /\ pc[r] = "gate"
    /\ \/ Continue(r, "log")
       \/ Continue(r, "dispatch")
       \/ /\ provider' = [provider EXCEPT ![r] = TRUE]
          /\ replay' = [replay EXCEPT ![r] = TRUE]
          /\ \E taken \in SUBSET {"ending"} : Schedule(r, {"ending"}, taken)
          /\ Goto(r, "log")
          /\ UNCHANGED <<kind, estimate, terminated, budget>>

\* dispatch_upstream: a missing provider, key or translation, or proxy_pass.
DispatchUpstream(r) ==
    /\ pc[r] = "dispatch"
    /\ \/ Continue(r, "log")
       \/ /\ provider' = [provider EXCEPT ![r] = TRUE]
          /\ Goto(r, "upstream")
          /\ NoFault
          /\ UNCHANGED <<kind, estimate, terminated, replay, budget, timers>>

\* The provider answers, fails or times out, or the client goes away.
Respond(r) == pc[r] = "upstream" /\ Continue(r, "log")

\* lua_check_client_abort, of the chat location, ends a handler that awaits the
\* sidecar.  A handler that ends during its check has put no estimate on the record.
Abort(r) ==
    /\ kind[r] # "batch"
    /\ pc[r] \in {"guard", "cache", "route", "checking", "policy", "gate", "dispatch"}
    /\ Continue(r, "log")
    /\ deserted' = IF pc[r] = "checking" THEN deserted \cup {r} ELSE deserted

(***************************************************************************)
(* The log phase                                                           *)
(***************************************************************************)
\* Defect: an errored request keeps its estimate.
KeepEstimate(r) == {}

\* Defect: an errored request is not accounted for.
NoTerminator(r) == {}

ReleaseOf(r) == IF estimate[r] # None THEN {"release"} ELSE {}

RejectedRow(r) == IF terminated[r] THEN {} ELSE {"closing"}

\* The timers of _M.account.
ClosingTimers(r) ==
    IF replay[r] THEN {}
    ELSE IF provider[r] THEN {"closing"}
    ELSE ReleaseOf(r) \cup RejectedRow(r)

Account(r) ==
    /\ pc[r] = "log"
    /\ \E taken \in SUBSET ClosingTimers(r) :
          /\ Schedule(r, ClosingTimers(r), taken)
          /\ terminated' = [terminated EXCEPT ![r] =
                                @ \/ (~provider[r] /\ "closing" \in taken)]
    /\ Goto(r, "done")
    /\ UNCHANGED <<kind, provider, estimate, replay, budget>>

(***************************************************************************)
(* The sidecar's budget                                                    *)
(***************************************************************************)
\* Defect: what is spent is compared without the estimate.
FitsSpent(r) == spent <= Limit

Fits(r) == spent + EstimateOf(r) <= Limit

\* BudgetEnforcer.check reserves in one transaction, and fails closed.
Reserve(r) ==
    /\ check[r] = "sent"
    /\ Fits(r)
    /\ check' = [check EXCEPT ![r] = "reserved"]
    /\ spent' = spent + EstimateOf(r)
    /\ UNCHANGED <<pc, record, charged, timers, spoiled, faults>>

Deny(r) ==
    /\ check[r] = "sent"
    /\ check' = [check EXCEPT ![r] = "denied"]
    /\ UNCHANGED <<pc, record, spent, charged, timers, spoiled, faults>>

\* Defect: the cost is added to the estimate.
AddCost(r, c) == spent + c

\* increment_spend: MAX(0, spent_usd - estimate + cost).
SpendAfter(r, c) ==
    IF spent - estimate[r] + c > 0 THEN spent - estimate[r] + c ELSE 0

(***************************************************************************)
(* Timers                                                                  *)
(***************************************************************************)
\* The closures that call /budget/record first.
Settles(r, j) ==
    \/ j = "release"
    \/ j = "closing" /\ provider[r] /\ kind[r] # "batch" /\ estimate[r] # None

AfterSettle(r, j) ==
    job' = [job EXCEPT ![r][j] = IF j = "release" THEN "over" ELSE "running"]

Settle(r, j) ==
    /\ job[r][j] = "queued" /\ Settles(r, j)
    /\ \E c \in IF j = "release" THEN {0} ELSE Costs :
          /\ spent' = SpendAfter(r, c)
          /\ charged' = [charged EXCEPT ![r] = c]
    /\ AfterSettle(r, j)
    /\ UNCHANGED <<pc, record, check, tries, rows, spoiled, faults>>

\* /budget/record is not retried.
SettleLost(r, j) ==
    /\ job[r][j] = "queued" /\ Settles(r, j)
    /\ Fault(r)
    /\ AfterSettle(r, j)
    /\ UNCHANGED <<pc, record, budget, tries, rows>>

Writing(r, j) ==
    \/ job[r][j] = "queued" /\ ~Settles(r, j)
    \/ job[r][j] = "running"

\* record_with_retry: the row is written and confirmed.
Write(r, j) ==
    /\ Writing(r, j)
    /\ rows' = [rows EXCEPT ![r] = @ + 1]
    /\ job' = [job EXCEPT ![r][j] = "over"]
    /\ tries' = [tries EXCEPT ![r][j] = 0]
    /\ UNCHANGED <<pc, record, budget, spoiled, faults>>

\* An exchange fails before or after the row was written, and is tried again.
WriteFails(r, j) ==
    /\ Writing(r, j)
    /\ Fault(r)
    /\ \E n \in {0, 1} : rows' = [rows EXCEPT ![r] = @ + n]
    /\ IF tries[r][j] + 1 < Attempts
       THEN /\ tries' = [tries EXCEPT ![r][j] = @ + 1]
            /\ job' = [job EXCEPT ![r][j] = "running"]
       ELSE /\ tries' = [tries EXCEPT ![r][j] = 0]
            /\ job' = [job EXCEPT ![r][j] = "over"]
    /\ UNCHANGED <<pc, record, budget>>

\* A worker that shuts down runs its timers as premature: they do nothing.
Premature(r, j) ==
    /\ job[r][j] = "queued"
    /\ Fault(r)
    /\ job' = [job EXCEPT ![r][j] = "over"]
    /\ UNCHANGED <<pc, record, budget, tries, rows>>

(***************************************************************************)
(* Specification                                                           *)
(***************************************************************************)
Handler(r) ==
    \/ EnforceInputGuard(r) \/ TryServeCached(r) \/ ResolveRoute(r)
    \/ CheckBudget(r) \/ Admitted(r) \/ Blocked(r) \/ TimedOut(r)
    \/ CheckPolicy(r) \/ CouncilGate(r) \/ DispatchUpstream(r) \/ Respond(r)
    \/ Account(r)

Timer(r, j) == Settle(r, j) \/ SettleLost(r, j) \/ Write(r, j) \/ WriteFails(r, j)

\* A step on behalf of a request whose client stays.
Step(r) ==
    \/ Receive(r) \/ ReceiveBatch(r)
    \/ Handler(r)
    \/ Reserve(r) \/ Deny(r)
    \/ \E j \in Jobs : Timer(r, j) \/ Premature(r, j)

Next == \E r \in Requests : (Step(r) /\ UNCHANGED deserted) \/ Abort(r)

Spec == Init /\ [][Next]_vars

\* nginx runs a request's handler and timers on, and the sidecar what it is sent.
Progress(r) ==
    /\ Handler(r) \/ Reserve(r) \/ Deny(r) \/ \E j \in Jobs : Timer(r, j)
    /\ UNCHANGED deserted

Fairness == \A r \in Requests : WF_vars(Progress(r))
FairSpec == Spec /\ Fairness

(***************************************************************************)
(* The abstract view: budget_state as an account of reservations           *)
(***************************************************************************)
BudgetState == INSTANCE SpendAccount WITH
    Spenders <- Requests,
    Amounts <- {0, Estimate} \cup Costs,
    Nothing <- None,
    balance <- spent,
    held <- [r \in Requests |-> IF check[r] = "reserved" /\ charged[r] = None
                                THEN EstimateOf(r) ELSE None]

(***************************************************************************)
(* Properties                                                              *)
(***************************************************************************)
\* What each request still takes of the budget: its reservation, or what replaced it.
Owed ==
    [r \in Requests |-> IF check[r] # "reserved" THEN 0
                        ELSE IF charged[r] # None THEN charged[r]
                        ELSE EstimateOf(r)]

\* spent_usd is the sum of the reservations that were made and not settled and of
\* the costs that were, in every order of checks, answers, time-outs and aborts.
SpendMatchesRequests == spent = SumFunction(Owed)

Overrun ==
    [r \in Requests |-> IF charged[r] # None /\ charged[r] > EstimateOf(r)
                        THEN charged[r] - EstimateOf(r) ELSE 0]

\* Requests checked at the same time do not exceed the limit between them: only
\* answers dearer than their estimate do, by the difference.
WithinLimit == spent <= Limit + SumFunction(Overrun)

\* A request is proxied only with its check answered by a reservation, or without
\* a key to check: a sidecar that is slow or down blocks it.
DispatchReserved ==
    \A r \in Requests :
        pc[r] = "upstream" => check[r] = "none" \/ estimate[r] # None

\* The chain of a chat or council request has at most one terminator scheduled,
\* by the access phase or by the log phase, whichever timers were refused.
OneTerminator ==
    \A r \in Requests :
        kind[r] # "batch" => job[r]["ending"] = "none" \/ job[r]["closing"] = "none"

\* budget_state holds an estimate of a request whose handler is done.
Holds(r) == pc[r] = "done" /\ check[r] = "reserved" /\ EstimateOf(r) > 0

\* Whatever the sidecar reserved for a request that ended, by whatever way it ended,
\* is settled or released.  It leaks in two cases only: an exchange or a timer of the
\* request was lost, or its client left while the check was under way, so that the
\* record never learned of the reservation.
ReservationsSettle ==
    \A r \in Requests :
        Holds(r) ~> (charged[r] # None \/ spoiled[r] \/ r \in deserted)

\* An opened chain is closed by a row, but for a lost exchange or timer.
ChainsClose ==
    \A r \in Requests :
        (pc[r] # "new") ~>
            (rows[r] > 0 \/ spoiled[r])

\* What the last two rest on: an ended request, unless a fault hit it, has its
\* terminating row written or a timer that will write it, whoever ended the request
\* and whatever its record held then.
ChainInHand ==
    \A r \in Requests :
        pc[r] = "done" /\ ~spoiled[r] /\ rows[r] = 0 =>
            \E j \in {"ending", "closing"} : job[r][j] \in {"queued", "running"}

\* And whatever the sidecar holds for it has a timer that will settle it, but in the
\* same two cases.
ReservationInHand ==
    \A r \in Requests :
        Holds(r) /\ charged[r] = None =>
            \/ \E j \in Jobs : job[r][j] = "queued" /\ Settles(r, j)
            \/ spoiled[r] \/ r \in deserted

\* /budget/check and /budget/record keep an account: a request reserves once and
\* within the limit, and its reservation leaves spent_usd once and whole, however
\* checks, time-outs and timers interleave; MAX(0, ...) never bites.
BudgetIsAccount == BudgetState!Spec
=============================================================================
