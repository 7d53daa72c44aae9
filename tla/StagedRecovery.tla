--------------------------- MODULE StagedRecovery ---------------------------
(***************************************************************************)
(* From a stored council answer to a signed directive.  The live           *)
(* dispatcher recovers the row it has just staged; the hydration sweep of  *)
(* a booting sidecar recovers whatever an earlier run left staged.  Both   *)
(* run one recovery: arm gate, validation with the capability token,       *)
(* signature, and the transaction that files the directive.                *)
(*                                                                         *)
(* Recovery is a single call on the process's own connection, so nothing   *)
(* else of that process comes between its statements.  A second sidecar    *)
(* over the same database, as in a rolling restart, may: only the filing   *)
(* and the dead-lettering are transactions.                                *)
(*                                                                         *)
(* One tenant.  EscalationClaims models how a row comes to be claimed and  *)
(* DirectiveOutbox what becomes of a staged directive.                     *)
(***************************************************************************)
EXTENDS Integers, FiniteSets

CONSTANTS
    Processes,    \* sidecars over the one watch.db
    Escalations,  \* rows of pending_escalations
    Key,          \* (created_at_ms, id) of a row, as its rank in that order
    Tokens,       \* token_ids of capability tokens
    Token,        \* the token an answer with execute authority presents
    TokenExpiry,  \* expires_at of that token
    Answers,      \* the kinds of answer the council may give to a row
    PageSize,     \* BOOT_HYDRATION_FETCH_BATCH_SIZE
    ArmWindow,    \* spend_window_ms of the attested arm, in ticks
    Ttl,          \* directive_stage_ttl_ms, in ticks
    MaxSkew,      \* max_allowed_skew_ms, in ticks
    Retention,    \* retention of terminal rows, in ticks
    MaxClock,     \* bound: ticks of the wall clock
    MaxJumps,     \* bound: steps of the host's clock, forwards or back
    MaxBoots      \* bound: boots of a process

Nobody == "nobody"
NoRow == "no row"
Free == "unconsumed"
\* What a recovery makes of an answer.  A garbled one fails before its authority is
\* looked at, a misshapen one asks for execute and fails after that.
Kinds == {"recommend", "execute", "misshapen", "dismiss", "garbled"}

ASSUME RowsAssumption ==
    /\ IsFiniteSet(Escalations)
    /\ Nobody \notin Processes
    /\ Escalations \cap {NoRow, Free} = {}
    /\ Key \in [Escalations -> Nat \ {0}]
    /\ \A e, f \in Escalations : Key[e] = Key[f] => e = f
    /\ Token \in [Escalations -> Tokens]
    /\ TokenExpiry \in [Escalations -> Nat]
    /\ Answers \in [Escalations -> SUBSET Kinds]
ASSUME LimitsAssumption ==
    /\ PageSize \in Nat \ {0}
    /\ ArmWindow \in Nat \ {0}
    /\ Ttl \in Nat \ {0}
    /\ MaxSkew \in Nat
    /\ Retention \in Nat
    /\ MaxClock \in Nat \ {0}
    /\ MaxJumps \in Nat
    /\ MaxBoots \in Nat

VARIABLES
    clock,       \* the wall clock both sidecars read
    armUntil,    \* end of the attested window in active_arm, 0 without a row
    disarmedBy,  \* the sidecar whose API deleted active_arm last
    status,      \* pending_escalations.status; "gone" once pruned
    answer,      \* council_response_json
    directive,   \* the row of directive_outbox in response to an escalation
    signings,    \* how many directives were ever filed for an escalation
    bound,       \* capability_token_consumptions: token_id to directive
    sweep,       \* hydration of a sidecar: "off", "running", "cut" or "done"
    cursor,      \* keyset watermark of the sweep
    page,        \* rows of the fetched page the sweep has yet to visit
    due,         \* rows staged when the sweep began that it has not visited
    row,         \* the row under recovery
    at,          \* how far its recovery is
    now,         \* now_ms of the directive it has signed, else 0
    jumps,       \* clock steps so far
    boots        \* boots so far

arm == <<armUntil, disarmedBy>>
tables == <<status, answer, directive, signings, bound>>
hydration == <<sweep, cursor, page, due>>
seam == <<row, at, now>>
time == <<clock, jumps>>
vars == <<time, arm, tables, hydration, seam, boots>>

NoDirective == [state |-> "none", created |-> 0, expires |-> 0]

EscStates == {"claimed", "council_response_staged", "outbox_written", "dismissed",
              "dead_lettered", "gone"}
DirStates == {"none", "staged", "dismissed", "ended"}
\* Steps of a recovery: the answer is in hand; the arm gate let it pass; so did the
\* capability check; the directive is signed.  The last three are inside the one call.
Steps == {"idle", "ready", "gated", "authorized", "signed"}

\* Types, and that a row is in a sidecar's hand exactly during its recovery and
\* the rows of its page lie behind the watermark.
TypeOK ==
    /\ clock \in 0..MaxClock
    /\ armUntil \in Nat
    /\ disarmedBy \in Processes \cup {Nobody}
    /\ status \in [Escalations -> EscStates]
    /\ answer \in [Escalations -> Kinds \cup {"none"}]
    /\ directive \in [Escalations -> [state : DirStates, created : Nat, expires : Nat]]
    /\ signings \in [Escalations -> Nat]
    /\ bound \in [Tokens -> Escalations \cup {Free}]
    /\ sweep \in [Processes -> {"off", "running", "cut", "done"}]
    /\ cursor \in [Processes -> Nat]
    /\ page \in [Processes -> SUBSET Escalations]
    /\ due \in [Processes -> SUBSET Escalations]
    /\ row \in [Processes -> Escalations \cup {NoRow}]
    /\ at \in [Processes -> Steps]
    /\ now \in [Processes -> 0..MaxClock]
    /\ jumps \in 0..MaxJumps
    /\ boots \in 0..MaxBoots
    /\ \A p \in Processes :
          /\ row[p] = NoRow <=> at[p] = "idle"
          /\ page[p] # {} => sweep[p] = "running"
          /\ \A e \in page[p] : Key[e] > cursor[p]

Init ==
    /\ clock = 1
    /\ armUntil = 0
    /\ disarmedBy = Nobody
    /\ status = [e \in Escalations |-> "claimed"]
    /\ answer = [e \in Escalations |-> "none"]
    /\ directive = [e \in Escalations |-> NoDirective]
    /\ signings = [e \in Escalations |-> 0]
    /\ bound = [t \in Tokens |-> Free]
    /\ sweep = [p \in Processes |-> "off"]
    /\ cursor = [p \in Processes |-> 0]
    /\ page = [p \in Processes |-> {}]
    /\ due = [p \in Processes |-> {}]
    /\ row = [p \in Processes |-> NoRow]
    /\ at = [p \in Processes |-> "idle"]
    /\ now = [p \in Processes |-> 0]
    /\ jumps = 0
    /\ boots = 0

Staged == {e \in Escalations : status[e] = "council_response_staged"}
Filed == {e \in Escalations : directive[e].state # "none"}

\* The connection of a sidecar serves one call at a time, and a recovery is one.
Available(p) == sweep[p] # "off" /\ at[p] \notin {"gated", "authorized", "signed"}

LetGo(p) ==
    /\ row' = [row EXCEPT ![p] = NoRow]
    /\ at' = [at EXCEPT ![p] = "idle"]
    /\ now' = [now EXCEPT ![p] = 0]

(***************************************************************************)
(* Arms and time                                                           *)
(***************************************************************************)
\* confirm_arm_attest writes active_arm, disarm deletes it.
Arm(p) ==
    /\ Available(p)
    /\ armUntil' = clock + ArmWindow
    /\ disarmedBy' = Nobody
    /\ UNCHANGED <<time, tables, hydration, seam, boots>>

Disarm(p) ==
    /\ Available(p)
    /\ armUntil # 0
    /\ armUntil' = 0
    /\ disarmedBy' = p
    /\ UNCHANGED <<time, tables, hydration, seam, boots>>

Tick ==
    /\ clock < MaxClock
    /\ clock' = clock + 1
    /\ UNCHANGED <<jumps, arm, tables, hydration, seam, boots>>

\* The host's clock is stepped, by NTP or by a suspended machine.
ClockStep ==
    /\ jumps < MaxJumps
    /\ jumps' = jumps + 1
    /\ \E c \in (1..MaxClock) \ {clock} : clock' = c
    /\ UNCHANGED <<arm, tables, hydration, seam, boots>>

(***************************************************************************)
(* Recovery of one row                                                     *)
(***************************************************************************)
\* Defect: the gate is left to the claim, which was arm-checked once.
ArmedAtClaim == TRUE

\* verify_arm_row: a row, signed under the boot registry, in its window.
Armed == armUntil > clock

\* The gate at the head of the recovery; a refusal holds the row as it is.
Gate(p) ==
    /\ at[p] = "ready"
    /\ IF Armed
       THEN at' = [at EXCEPT ![p] = "gated"] /\ UNCHANGED <<row, now>>
       ELSE LetGo(p)
    /\ UNCHANGED <<time, arm, tables, hydration, boots>>

\* The token names the row's own directive and is in its lifetime; its first
\* use binds its token_id to that directive, later ones must name the same.
InForce(e) == TokenExpiry[e] > clock

\* Defect: INSERT OR IGNORE without reading back whose binding stands.
BindUnread(e) == InForce(e)

Authorized(e) == InForce(e) /\ bound[Token[e]] \in {Free, e}

\* The envelope parses, the session id and the cost are there, and the proposal
\* answers this escalation.
WellFormed(e) == answer[e] # "garbled"

Executes(e) == answer[e] \in {"execute", "misshapen"}

\* Verdict, rationale, scope and the shared shape of proposals.
Shaped(e) == answer[e] # "misshapen"

\* A transaction of its own, with no guard on the status the row has by then.
DeadLetter(e) ==
    status' = IF status[e] = "gone" THEN status ELSE [status EXCEPT ![e] = "dead_lettered"]

\* The checks up to the token's.  A binding is committed before what follows it.
Validate(p) ==
    LET e == row[p] IN
    /\ at[p] = "gated"
    /\ bound' = IF WellFormed(e) /\ Executes(e) /\ InForce(e) /\ bound[Token[e]] = Free
                THEN [bound EXCEPT ![Token[e]] = e]
                ELSE bound
    /\ IF WellFormed(e) /\ (Executes(e) => Authorized(e))
       THEN at' = [at EXCEPT ![p] = "authorized"] /\ UNCHANGED <<status, row, now>>
       ELSE DeadLetter(e) /\ LetGo(p)
    /\ UNCHANGED <<time, arm, answer, directive, signings, hydration, boots>>

\* The checks behind it may still dead-letter the row, and the binding stays.  Then
\* the directive is signed, with the clock sampled ahead of the transaction.
Sign(p) ==
    /\ at[p] = "authorized"
    /\ IF Shaped(row[p])
       THEN /\ at' = [at EXCEPT ![p] = "signed"]
            /\ now' = [now EXCEPT ![p] = clock]
            /\ UNCHANGED <<status, row>>
       ELSE DeadLetter(row[p]) /\ LetGo(p)
    /\ UNCHANGED <<time, arm, answer, directive, signings, bound, hydration, boots>>

\* created_at_ms is moved past every directive of the tenant.
Floor == {directive[f].created : f \in Filed}

\* Defect: only a regression is moved, a tie stays.
StampsOnTie(sampled, c) ==
    /\ \A x \in Floor : x <= c
    /\ c = sampled \/ (c - 1 \in Floor /\ c - 1 > sampled)

Stamps(sampled, c) ==
    /\ \A x \in Floor : x < c
    /\ c = sampled \/ (c - 1 \in Floor /\ c - 1 >= sampled)

\* Defect: UNIQUE (tenant, in_response_to) is not there to collide with.
NoUniqueKey(e) == FALSE

Collides(e) == directive[e].state # "none"

\* The breaker looks at the skew before the insert meets the unique key; past it
\* the transaction rolls back and the row is held as it is.
HoldForSkew(sampled, c) ==
    /\ c - sampled > MaxSkew
    /\ UNCHANGED <<status, directive, signings>>

\* build_signed_outbox_row, its two stamps shifted alike.
SignedRow(e, c) ==
    [state |-> IF answer[e] = "dismiss" THEN "dismissed" ELSE "staged",
     created |-> c,
     expires |-> c + Ttl]

\* One transaction: the directive with its normalized stamps, the escalation's status,
\* unguarded.
FileDirective(e, sampled, c) ==
    /\ c - sampled <= MaxSkew
    /\ status[e] # "gone"
    /\ status' = [status EXCEPT ![e] = IF answer[e] = "dismiss" THEN "dismissed"
                                      ELSE "outbox_written"]
    /\ IF Collides(e)
       THEN UNCHANGED <<directive, signings>>
       ELSE /\ directive' = [directive EXCEPT ![e] = SignedRow(e, c)]
            /\ signings' = [signings EXCEPT ![e] = @ + 1]

File(p) ==
    /\ at[p] = "signed"
    /\ \E c \in {now[p]} \cup {x + 1 : x \in Floor} :
          /\ Stamps(now[p], c)
          /\ HoldForSkew(now[p], c) \/ FileDirective(row[p], now[p], c)
    /\ LetGo(p)
    /\ UNCHANGED <<time, arm, answer, bound, hydration, boots>>

\* A database error anywhere in the recovery ends the tick or the sweep.
RecoveryFails(p) ==
    /\ at[p] # "idle"
    /\ LetGo(p)
    /\ IF sweep[p] = "running"
       THEN /\ sweep' = [sweep EXCEPT ![p] = "cut"]
            /\ page' = [page EXCEPT ![p] = {}]
       ELSE UNCHANGED <<sweep, page>>
    /\ UNCHANGED <<time, arm, tables, cursor, due, boots>>

(***************************************************************************)
(* The two callers                                                         *)
(***************************************************************************)
\* The live tick stores the answer to its claim and goes on to recover it; it
\* reads the answer back first, in a call that does not look at the status.
StoreAnswer(p, e) ==
    /\ sweep[p] \in {"cut", "done"}
    /\ at[p] = "idle"
    /\ status[e] = "claimed"
    /\ status' = [status EXCEPT ![e] = "council_response_staged"]
    /\ \E k \in Answers[e] : answer' = [answer EXCEPT ![e] = k]
    /\ row' = [row EXCEPT ![p] = e]
    /\ at' = [at EXCEPT ![p] = "ready"]
    /\ UNCHANGED <<time, arm, directive, signings, bound, hydration, now, boots>>

Boot(p) ==
    /\ sweep[p] = "off"
    /\ boots < MaxBoots
    /\ boots' = boots + 1
    /\ sweep' = [sweep EXCEPT ![p] = "running"]
    /\ cursor' = [cursor EXCEPT ![p] = 0]
    /\ due' = [due EXCEPT ![p] = Staged]
    /\ UNCHANGED <<time, arm, tables, page, seam>>

\* Defect: a bare LIMIT, which rows that stay staged fill again and again.
UnvisitedByLimit(p) == Staged

\* Rows after the watermark.
Unvisited(p) == {e \in Staged : Key[e] > cursor[p]}

\* Defect: the page is not the first of its order.
AnyPage(p, rows) == rows \subseteq Unvisited(p) /\ Cardinality(rows) <= PageSize

IsPage(p, rows) ==
    /\ rows \subseteq Unvisited(p)
    /\ Cardinality(rows) <= PageSize
    /\ rows = Unvisited(p) \/ Cardinality(rows) = PageSize
    /\ \A e \in rows, f \in Unvisited(p) \ rows : Key[e] < Key[f]

FetchPage(p) ==
    /\ sweep[p] = "running"
    /\ at[p] = "idle"
    /\ page[p] = {}
    /\ \E rows \in SUBSET Unvisited(p) :
          /\ rows = {} => Unvisited(p) = {}
          /\ IsPage(p, rows)
          /\ page' = [page EXCEPT ![p] = rows]
          /\ sweep' = [sweep EXCEPT ![p] = IF rows = {} THEN "done" ELSE @]
    /\ UNCHANGED <<time, arm, tables, cursor, due, seam, boots>>

\* The watermark passes a row before the row is recovered.
NextOfPage(p) ==
    /\ sweep[p] = "running"
    /\ at[p] = "idle"
    /\ \E e \in page[p] :
          /\ \A f \in page[p] : Key[e] <= Key[f]
          /\ page' = [page EXCEPT ![p] = @ \ {e}]
          /\ cursor' = [cursor EXCEPT ![p] = Key[e]]
          /\ due' = [due EXCEPT ![p] = @ \ {e}]
          /\ row' = [row EXCEPT ![p] = e]
    /\ at' = [at EXCEPT ![p] = "ready"]
    /\ UNCHANGED <<time, arm, tables, sweep, now, boots>>

\* The deadline, looked at before a page and before a row.
Deadline(p) ==
    /\ sweep[p] = "running"
    /\ at[p] = "idle"
    /\ sweep' = [sweep EXCEPT ![p] = "cut"]
    /\ page' = [page EXCEPT ![p] = {}]
    /\ UNCHANGED <<time, arm, tables, cursor, due, seam, boots>>

Crash(p) ==
    /\ sweep[p] # "off"
    /\ sweep' = [sweep EXCEPT ![p] = "off"]
    /\ page' = [page EXCEPT ![p] = {}]
    /\ due' = [due EXCEPT ![p] = {}]
    /\ LetGo(p)
    /\ UNCHANGED <<time, arm, tables, cursor, boots>>

(***************************************************************************)
(* What becomes of a directive, and the hourly prune                       *)
(***************************************************************************)
\* Acked by a worker, or expired.
Settle(p, e) ==
    /\ Available(p)
    /\ directive[e].state = "staged"
    /\ directive' = [directive EXCEPT ![e].state = "ended"]
    /\ UNCHANGED <<time, arm, status, answer, signings, bound, hydration, seam, boots>>

InHand(e) == \E p \in Processes : e \in page[p] \/ row[p] = e

Childless(kept) == ~kept

\* Aged terminal directives, then aged terminal escalations without one.  The
\* retention (days) outlasts any recovery (30 s), so no row in hand is aged.
Prune(p) ==
    LET aged(e) == ~InHand(e) /\ directive[e].created + Retention < clock
        drop == {e \in Filed : aged(e) /\ directive[e].state # "staged"}
        orphaned == {e \in Escalations :
                        /\ status[e] \in {"outbox_written", "dismissed", "dead_lettered"}
                        /\ aged(e)
                        /\ Childless(e \in Filed \ drop)}
    IN
    /\ Available(p)
    /\ orphaned # {}
    /\ directive' = [e \in Escalations |-> IF e \in drop THEN NoDirective ELSE directive[e]]
    /\ status' = [e \in Escalations |-> IF e \in orphaned THEN "gone" ELSE status[e]]
    /\ UNCHANGED <<time, arm, answer, signings, bound, hydration, seam, boots>>

(***************************************************************************)
(* Specification                                                           *)
(***************************************************************************)
Recover(p) == Gate(p) \/ Validate(p) \/ Sign(p) \/ File(p)
Sweep(p) == FetchPage(p) \/ NextOfPage(p)

Next ==
    \/ Tick
    \/ ClockStep
    \/ \E p \in Processes :
          \/ Arm(p)
          \/ Disarm(p)
          \/ Boot(p)
          \/ Crash(p)
          \/ Sweep(p)
          \/ Deadline(p)
          \/ Recover(p)
          \/ RecoveryFails(p)
          \/ Prune(p)
          \/ \E e \in Escalations : StoreAnswer(p, e) \/ Settle(p, e)

Spec == Init /\ [][Next]_vars

\* The runtime keeps driving a sweep and a recovery it has begun.
Fairness == \A p \in Processes : WF_vars(Sweep(p) \/ Recover(p))
FairSpec == Spec /\ Fairness

(***************************************************************************)
(* The abstract view: the two tables, as the modules on either side of     *)
(* recovery know them.                                                     *)
(***************************************************************************)
RowState(e) ==
    IF status[e] = "claimed" THEN "open"
    ELSE IF status[e] = "council_response_staged" THEN "staged"
    ELSE IF status[e] = "gone" THEN "absent" ELSE "ended"

PendingEscalations == INSTANCE EscalationRows WITH
    Rows <- Escalations,
    NoAnswer <- "none",
    state <- [e \in Escalations |-> RowState(e)],
    answer <- [e \in Escalations |-> IF status[e] = "gone" THEN "none" ELSE answer[e]]

DirectiveState(e) ==
    IF directive[e].state = "staged" THEN "staged"
    ELSE IF directive[e].state # "none" THEN "ended"
    ELSE IF signings[e] > 0 THEN "pruned" ELSE "absent"

OutboxTable == INSTANCE DirectiveRows WITH
    Rows <- Escalations,
    state <- [e \in Escalations |-> DirectiveState(e)],
    created <- [e \in Escalations |-> directive[e].created]

(***************************************************************************)
(* Properties                                                              *)
(***************************************************************************)
\* However often a row is recovered, by two sidecars, after crashes and after
\* the prune, one directive at most is ever signed and filed for it.
OneDirective == \A e \in Escalations : signings[e] <= 1

\* Two execute directives never rest on one token_id, whichever sidecar
\* validated which of them first.
CapabilityOnce ==
    \A e, f \in Escalations :
        /\ e # f
        /\ {answer[e], answer[f]} = {"execute"}
        /\ signings[e] > 0 /\ signings[f] > 0
        => Token[e] # Token[f]

\* The prune leaves no directive without its escalation, though an escalation
\* may be dead-lettered under a directive that is still out.
NoOrphans == \A e \in Filed : status[e] # "gone"

\* A sweep that came to its end has visited every row that was staged when it
\* began and still is, however many rows it had to leave held.
SweepCovers ==
    \A p \in Processes : sweep[p] = "done" => due[p] \cap Staged = {}

NewlyFiled(e) == signings'[e] > signings[e]

\* The recovery of e by p ends in this step, past the signature.
Files(p, e) == row[p] = e /\ at[p] = "signed" /\ at'[p] = "idle"

\* A new directive is stamped after every other of the tenant, no further ahead of
\* the clock its signer sampled than the breaker allows, and keeps its whole window,
\* though another sidecar files, or the clock is stepped, between sample and insert.
FiledInOrder ==
    [][\A e \in Escalations : NewlyFiled(e) =>
          /\ \A f \in Filed : directive[f].created < directive'[e].created
          /\ \E p \in Processes :
                Files(p, e) /\ directive'[e].created - now[p] <= MaxSkew
          /\ directive'[e].expires - directive'[e].created = Ttl]_vars

\* A disarm through a sidecar's own API is final for what that sidecar signs:
\* none of its recoveries, live or at boot, files a directive until a new arm.
DisarmHonoured ==
    [][\A p \in Processes, e \in Escalations :
          NewlyFiled(e) /\ Files(p, e) => disarmedBy # p]_vars

\* A sweep ends although rows it cannot recover stay at the head of the table.
SweepsEnd == \A p \in Processes : []<>(sweep[p] # "running")

\* What that rests on: a running sweep raises its watermark with every row it takes,
\* so it takes none twice, whatever becomes of the rows meanwhile.
SweepAdvances ==
    [][\A p \in Processes :
          sweep[p] = "running" /\ sweep'[p] = "running" =>
             IF page[p] # {} /\ page'[p] # page[p]
             THEN cursor'[p] > cursor[p]
             ELSE cursor'[p] = cursor[p]]_vars

\* Seen from the dispatcher: recovery ends only rows that carry their answer, keeps
\* the answer as it was staged, and opens no row again.
AnswersAreKept == PendingEscalations!Spec

\* Seen from the outbox: directives are filed once and in the order of their stamps,
\* end once and are pruned only then.
DirectivesAreKept == OutboxTable!Spec
=============================================================================
