----------------------------- MODULE CdcEnqueue -----------------------------
(***************************************************************************)
(* The CDC producer.  Sentinels commit fires to watch_fires; the producer  *)
(* of an instance sweeps them in the order of their ids, in batches, and   *)
(* enqueues for each a row of pending_escalations under its causal key.    *)
(*                                                                         *)
(* Instances are processes over one watch.db.  The cursor and the count of *)
(* failures are memory of the producer's task: every start rescans from    *)
(* the oldest fire, and the causal key is what keeps a rescan from         *)
(* enqueuing twice.  An instance that lost the writer claim may sweep on   *)
(* until its watchdog stops it.                                            *)
(***************************************************************************)
EXTENDS FiniteSets, Integers, Sequences

CONSTANTS
    Instances,   \* uuids of sidecar processes
    Causes,      \* causal keys: content digests under tenant and sentinel
    TenantOf,    \* the tenant of a cause
    Feed,        \* bound: the causes of the fires the sentinels will commit
    Poison,      \* causes whose row SQLite refuses for its own bytes
    Cap,         \* WATCH_PENDING_ESCALATIONS_MAX_NONTERMINAL
    Batch,       \* MAX_SWEEP_PER_TICK
    SkipAfter,   \* POISON_SKIP_THRESHOLD
    MaxStarts    \* bound: starts of producers, of all instances

None == "none"

ASSUME EnqueueAssumption ==
    /\ IsFiniteSet(Instances) /\ None \notin Instances
    /\ IsFiniteSet(Causes)
    /\ Feed \in Seq(Causes)
    /\ Poison \subseteq Causes
    /\ Cap \in Nat \ {0} /\ Batch \in Nat \ {0} /\ SkipAfter \in Nat \ {0}
    /\ MaxStarts \in Nat

VARIABLES
    fired,       \* fires committed so far: ids 1..fired
    row,         \* pending_escalations by causal key: "none", "open" (queued,
                 \* claimed, staged or failed) or "ended"
    enqueued,    \* history: causes a row was ever inserted for
    holder,      \* writer_claim.instance_uuid
    live,        \* its heartbeat is younger than WRITER_CLAIM_STALE_MS
    producer,    \* "off", "idle", "sweeping" or "inserting"
    cursor,      \* the task's last_id, advanced by high_water; 0 for none
    upto,        \* the last fire of the batch it fetched
    fails,       \* poison_fails of the fire after the cursor
    strays,      \* history: rows inserted under a claim another holds live
    starts

claim == <<holder, live>>
queue == <<row, enqueued>>
task == <<cursor, upto, fails>>
vars == <<fired, queue, claim, producer, task, strays, starts>>

\* Types; a batch lies ahead of the cursor and behind the last commit.
TypeOK ==
    /\ fired \in 0..Len(Feed)
    /\ row \in [Causes -> {"none", "open", "ended"}]
    /\ enqueued \in SUBSET Causes
    /\ holder \in Instances \cup {None}
    /\ live \in BOOLEAN
    /\ producer \in [Instances -> {"off", "idle", "sweeping", "inserting"}]
    /\ cursor \in [Instances -> Nat]
    /\ upto \in [Instances -> Nat]
    /\ fails \in [Instances -> 0 .. SkipAfter - 1]
    /\ strays \in [Instances -> Nat]
    /\ starts \in 0..MaxStarts
    /\ \A p \in Instances :
          /\ cursor[p] <= fired
          /\ producer[p] \in {"sweeping", "inserting"} =>
                cursor[p] <= upto[p] /\ upto[p] <= fired
          /\ producer[p] = "inserting" => cursor[p] < upto[p]

Init ==
    /\ fired = 0
    /\ row = [c \in Causes |-> "none"]
    /\ enqueued = {}
    /\ holder = None
    /\ live = FALSE
    /\ producer = [p \in Instances |-> "off"]
    /\ cursor = [p \in Instances |-> 0]
    /\ upto = [p \in Instances |-> 0]
    /\ fails = [p \in Instances |-> 0]
    /\ strays = [p \in Instances |-> 0]
    /\ starts = 0

Open(t) == {c \in Causes : TenantOf[c] = t /\ row[c] = "open"}

(***************************************************************************)
(* Sentinels and consumers                                                 *)
(***************************************************************************)
\* insert_fire commits a fire under the next id.
InsertFire ==
    /\ fired < Len(Feed)
    /\ fired' = fired + 1
    /\ UNCHANGED <<queue, claim, producer, task, strays, starts>>

\* Recovery ends a row: its directive is filed, or it is dismissed or dead-lettered.
\* A row whose calls fail is retried without a ceiling: it stays open, for ever if
\* need be.
EndRow(c) ==
    /\ row[c] = "open"
    /\ row' = [row EXCEPT ![c] = "ended"]
    /\ UNCHANGED <<fired, enqueued, claim, producer, task, strays, starts>>

\* prune_terminal_rows deletes it seven days later, and its causal key with it.
Prune(c) ==
    /\ row[c] = "ended"
    /\ row' = [row EXCEPT ![c] = "none"]
    /\ UNCHANGED <<fired, enqueued, claim, producer, task, strays, starts>>

(***************************************************************************)
(* The writer claim and the producer's life                                *)
(***************************************************************************)
Acquirable(p) == holder \in {None, p} \/ ~live

\* An arm or a boot: the claim, then a task.
Start(p) ==
    /\ producer[p] = "off"
    /\ starts < MaxStarts
    /\ Acquirable(p)
    /\ starts' = starts + 1
    /\ holder' = p
    /\ live' = TRUE
    /\ producer' = [producer EXCEPT ![p] = "idle"]
    /\ strays' = [q \in Instances |-> 0]
    /\ UNCHANGED <<fired, queue, task>>

\* A disarm is seen between two rows; a crash comes anywhere.  Either way the
\* task's memory goes with it.
Stop(p) ==
    /\ producer[p] # "off"
    /\ producer' = [producer EXCEPT ![p] = "off"]
    /\ cursor' = [cursor EXCEPT ![p] = 0]
    /\ upto' = [upto EXCEPT ![p] = 0]
    /\ fails' = [fails EXCEPT ![p] = 0]
    /\ UNCHANGED <<fired, queue, claim, strays, starts>>

\* The watchdog of a producer whose claim was taken over stops it.
Deposed(p) == holder # p /\ Stop(p)

\* The holder misses its heartbeats, or comes round.
GoStale ==
    /\ live
    /\ live' = FALSE
    /\ strays' = [q \in Instances |-> 0]
    /\ UNCHANGED <<fired, queue, holder, producer, task, starts>>

Heartbeat ==
    /\ holder # None /\ producer[holder] # "off"
    /\ ~live
    /\ live' = TRUE
    /\ UNCHANGED <<fired, queue, holder, producer, task, strays, starts>>

(***************************************************************************)
(* A tick of the sweep                                                     *)
(***************************************************************************)
Foreign(p) == holder \notin {None, p} /\ live

\* Defect: a tick does not look at the claim.
Unfenced(p) == TRUE

Fenced(p) == ~Foreign(p)

BatchEnd(p) == IF cursor[p] + Batch < fired THEN cursor[p] + Batch ELSE fired

\* cdc_sweep_tick looks at the claim once, and fetches the fires past the cursor.
Tick(p) ==
    /\ producer[p] = "idle"
    /\ Fenced(p)
    /\ cursor[p] < fired
    /\ upto' = [upto EXCEPT ![p] = BatchEnd(p)]
    /\ producer' = [producer EXCEPT ![p] = "sweeping"]
    /\ UNCHANGED <<fired, queue, claim, cursor, fails, strays, starts>>

TickEnds(p) ==
    /\ producer[p] = "sweeping" /\ cursor[p] = upto[p]
    /\ producer' = [producer EXCEPT ![p] = "idle"]
    /\ upto' = [upto EXCEPT ![p] = 0]
    /\ UNCHANGED <<fired, queue, claim, cursor, fails, strays, starts>>

\* The fire at hand.
At(p) == Feed[cursor[p] + 1]

\* Ok and the skip forget the failures and advance.
Advance(p) ==
    /\ cursor' = [cursor EXCEPT ![p] = @ + 1]
    /\ fails' = [fails EXCEPT ![p] = 0]
    /\ producer' = [producer EXCEPT ![p] = "sweeping"]
    /\ UNCHANGED upto

\* The row is left for the next tick.
Break(p) ==
    /\ producer' = [producer EXCEPT ![p] = "idle"]
    /\ upto' = [upto EXCEPT ![p] = 0]
    /\ UNCHANGED cursor

\* Defect: the depth of the queue is not looked at.
AnyDepth(c) == TRUE

HasRoom(c) == Cardinality(Open(TenantOf[c])) < Cap

\* Defect: a row beyond the cap is one the cursor passes.
RefusedForGood(p) == Advance(p)

\* CapRefused is transient: the tick ends and nothing is counted.
Refused(p) == Break(p) /\ UNCHANGED fails

\* insert_pending_escalation_with_causal_dedup_capped counts the tenant's open
\* rows in a statement of its own, and inserts in another.
CountRoom(p) ==
    /\ producer[p] = "sweeping" /\ cursor[p] < upto[p]
    /\ HasRoom(At(p))
    /\ producer' = [producer EXCEPT ![p] = "inserting"]
    /\ UNCHANGED <<fired, queue, claim, task, strays, starts>>

\* At the cap a known cause is a duplicate, another one is refused.
CountFull(p) ==
    /\ producer[p] = "sweeping" /\ cursor[p] < upto[p]
    /\ ~HasRoom(At(p))
    /\ IF row[At(p)] # "none" THEN Advance(p) ELSE Refused(p)
    /\ UNCHANGED <<fired, queue, claim, strays, starts>>

\* Defect: INSERT OR REPLACE.
KeyReplaced(c) == FALSE

\* ON CONFLICT (tenant, sentinel_name, causal_fire_id) DO NOTHING.
KeyTaken(c) == row[c] # "none"

Insert(p) ==
    LET c == At(p) IN
    /\ producer[p] = "inserting"
    /\ c \notin Poison
    /\ Advance(p)
    /\ IF KeyTaken(c)
       THEN UNCHANGED <<queue, strays>>
       ELSE /\ row' = [row EXCEPT ![c] = "open"]
            /\ enqueued' = enqueued \cup {c}
            /\ strays' = [strays EXCEPT ![p] = IF Foreign(p) THEN @ + 1 ELSE @]
    /\ UNCHANGED <<fired, claim, starts>>

\* Defect: a poisoned row is retried for ever.
NeverSkips(p) == FALSE

\* cdc_poison_should_skip, for the failure being counted.
Skips(p) == fails[p] + 1 >= SkipAfter

\* A deterministic failure is counted; the row is retried, then skipped.
InsertPoisoned(p) ==
    /\ producer[p] = "inserting"
    /\ At(p) \in Poison
    /\ IF Skips(p)
       THEN Advance(p)
       ELSE /\ Break(p)
            /\ fails' = [fails EXCEPT ![p] = IF @ + 1 < SkipAfter THEN @ + 1 ELSE @]
    /\ UNCHANGED <<fired, queue, claim, strays, starts>>

\* A busy, locked or failing database is transient.
Fault(p) ==
    /\ producer[p] \in {"sweeping", "inserting"} /\ cursor[p] < upto[p]
    /\ Break(p)
    /\ UNCHANGED <<fired, queue, claim, fails, strays, starts>>

(***************************************************************************)
(* Specification                                                           *)
(***************************************************************************)
Next ==
    \/ InsertFire
    \/ \E c \in Causes : EndRow(c) \/ Prune(c)
    \/ GoStale \/ Heartbeat
    \/ \E p \in Instances :
          \/ Start(p) \/ Stop(p)
          \/ Tick(p) \/ TickEnds(p)
          \/ CountRoom(p) \/ CountFull(p)
          \/ Insert(p) \/ InsertPoisoned(p) \/ Fault(p)

Spec == Init /\ [][Next]_vars

\* Ticks come round and watchdogs see a lost claim; a database that fails now and
\* then does not fail every attempt.  Nothing makes an open row end.
Fairness ==
    \A p \in Instances :
        /\ WF_vars(Deposed(p))
        /\ WF_vars(Tick(p) \/ TickEnds(p))
        /\ SF_vars(CountRoom(p) \/ CountFull(p))
        /\ SF_vars(Insert(p) \/ InsertPoisoned(p))
FairSpec == Spec /\ Fairness

(***************************************************************************)
(* Properties                                                              *)
(***************************************************************************)
\* The cursor passes no fire whose cause was never enqueued: neither the cap, nor
\* a failing database, nor a restart or takeover drops an escalation.  Only a row
\* that SQLite refuses for its own bytes is given up.
NothingDropped ==
    \A p \in Instances : \A f \in 1..cursor[p] : Feed[f] \in enqueued \cup Poison

\* An escalation that ended is not opened again by a rescan, a second fire of its
\* cause or a deposed producer, as long as its row is kept.
EndsOnce == [][\A c \in Causes : row[c] = "ended" => row'[c] # "open"]_vars

\* The open rows of a tenant exceed the cap by what the other producers counted
\* room for at the same time, and by no more.
CapHonoured ==
    \A c \in Causes :
        Cardinality(Open(TenantOf[c])) <= Cap + Cardinality(Instances) - 1

\* A producer whose claim another instance holds live ends its batch at most.
StraysBounded == \A p \in Instances : strays[p] <= Batch

\* The producer is held up by a tenant at its cap: the fire at hand is new.
Stalled(p) ==
    /\ producer[p] # "off" /\ cursor[p] < fired
    /\ ~HasRoom(At(p)) /\ row[At(p)] = "none"

\* While a producer stays on, time and again every committed fire has reached the
\* queue, past poisoned rows, duplicates, restarts, takeovers and a failing database:
\* the only thing that holds a producer up is a new fire of a tenant whose queue is
\* full just then.  That stall is meant to last until the queue is drained, and holds
\* up the fires of other tenants behind it.
FiresReachQueue ==
    []<>(\/ \A f \in 1..fired : Feed[f] \in enqueued \cup Poison
         \/ \A p \in Instances : producer[p] = "off"
         \/ \E p \in Instances : Stalled(p))
=============================================================================
