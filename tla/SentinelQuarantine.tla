------------------------- MODULE SentinelQuarantine -------------------------
(***************************************************************************)
(* The circuit breaker of one sentinel: the runner's fire pipeline, the    *)
(* ladder of quarantines that ends in a hard kill, the retry of a hard     *)
(* kill that could not be persisted, force wakes and the admin's clear.    *)
(*                                                                         *)
(* The breaker is kept twice, in a record in memory and in the sentinel's  *)
(* row of watch.db.  The database runs what it is sent first in, first     *)
(* out, also what its sender no longer waits for.  The op_lock of the      *)
(* sentinel is held over each write of both.                               *)
(*                                                                         *)
(* An absent record behaves as a fresh one, and is one here.  Deadlines    *)
(* pass by steps of their own.                                             *)
(***************************************************************************)
EXTENDS FiniteSets, Integers, Sequences

CONSTANTS
    Wakes,             \* force wakes served at the same time
    FailsToTrigger,    \* fails_to_trigger
    KillAfter,         \* hard_kill_after_cycles
    Successes,         \* hysteresis_successes
    MaxFaults          \* bound: failing statements, time-outs, vanished admins, restarts

ASSUME QuarantineAssumption ==
    /\ IsFiniteSet(Wakes) /\ Wakes \cap {"runner", "retry", "admin", "nobody"} = {}
    /\ FailsToTrigger \in Nat \ {0} /\ KillAfter \in Nat \ {0}
    /\ Successes \in Nat \ {0}
    /\ MaxFaults \in Nat

VARIABLES
    rec,         \* the record in memory
    dbKilled,    \* watch_sentinels.hard_killed_at is set
    dbProbation, \* watch_sentinels.probation_until lies ahead
    lock,        \* holder of the op_lock
    at,          \* where each task is
    queue,       \* statements sent to the database
    outcome,     \* what its clear found: "healthy", "killed" or "probation"
    decided,     \* history: a hard kill was decided, and not cleared since
    late,        \* history: fires written since under a hard kill
    faults

memory == <<rec, lock, at, outcome>>
database == <<dbKilled, dbProbation, queue>>
history == <<decided, late, faults>>
vars == <<memory, database, history>>

Actors == {"runner", "retry", "admin"} \cup Wakes

Fresh == [fails |-> 0, succ |-> 0, cycles |-> 0, ladder |-> FALSE, window |-> "none",
          blocked |-> FALSE, ended |-> "never", killed |-> FALSE, pending |-> FALSE,
          probation |-> FALSE]

\* ladder: duration_ms > 0; window: cycles_window_start and whether an hour passed;
\* blocked: quarantined_until lies ahead; ended: last_quarantine_end and whether
\* twice the backoff passed.
Record ==
    [fails : 0 .. FailsToTrigger - 1, succ : 0 .. Successes, cycles : Nat,
     ladder : BOOLEAN, window : {"none", "open", "over"}, blocked : BOOLEAN,
     ended : {"never", "fresh", "long"}, killed : BOOLEAN, pending : BOOLEAN,
     probation : BOOLEAN]

Statement == [op : {"fire", "kill", "clear"}, by : Actors, awaited : BOOLEAN,
              known : BOOLEAN, skip : BOOLEAN]

Places ==
    {"idle", "observing", "escalating", "writing", "written", "waiting", "sent",
     "done", "failed"}

\* Types; a kill is pending or mirrored, never both; who holds the lock has a
\* statement out or its answer at hand.
TypeOK ==
    /\ rec \in Record
    /\ dbKilled \in BOOLEAN /\ dbProbation \in BOOLEAN
    /\ lock \in {"runner", "retry", "admin", "nobody"}
    /\ at \in [Actors -> Places]
    /\ queue \in Seq(Statement)
    /\ outcome \in {"healthy", "killed", "probation"}
    /\ decided \in BOOLEAN /\ late \in Nat
    /\ faults \in 0..MaxFaults
    /\ ~(rec.killed /\ rec.pending)
    /\ \A a \in Actors : a = lock <=> at[a] \in {"sent", "done", "failed"}

Init ==
    /\ rec = Fresh
    /\ dbKilled = FALSE /\ dbProbation = FALSE
    /\ lock = "nobody"
    /\ at = [a \in Actors |-> "idle"]
    /\ queue = <<>>
    /\ outcome = "healthy"
    /\ decided = FALSE /\ late = 0
    /\ faults = 0

(***************************************************************************)
(* The gate                                                                *)
(***************************************************************************)
\* Defect: a kill that is not persisted does not block.
KilledOnly == rec.killed

\* is_blocked: HardKilled, also while the kill waits to be persisted.
HardKilled == rec.killed \/ rec.pending

Quarantined == ~rec.probation /\ rec.blocked

Blocked == HardKilled \/ Quarantined

\* Defect: the end of a quarantine is not noted.
Unstamped == rec

\* The first look after a quarantine ran out notes its end.
Stamped ==
    IF ~HardKilled /\ ~rec.probation /\ ~rec.blocked /\ rec.ended = "never" /\ rec.ladder
    THEN [rec EXCEPT !.ended = "fresh"]
    ELSE rec

\* is_blocked lets the task through to its next step, or stops it.
Pass(a, place) ==
    /\ rec' = Stamped
    /\ at' = [at EXCEPT ![a] = IF Blocked THEN "idle" ELSE place]
    /\ UNCHANGED <<lock, outcome, database, history>>

\* known: the record was killed; skip: the admin's reset_probation.
SendClearing(a, known, skip) ==
    queue' = Append(queue, [op |-> "clear", by |-> a, awaited |-> TRUE,
                            known |-> known, skip |-> skip])

Send(op, a) ==
    queue' = Append(queue, [op |-> op, by |-> a, awaited |-> TRUE,
                            known |-> FALSE, skip |-> FALSE])

\* The sender stops waiting; the statement stays in the queue.
Abandoned(a) ==
    [i \in DOMAIN queue |->
        IF queue[i].by = a THEN [queue[i] EXCEPT !.awaited = FALSE] ELSE queue[i]]

Fault == faults < MaxFaults /\ faults' = faults + 1

(***************************************************************************)
(* The runner                                                              *)
(***************************************************************************)
Tick == at["runner"] = "idle" /\ Pass("runner", "observing")

\* Observed and interesting: the gate is looked at again.
Interesting == at["runner"] = "observing" /\ Pass("runner", "escalating")

\* record_success; counting stops at hysteresis_successes.
AfterSuccess ==
    IF rec.succ + 1 >= Successes /\ rec.ended = "long" /\ ~rec.pending
    THEN Fresh
    ELSE [rec EXCEPT !.succ = IF @ < Successes THEN @ + 1 ELSE @,
                     !.fails = IF @ > 0 THEN @ - 1 ELSE 0]

\* A quiet tick, or a fire that was written, counts as a success.
Succeed ==
    /\ at["runner"] \in {"observing", "written"}
    /\ rec' = AfterSuccess
    /\ at' = [at EXCEPT !["runner"] = "idle"]
    /\ UNCHANGED <<lock, outcome, database, history>>

\* An error, a panic or a spent budget: record_failure waits for the lock.
Fail ==
    /\ at["runner"] \in {"observing", "escalating"}
    /\ at' = [at EXCEPT !["runner"] = "waiting"]
    /\ UNCHANGED <<rec, lock, outcome, database, history>>

Escalate(a) ==
    /\ a \in {"runner"} \cup Wakes
    /\ at[a] = "escalating"
    /\ at' = [at EXCEPT ![a] = "writing"]
    /\ Send("fire", a)
    /\ UNCHANGED <<rec, lock, outcome, dbKilled, dbProbation, history>>

\* The audit budget runs out, which is no failure of the sentinel, or the budget
\* of the whole tick, which is.
WriteTimesOut(a) ==
    /\ a \in {"runner"} \cup Wakes
    /\ at[a] = "writing"
    /\ Fault
    /\ \/ at' = [at EXCEPT ![a] = "idle"]
       \/ a = "runner" /\ at' = [at EXCEPT ![a] = "waiting"]
    /\ queue' = Abandoned(a)
    /\ UNCHANGED <<rec, lock, outcome, dbKilled, dbProbation, decided, late>>

\* A force wake skips observe and interesting; its fire counts for nothing.
ForceWake(w) == at[w] = "idle" /\ Pass(w, "escalating")

WakeFails(w) ==
    /\ at[w] = "escalating"
    /\ at' = [at EXCEPT ![w] = "idle"]
    /\ UNCHANGED <<rec, lock, outcome, database, history>>

(***************************************************************************)
(* The ladder                                                              *)
(***************************************************************************)
Triggers == rec.fails + 1 >= FailsToTrigger

NextCycle == IF rec.ladder THEN rec.cycles + 1 ELSE 0

\* hard_kill_after_cycles quarantines within the window.
Kills == Triggers /\ rec.window # "over" /\ NextCycle + 1 >= KillAfter

\* A longer backoff may put off the moment twice of it has passed.
AfterFailure ==
    IF ~Triggers
    THEN {[rec EXCEPT !.fails = @ + 1, !.succ = 0]}
    ELSE {[rec EXCEPT !.fails = 0, !.succ = 0, !.ladder = TRUE, !.blocked = TRUE,
                      !.cycles = IF rec.window = "over" THEN 0 ELSE NextCycle,
                      !.window = "open",
                      !.ended = ended] :
             ended \in IF rec.ended = "long" THEN {"fresh", "long"} ELSE {rec.ended}}

\* record_failure takes the lock, climbs the ladder, and sends the kill.
RecordFailure ==
    /\ at["runner"] = "waiting" /\ lock = "nobody"
    /\ rec' \in AfterFailure
    /\ IF Kills
       THEN /\ lock' = "runner"
            /\ at' = [at EXCEPT !["runner"] = "sent"]
            /\ Send("kill", "runner")
            /\ decided' = TRUE
       ELSE /\ at' = [at EXCEPT !["runner"] = "idle"]
            /\ UNCHANGED <<lock, queue, decided>>
    /\ UNCHANGED <<outcome, dbKilled, dbProbation, late, faults>>

\* Defect: the pending flag stays.
StillFlagged == [rec EXCEPT !.killed = TRUE]

\* The kill is mirrored, or waits to be persisted.
Mirrored == [rec EXCEPT !.killed = TRUE, !.pending = FALSE]

Release(a) == lock' = "nobody" /\ at' = [at EXCEPT ![a] = "idle"]

KillPersisted(a) ==
    /\ a \in {"runner", "retry"} /\ at[a] = "done"
    /\ rec' = Mirrored
    /\ Release(a)
    /\ UNCHANGED <<outcome, database, history>>

KillRefused(a) ==
    /\ a \in {"runner", "retry"} /\ at[a] = "failed"
    /\ rec' = IF a = "runner" THEN [rec EXCEPT !.pending = TRUE] ELSE rec
    /\ Release(a)
    /\ UNCHANGED <<outcome, database, history>>

(***************************************************************************)
(* pending_retry_loop                                                      *)
(***************************************************************************)
\* pending_hard_kill_keys, from which the tick retries each.
RetryTick ==
    /\ at["retry"] = "idle" /\ rec.pending
    /\ at' = [at EXCEPT !["retry"] = "waiting"]
    /\ UNCHANGED <<rec, lock, outcome, database, history>>

\* Defect: the snapshot of the tick is not looked at again.
OldSnapshot == TRUE

StillPending == rec.pending

RetryOnce ==
    /\ at["retry"] = "waiting" /\ lock = "nobody"
    /\ IF StillPending
       THEN /\ lock' = "retry"
            /\ at' = [at EXCEPT !["retry"] = "sent"]
            /\ Send("kill", "retry")
       ELSE /\ at' = [at EXCEPT !["retry"] = "idle"]
            /\ UNCHANGED <<lock, queue>>
    /\ UNCHANGED <<rec, outcome, dbKilled, dbProbation, history>>

\* RETRY_DB_BUDGET runs out before the statement or its answer is through.
RetryTimesOut ==
    /\ at["retry"] \in {"sent", "done"}
    /\ Fault
    /\ Release("retry")
    /\ queue' = Abandoned("retry")
    /\ UNCHANGED <<rec, outcome, dbKilled, dbProbation, decided, late>>

(***************************************************************************)
(* admin_clear_quarantine                                                  *)
(***************************************************************************)
\* The handler waits for the lock with nothing at hand, which is left out.
SendClear ==
    /\ at["admin"] = "idle" /\ lock = "nobody"
    /\ lock' = "admin"
    /\ at' = [at EXCEPT !["admin"] = "sent"]
    /\ \E skip \in BOOLEAN : SendClearing("admin", rec.killed, skip)
    /\ UNCHANGED <<rec, outcome, dbKilled, dbProbation, history>>

\* A record with a quarantine behind it is kept, and keeps its place on the ladder.
Cleared ==
    IF outcome # "probation" /\ rec.ended = "never"
    THEN Fresh
    ELSE [rec EXCEPT !.killed = FALSE, !.pending = FALSE, !.blocked = FALSE,
                     !.cycles = 0, !.window = "none", !.fails = 0, !.succ = 0,
                     !.probation = (outcome = "probation")]

MirrorClear ==
    /\ at["admin"] = "done"
    /\ rec' = Cleared
    /\ Release("admin")
    /\ outcome' = "healthy"
    /\ decided' = FALSE /\ late' = 0
    /\ UNCHANGED <<database, faults>>

ClearRefused ==
    /\ at["admin"] = "failed"
    /\ Release("admin")
    /\ UNCHANGED <<rec, outcome, database, history>>

\* The client of the request goes away, and its handler with the lock it holds.
AdminGone ==
    /\ at["admin"] \in {"sent", "done"}
    /\ Fault
    /\ Release("admin")
    /\ queue' = Abandoned("admin")
    /\ outcome' = "healthy"
    /\ UNCHANGED <<rec, dbKilled, dbProbation, decided, late>>

(***************************************************************************)
(* The database                                                            *)
(***************************************************************************)
\* clear_hard_kill_and_set_probation
FoundKilled(s) == dbKilled \/ s.known

Found(s) ==
    IF ~FoundKilled(s) THEN "healthy" ELSE IF s.skip THEN "killed" ELSE "probation"

Inserts == ~dbKilled

Answer(s, place) ==
    at' = IF s.awaited THEN [at EXCEPT ![s.by] = place] ELSE at

Execute ==
    /\ queue # <<>>
    /\ queue' = Tail(queue)
    /\ LET s == Head(queue) IN
       \/ /\ s.op = "fire"
          /\ late' = IF Inserts /\ (rec.killed \/ rec.pending) THEN late + 1 ELSE late
          /\ Answer(s, IF s.by = "runner" /\ Inserts THEN "written" ELSE "idle")
          /\ UNCHANGED <<dbKilled, dbProbation, outcome>>
       \/ /\ s.op = "kill"
          /\ dbKilled' = TRUE
          /\ Answer(s, "done")
          /\ UNCHANGED <<dbProbation, outcome, late>>
       \/ /\ s.op = "clear"
          /\ dbKilled' = FALSE
          /\ dbProbation' = (Found(s) = "probation")
          /\ outcome' = IF s.awaited THEN Found(s) ELSE outcome
          /\ Answer(s, "done")
          /\ UNCHANGED late
    /\ UNCHANGED <<rec, lock, decided, faults>>

\* The statement fails: the database is busy or cannot write.
ExecuteFails ==
    /\ queue # <<>>
    /\ Fault
    /\ queue' = Tail(queue)
    /\ LET s == Head(queue) IN Answer(s, IF s.op = "fire" THEN "idle" ELSE "failed")
    /\ UNCHANGED <<rec, lock, outcome, dbKilled, dbProbation, decided, late>>

(***************************************************************************)
(* Time and restarts                                                       *)
(***************************************************************************)
\* The backoff passes, the window passes, or twice the backoff.
Elapse ==
    /\ \/ rec.blocked /\ rec' = [rec EXCEPT !.blocked = FALSE]
       \/ rec.window = "open" /\ rec' = [rec EXCEPT !.window = "over"]
       \/ rec.ended = "fresh" /\ rec' = [rec EXCEPT !.ended = "long"]
    /\ UNCHANGED <<lock, at, outcome, database, history>>

ProbationEnds ==
    /\ rec.probation \/ dbProbation
    /\ rec' = [rec EXCEPT !.probation = FALSE]
    /\ dbProbation' = FALSE
    /\ UNCHANGED <<lock, at, outcome, dbKilled, queue, history>>

\* Defect: hard kills are not read back.
Forgotten == Fresh

\* hydrate_probation_from_db, then hydrate_hard_kill_from_db, which must succeed.
Hydrated == [Fresh EXCEPT !.killed = dbKilled, !.probation = dbProbation /\ ~dbKilled]

\* A kill that was never persisted is forgotten with the process.
Restart ==
    /\ Fault
    /\ \/ rec' = Hydrated
       \/ rec' = [Hydrated EXCEPT !.probation = FALSE]
    /\ lock' = "nobody"
    /\ at' = [a \in Actors |-> "idle"]
    /\ queue' = <<>>
    /\ outcome' = "healthy"
    /\ decided' = dbKilled /\ late' = 0
    /\ UNCHANGED <<dbKilled, dbProbation>>

(***************************************************************************)
(* Specification                                                           *)
(***************************************************************************)
Runner ==
    \/ Tick \/ Interesting \/ Succeed \/ Fail
    \/ Escalate("runner") \/ WriteTimesOut("runner")
    \/ RecordFailure \/ KillPersisted("runner") \/ KillRefused("runner")

Retry ==
    RetryTick \/ RetryOnce \/ RetryTimesOut \/ KillPersisted("retry") \/ KillRefused("retry")

Answered == MirrorClear \/ ClearRefused \/ AdminGone

Next ==
    \/ Runner \/ Retry \/ SendClear \/ Answered
    \/ \E w \in Wakes : ForceWake(w) \/ WakeFails(w) \/ Escalate(w) \/ WriteTimesOut(w)
    \/ Execute \/ ExecuteFails
    \/ Elapse \/ ProbationEnds
    \/ Restart

Spec == Init /\ [][Next]_vars

\* The tasks run on, the database works off its queue, and time passes; the op_lock,
\* a mutex of tokio, passes it on in the order asked.  Nobody has to wake or clear a
\* sentinel.
Fairness ==
    /\ WF_vars(Runner) /\ WF_vars(Retry) /\ WF_vars(Answered)
    /\ SF_vars(RecordFailure) /\ SF_vars(RetryOnce)
    /\ WF_vars(Execute) /\ WF_vars(Elapse) /\ WF_vars(ProbationEnds)

FairSpec == Spec /\ Fairness

(***************************************************************************)
(* Properties                                                              *)
(***************************************************************************)
\* The gate is never more open than the database: a sentinel that is hard-killed in
\* its row is so in memory, after lost answers, races and restarts; only
\* record_failure, between its two writes, lags behind.
GateAgrees == dbKilled /\ lock # "runner" => HardKilled

\* A clear that was answered is final: no retry or late statement kills the sentinel
\* again before it has climbed the ladder again.
ClearIsFinal == dbKilled \/ HardKilled => decided

\* Under a hard kill, persisted or not, no fire is written but those of wakes that
\* had passed the gate before, and one more for each that timed out meanwhile.
LateFiresBounded == late <= Cardinality(Wakes) + faults

\* What the two below rest on: whoever waits for the database has its statement in the
\* queue still, so neither the op_lock nor a fire is held by a lost statement, however
\* callers time out, clients leave and statements fail.
NobodyForgotten ==
    \A a \in Actors :
        at[a] \in {"writing", "sent"} =>
            \E i \in DOMAIN queue : queue[i].by = a /\ queue[i].awaited

\* A hard kill the database refused is persisted in the end, or cleared, or forgotten
\* in a restart.
KillsPersist == rec.pending ~> ~rec.pending

\* A sentinel that fails no more, and is not cleared for ever, comes off the ladder,
\* or was killed.
LadderDecays ==
    \/ []<>(~rec.ladder \/ HardKilled)
    \/ []<><<RecordFailure \/ MirrorClear>>_vars
=============================================================================
