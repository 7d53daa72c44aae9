----------------------- MODULE SentinelQuarantineProofs -----------------------
(***************************************************************************)
(* Proofs about SentinelQuarantine: memory and database agree on a hard    *)
(* kill, and a clear is final, for every number of force wakes and faults. *)
(***************************************************************************)
EXTENDS SentinelQuarantine, FiniteSetTheorems, TLAPS

(***************************************************************************)
(* The inductive invariant.  GateAgrees alone is not inductive: a retry    *)
(* whose caller gave up is still in the database's queue, and kills when   *)
(* it comes to its turn, so it says what the queue may hold.               *)
(***************************************************************************)
\* Who sends what.
SendersKnown ==
    \A i \in DOMAIN queue :
        /\ queue[i].op = "fire" => queue[i].by \in {"runner"} \cup Wakes
        /\ queue[i].op = "kill" => queue[i].by \in {"runner", "retry"}
        /\ queue[i].op = "clear" => queue[i].by = "admin"

\* An awaited statement has its sender waiting.
SendersWait ==
    \A i \in DOMAIN queue :
        queue[i].awaited =>
            at[queue[i].by] = IF queue[i].op = "fire" THEN "writing" ELSE "sent"

\* No one waits for two.
OneAwaited ==
    \A i, j \in DOMAIN queue :
        queue[i].awaited /\ queue[j].awaited /\ queue[i].by = queue[j].by => i = j

\* Behind a clear whose admin still waits there is no kill.
NoKillBehindClear ==
    \A i, j \in DOMAIN queue :
        queue[i].op = "clear" /\ queue[i].awaited /\ i < j => queue[j].op # "kill"

\* A clear that is through and not mirrored found or left nothing to kill.
ClearedForGood ==
    at["admin"] = "done" =>
        ~dbKilled /\ \A i \in DOMAIN queue : queue[i].op # "kill"

\* Each kill on its way is one the gate knows of, or record_failure's own.
KillsKnown ==
    (\E i \in DOMAIN queue : queue[i].op = "kill") => HardKilled \/ lock = "runner"

\* A hard-killed sentinel's runner is at its gate.
KilledRunnerIdle == HardKilled => at["runner"] = "idle"

\* A retry at work has the pending flag before it.
RetryOfPending == at["retry"] \in {"sent", "done", "failed"} => rec.pending

KillDecided == lock = "runner" => decided

QueueInv ==
    SendersKnown /\ SendersWait /\ NobodyForgotten /\ OneAwaited /\ NoKillBehindClear
KillInv == ClearedForGood /\ KillsKnown /\ KilledRunnerIdle /\ RetryOfPending /\ KillDecided
IInv == TypeOK /\ QueueInv /\ KillInv /\ GateAgrees /\ ClearIsFinal

LEMMA Names == Actors \cap {"nobody"} = {} /\ "admin" \notin Wakes /\ "retry" \notin Wakes
                /\ "runner" \notin Wakes
BY QuarantineAssumption DEF Actors

LEMMA InitInv == Init => IInv
<1> SUFFICES ASSUME Init PROVE IInv
    OBVIOUS
<1>1. TypeOK
  <2>1. rec \in Record
      BY QuarantineAssumption DEF Init, Record, Fresh
  <2>2. queue \in Seq(Statement)
      BY DEF Init
  <2>3. \A a \in Actors : a # "nobody" /\ at[a] = "idle"
      BY Names DEF Init
  <2>4. at \in [Actors -> Places]
      BY DEF Init, Places
  <2>5. 0 \in 0..MaxFaults /\ ~(rec.killed /\ rec.pending)
      BY QuarantineAssumption DEF Init, Fresh
  <2> QED
      BY <2>1, <2>2, <2>3, <2>4, <2>5 DEF Init, TypeOK
<1>2. QueueInv
    BY DEF Init, QueueInv, SendersKnown, SendersWait, NobodyForgotten, OneAwaited,
           NoKillBehindClear
<1>3. KillInv /\ GateAgrees /\ ClearIsFinal
    BY DEF Init, Fresh, HardKilled, GateAgrees, ClearIsFinal, KillInv, ClearedForGood,
           KillsKnown, KilledRunnerIdle, RetryOfPending, KillDecided, Actors
<1> QED
    BY <1>1, <1>2, <1>3 DEF IInv

(***************************************************************************)
(* What a step does to the queue                                           *)
(***************************************************************************)
LEMMA QueueOfStatements ==
    ASSUME TypeOK
    PROVE  /\ Len(queue) \in Nat /\ DOMAIN queue = 1..Len(queue)
           /\ \A i \in DOMAIN queue : queue[i] \in Statement
BY DEF TypeOK

LEMMA AfterAppend ==
    ASSUME TypeOK, NEW s \in Statement, queue' = Append(queue, s)
    PROVE  /\ queue' \in Seq(Statement)
           /\ DOMAIN queue' = 1..Len(queue) + 1
           /\ \A i \in DOMAIN queue' :
                  \/ i \in DOMAIN queue /\ queue'[i] = queue[i]
                  \/ i = Len(queue) + 1 /\ queue'[i] = s
BY DEF TypeOK

LEMMA AfterTail ==
    ASSUME TypeOK, queue # <<>>, queue' = Tail(queue)
    PROVE  /\ queue' \in Seq(Statement)
           /\ Head(queue) \in Statement /\ 1 \in DOMAIN queue /\ Head(queue) = queue[1]
           /\ DOMAIN queue' = 1..Len(queue) - 1
           /\ \A i \in DOMAIN queue' : i + 1 \in DOMAIN queue /\ queue'[i] = queue[i + 1]
BY DEF TypeOK

LEMMA AfterAbandon ==
    ASSUME TypeOK, NEW a \in Actors, queue' = Abandoned(a)
    PROVE  /\ queue' \in Seq(Statement)
           /\ DOMAIN queue' = DOMAIN queue
           /\ \A i \in DOMAIN queue :
                  /\ queue'[i].op = queue[i].op /\ queue'[i].by = queue[i].by
                  /\ queue'[i].awaited <=> queue[i].awaited /\ queue[i].by # a
<1>1. \A i \in DOMAIN queue : queue[i] \in Statement
    BY QueueOfStatements
<1>2. \A i \in DOMAIN queue :
          /\ [queue[i] EXCEPT !.awaited = FALSE] \in Statement
          /\ [queue[i] EXCEPT !.awaited = FALSE].op = queue[i].op
          /\ [queue[i] EXCEPT !.awaited = FALSE].by = queue[i].by
          /\ ~[queue[i] EXCEPT !.awaited = FALSE].awaited
    BY <1>1 DEF Statement
<1>3. DOMAIN queue = 1..Len(queue) /\ Len(queue) \in Nat
    BY QueueOfStatements
<1>4. \A i \in DOMAIN queue : queue'[i] \in Statement
    BY <1>1, <1>2 DEF Abandoned
<1>5. queue' = [i \in 1..Len(queue) |-> queue'[i]]
    BY <1>3 DEF Abandoned
<1>6. queue' \in Seq(Statement)
    BY <1>3, <1>4, <1>5
<1> QED
    BY <1>1, <1>2, <1>6 DEF Abandoned, Statement

LEMMA MoveQueue ==
    ASSUME TypeOK, QueueInv, NEW a \in Actors, NEW place,
           at[a] \notin {"writing", "sent"}, place \notin {"writing", "sent"},
           at' = [at EXCEPT ![a] = place], UNCHANGED queue
    PROVE  QueueInv'
<1>1. \A i \in DOMAIN queue : queue[i].by \in Actors
    BY QueueOfStatements DEF Statement
<1>2. \A i \in DOMAIN queue : queue[i].awaited => queue[i].by # a
    BY DEF QueueInv, SendersWait
<1>3. SendersWait'
    BY <1>1, <1>2 DEF QueueInv, SendersWait, TypeOK
<1>4. NobodyForgotten'
    BY DEF QueueInv, NobodyForgotten, TypeOK
<1> QED
    BY <1>3, <1>4 DEF QueueInv, SendersKnown, OneAwaited, NoKillBehindClear

LEMMA AppendQueue ==
    ASSUME TypeOK, QueueInv, NEW s \in Statement, s.awaited,
           at[s.by] \notin {"writing", "sent"},
           queue' = Append(queue, s),
           at' = [at EXCEPT ![s.by] = IF s.op = "fire" THEN "writing" ELSE "sent"],
           s.op = "fire" => s.by \in {"runner"} \cup Wakes,
           s.op = "kill" => s.by \in {"runner", "retry"} /\ at["admin"] # "sent",
           s.op = "clear" => s.by = "admin"
    PROVE  QueueInv'
<1> USE AfterAppend, QueueOfStatements
<1>1. \A i \in DOMAIN queue : queue[i].by \in Actors /\ queue[i].op \in {"fire", "kill", "clear"}
    BY DEF Statement
<1>2. \A i \in DOMAIN queue : queue[i].awaited => queue[i].by # s.by
    BY DEF QueueInv, SendersWait
<1>3. s.by \in Actors
    BY DEF Statement
<1>4. SendersKnown'
    BY DEF QueueInv, SendersKnown
<1>5. SendersWait'
    BY <1>1, <1>2, <1>3 DEF QueueInv, SendersWait, TypeOK
<1>6. OneAwaited'
    BY <1>2 DEF QueueInv, OneAwaited
<1>8. NobodyForgotten'
  <2> SUFFICES ASSUME NEW a \in Actors, at'[a] \in {"writing", "sent"}
               PROVE  \E i \in DOMAIN queue' : queue'[i].by = a /\ queue'[i].awaited
      BY DEF NobodyForgotten
  <2>1. Len(queue) + 1 \in DOMAIN queue' /\ queue'[Len(queue) + 1] = s
      BY DEF TypeOK
  <2>2. CASE a = s.by
      BY <2>1, <2>2
  <2>3. CASE a # s.by
    <3>1. at[a] \in {"writing", "sent"}
        BY <2>3 DEF TypeOK
    <3>2. PICK i \in DOMAIN queue : queue[i].by = a /\ queue[i].awaited
        BY <3>1 DEF QueueInv, NobodyForgotten
    <3>3. i \in DOMAIN queue' /\ queue'[i] = queue[i]
        BY DEF TypeOK
    <3> QED
        BY <3>2, <3>3
  <2> QED
      BY <2>2, <2>3
<1>7. NoKillBehindClear'
  <2> SUFFICES ASSUME NEW i \in DOMAIN queue', NEW j \in DOMAIN queue',
                      queue'[i].op = "clear", queue'[i].awaited, i < j
               PROVE  queue'[j].op # "kill"
      BY DEF NoKillBehindClear
  <2>1. i \in DOMAIN queue /\ queue'[i] = queue[i]
      OBVIOUS
  <2>2. CASE j \in DOMAIN queue /\ queue'[j] = queue[j]
      BY <2>1, <2>2 DEF QueueInv, NoKillBehindClear
  <2>3. CASE queue'[j] = s
    <3>1. at["admin"] = "sent"
        BY <2>1 DEF QueueInv, SendersKnown, SendersWait
    <3> QED
        BY <2>3, <3>1
  <2> QED
      BY <2>2, <2>3
<1> QED
    BY <1>4, <1>5, <1>6, <1>7, <1>8 DEF QueueInv

LEMMA AbandonQueue ==
    ASSUME TypeOK, QueueInv, NEW a \in Actors, NEW place,
           place \notin {"writing", "sent"},
           queue' = Abandoned(a), at' = [at EXCEPT ![a] = place]
    PROVE  QueueInv'
<1> USE AfterAbandon
<1>1. \A i \in DOMAIN queue : queue[i].by \in Actors
    BY QueueOfStatements DEF Statement
<1>2. SendersWait'
    BY <1>1 DEF QueueInv, SendersWait, TypeOK
<1>3. NobodyForgotten'
    BY DEF QueueInv, NobodyForgotten, TypeOK
<1> QED
    BY <1>2, <1>3 DEF QueueInv, SendersKnown, OneAwaited, NoKillBehindClear

LEMMA TailQueue ==
    ASSUME TypeOK, QueueInv, queue # <<>>, queue' = Tail(queue), NEW place,
           place \notin {"writing", "sent"}, Answer(Head(queue), place)
    PROVE  QueueInv'
<1> USE AfterTail, QueueOfStatements
<1>1. \A i \in DOMAIN queue : queue[i].by \in Actors
    BY DEF Statement
<1>2. SendersKnown'
    BY DEF QueueInv, SendersKnown
<1>3. OneAwaited'
    BY DEF QueueInv, OneAwaited
<1>4. NoKillBehindClear'
    BY DEF QueueInv, NoKillBehindClear
<1>5. SendersWait'
  <2> SUFFICES ASSUME NEW i \in DOMAIN queue', queue'[i].awaited
               PROVE  at'[queue'[i].by] =
                          IF queue'[i].op = "fire" THEN "writing" ELSE "sent"
      BY DEF SendersWait
  <2>1. i + 1 \in DOMAIN queue /\ i + 1 # 1 /\ queue'[i] = queue[i + 1]
      OBVIOUS
  <2>2. Head(queue).awaited => queue[i + 1].by # Head(queue).by
      BY <2>1 DEF QueueInv, OneAwaited
  <2>3. at'[queue[i + 1].by] = at[queue[i + 1].by]
      BY <1>1, <2>1, <2>2 DEF Answer, TypeOK
  <2> QED
      BY <2>1, <2>3 DEF QueueInv, SendersWait
<1>6. NobodyForgotten'
  <2> SUFFICES ASSUME NEW a \in Actors, at'[a] \in {"writing", "sent"}
               PROVE  \E i \in DOMAIN queue' : queue'[i].by = a /\ queue'[i].awaited
      BY DEF NobodyForgotten
  <2>1. at[a] \in {"writing", "sent"} /\ ~(Head(queue).awaited /\ Head(queue).by = a)
      BY <1>1 DEF Answer, TypeOK
  <2>2. PICK i \in DOMAIN queue : queue[i].by = a /\ queue[i].awaited
      BY <2>1 DEF QueueInv, NobodyForgotten
  <2>3. i # 1
      BY <2>1, <2>2
  <2>4. i - 1 \in DOMAIN queue' /\ queue'[i - 1] = queue[i]
      BY <2>3 DEF TypeOK
  <2> QED
      BY <2>2, <2>4
<1> QED
    BY <1>2, <1>3, <1>4, <1>5, <1>6 DEF QueueInv

(***************************************************************************)
(* Types                                                                   *)
(***************************************************************************)
Held == {"sent", "done", "failed"}

\* Who holds the lock has a statement out or its answer at hand.
HolderAtWork == \A a \in Actors : a = lock <=> at[a] \in Held

LEMMA PlaceTyped ==
    ASSUME TypeOK, NEW a \in Actors, NEW place \in Places,
           at' = [at EXCEPT ![a] = place],
           \/ UNCHANGED lock /\ (place \in Held <=> at[a] \in Held)
           \/ lock = "nobody" /\ lock' = a /\ place \in Held
           \/ lock' = "nobody" /\ at[a] \in Held /\ place \notin Held
    PROVE  at' \in [Actors -> Places] /\ HolderAtWork'
<1>1. at' \in [Actors -> Places]
    BY DEF TypeOK
<1>2. \A b \in Actors : b # "nobody"
    BY Names
<1>3. ASSUME NEW b \in Actors PROVE b = lock' <=> at'[b] \in Held
  <2>1. b = lock <=> at[b] \in Held
      BY DEF TypeOK, Held
  <2>2. CASE b = a
      BY <1>2, <2>1, <2>2 DEF TypeOK
  <2>3. CASE b # a
    <3>1. at'[b] = at[b]
        BY <2>3 DEF TypeOK
    <3>2. CASE UNCHANGED lock
        BY <2>1, <3>1, <3>2
    <3>3. CASE lock = "nobody" /\ lock' = a
        BY <1>2, <2>1, <2>3, <3>1, <3>3
    <3>4. CASE lock' = "nobody" /\ at[a] \in Held
      <4>1. a = lock
          BY <3>4 DEF TypeOK, Held
      <4> QED
          BY <1>2, <2>1, <2>3, <3>1, <3>4, <4>1
    <3> QED
        BY <3>2, <3>3, <3>4
  <2> QED
      BY <2>2, <2>3
<1> QED
    BY <1>1, <1>3 DEF HolderAtWork

LEMMA FreshTyped == Fresh \in Record
BY QuarantineAssumption DEF Fresh, Record

\* Records over any counters, which keeps their ranges from the updates.
Records(F, S) ==
    [fails : F, succ : S, cycles : Nat,
     ladder : BOOLEAN, window : {"none", "open", "over"}, blocked : BOOLEAN,
     ended : {"never", "fresh", "long"}, killed : BOOLEAN, pending : BOOLEAN,
     probation : BOOLEAN]

LEMMA UpdatesTyped ==
    ASSUME NEW F, NEW S, NEW r \in Records(F, S), NEW f \in F, NEW s \in S,
           NEW c \in Nat, NEW e \in {"never", "fresh", "long"}, NEW p \in BOOLEAN
    PROVE  /\ [r EXCEPT !.fails = f, !.succ = s] \in Records(F, S)
           /\ [r EXCEPT !.succ = s, !.fails = f] \in Records(F, S)
           /\ [r EXCEPT !.fails = f, !.succ = s, !.ladder = TRUE, !.blocked = TRUE,
                        !.cycles = c, !.window = "open", !.ended = e] \in Records(F, S)
           /\ [r EXCEPT !.killed = FALSE, !.pending = FALSE, !.blocked = FALSE,
                        !.cycles = c, !.window = "none", !.fails = f, !.succ = s,
                        !.probation = p] \in Records(F, S)
BY DEF Records

LEMMA CountersTyped ==
    ASSUME NEW f \in 0 .. FailsToTrigger - 1, NEW s \in 0 .. Successes, NEW c \in Nat,
           NEW e \in {"never", "fresh", "long"}, NEW p \in BOOLEAN, rec \in Record
    PROVE  /\ [rec EXCEPT !.fails = f, !.succ = s] \in Record
           /\ [rec EXCEPT !.succ = s, !.fails = f] \in Record
           /\ [rec EXCEPT !.fails = f, !.succ = s, !.ladder = TRUE, !.blocked = TRUE,
                          !.cycles = c, !.window = "open", !.ended = e] \in Record
           /\ [rec EXCEPT !.killed = FALSE, !.pending = FALSE, !.blocked = FALSE,
                          !.cycles = c, !.window = "none", !.fails = f, !.succ = s,
                          !.probation = p] \in Record
<1>1. Record = Records(0 .. FailsToTrigger - 1, 0 .. Successes)
    BY DEF Record, Records
<1> HIDE DEF Record
<1> QED
    BY <1>1, UpdatesTyped

LEMMA RecordTyped ==
    ASSUME rec \in Record
    PROVE  /\ Stamped \in Record
           /\ AfterSuccess \in Record
           /\ \A r \in AfterFailure : r \in Record
           /\ Mirrored \in Record
           /\ Cleared \in Record
           /\ [rec EXCEPT !.pending = TRUE] \in Record
           /\ [rec EXCEPT !.probation = FALSE] \in Record
           /\ [rec EXCEPT !.blocked = FALSE] \in Record
           /\ [rec EXCEPT !.window = "over"] \in Record
           /\ [rec EXCEPT !.ended = "long"] \in Record
<1>0. 0 \in 0 .. FailsToTrigger - 1 /\ 0 \in 0 .. Successes /\ 0 \in Nat
    BY QuarantineAssumption
<1>1. Stamped \in Record
    BY DEF Stamped, Record
<1>2. AfterSuccess \in Record
  <2> DEFINE succ == IF rec.succ < Successes THEN rec.succ + 1 ELSE rec.succ
             fails == IF rec.fails > 0 THEN rec.fails - 1 ELSE 0
  <2>1. succ \in 0 .. Successes /\ fails \in 0 .. FailsToTrigger - 1
      BY QuarantineAssumption DEF Record
  <2>2. AfterSuccess \in {Fresh, [rec EXCEPT !.succ = succ, !.fails = fails]}
      BY DEF AfterSuccess
  <2> HIDE DEF succ, fails
  <2>3. [rec EXCEPT !.succ = succ, !.fails = fails] \in Record
      BY <2>1, CountersTyped
  <2> QED
      BY <2>2, <2>3, FreshTyped
<1>3. \A r \in AfterFailure : r \in Record
  <2>1. NextCycle \in Nat
      BY DEF NextCycle, Record
  <2>2. CASE ~Triggers
    <3>1. rec.fails + 1 \in 0 .. FailsToTrigger - 1
        BY <2>2, QuarantineAssumption DEF Triggers, Record
    <3>2. AfterFailure = {[rec EXCEPT !.fails = rec.fails + 1, !.succ = 0]}
        BY <2>2 DEF AfterFailure
    <3>3. [rec EXCEPT !.fails = rec.fails + 1, !.succ = 0] \in Record
        BY <1>0, <3>1, CountersTyped, Zenon
    <3> QED
        BY <3>2, <3>3
  <2>3. CASE Triggers
    <3> DEFINE cycles == IF rec.window = "over" THEN 0 ELSE NextCycle
    <3>1. cycles \in Nat
        BY <2>1
    <3> HIDE DEF cycles
    <3>2. \A ended \in {"never", "fresh", "long"} :
              [rec EXCEPT !.fails = 0, !.succ = 0, !.ladder = TRUE, !.blocked = TRUE,
                          !.cycles = cycles, !.window = "open", !.ended = ended]
                  \in Record
        BY <1>0, <3>1, CountersTyped, Zenon
    <3>3. rec.ended \in {"never", "fresh", "long"}
        BY DEF Record
    <3> QED
        BY <2>3, <3>2, <3>3 DEF AfterFailure, cycles
  <2> QED
      BY <2>2, <2>3
<1>4. Mirrored \in Record
    BY DEF Mirrored, Record
<1>5. Cleared \in Record
  <2>1. ASSUME NEW probation \in BOOLEAN
        PROVE  [rec EXCEPT !.killed = FALSE, !.pending = FALSE, !.blocked = FALSE,
                           !.cycles = 0, !.window = "none", !.fails = 0, !.succ = 0,
                           !.probation = probation] \in Record
      BY <1>0, CountersTyped, Zenon
  <2>2. (outcome = "probation") \in BOOLEAN
      OBVIOUS
  <2> QED
      BY <2>1, <2>2, FreshTyped, Zenon DEF Cleared
<1>6. /\ [rec EXCEPT !.pending = TRUE] \in Record
      /\ [rec EXCEPT !.probation = FALSE] \in Record
      /\ [rec EXCEPT !.blocked = FALSE] \in Record
      /\ [rec EXCEPT !.window = "over"] \in Record
      /\ [rec EXCEPT !.ended = "long"] \in Record
    BY DEF Record
<1> QED
    BY <1>1, <1>2, <1>3, <1>4, <1>5, <1>6

LEMMA SendTyped ==
    ASSUME TypeOK, NEW op \in {"fire", "kill"}, NEW a \in Actors, Send(op, a)
    PROVE  /\ queue' \in Seq(Statement)
           /\ \E s \in Statement :
                  s.op = op /\ s.by = a /\ s.awaited /\ queue' = Append(queue, s)
<1> DEFINE s == [op |-> op, by |-> a, awaited |-> TRUE, known |-> FALSE, skip |-> FALSE]
<1>1. s \in Statement
    BY DEF Statement
<1>2. s.op = op /\ s.by = a /\ s.awaited /\ queue' = Append(queue, s)
    BY DEF Send
<1> HIDE DEF s
<1> QED
    BY <1>1, <1>2, AfterAppend

LEMMA SendClearingTyped ==
    ASSUME TypeOK, NEW known \in BOOLEAN, NEW skip \in BOOLEAN,
           SendClearing("admin", known, skip)
    PROVE  /\ queue' \in Seq(Statement)
           /\ \E s \in Statement :
                  s.op = "clear" /\ s.by = "admin" /\ s.awaited /\ queue' = Append(queue, s)
<1> DEFINE s == [op |-> "clear", by |-> "admin", awaited |-> TRUE,
                 known |-> known, skip |-> skip]
<1>1. s \in Statement
    BY DEF Statement, Actors
<1>2. s.op = "clear" /\ s.by = "admin" /\ s.awaited /\ queue' = Append(queue, s)
    BY DEF SendClearing
<1> HIDE DEF s
<1> QED
    BY <1>1, <1>2, AfterAppend

\* The parts a step's types come in.
LEMMA TypeFrom ==
    ASSUME rec' \in Record, ~(rec.killed /\ rec.pending)',
           at' \in [Actors -> Places], HolderAtWork',
           lock' \in {"runner", "retry", "admin", "nobody"},
           queue' \in Seq(Statement),
           dbKilled' \in BOOLEAN, dbProbation' \in BOOLEAN,
           outcome' \in {"healthy", "killed", "probation"},
           decided' \in BOOLEAN, late' \in Nat, faults' \in 0..MaxFaults
    PROVE  TypeOK'
BY DEF TypeOK, HolderAtWork, Held

LEMMA FaultTyped == ASSUME TypeOK, Fault PROVE faults' \in 0..MaxFaults
BY QuarantineAssumption DEF TypeOK, Fault

\* A kill is pending or mirrored, never both, whatever becomes of the record.
LEMMA NeverBoth ==
    ASSUME TypeOK
    PROVE  /\ ~(Stamped.killed /\ Stamped.pending)
           /\ ~(AfterSuccess.killed /\ AfterSuccess.pending)
           /\ \A r \in AfterFailure : ~(r.killed /\ r.pending)
           /\ ~Mirrored.pending /\ Mirrored.killed
           /\ ~Cleared.pending /\ ~Cleared.killed
<1>1. rec \in Record /\ ~(rec.killed /\ rec.pending)
    BY DEF TypeOK
<1>2. ~(Stamped.killed /\ Stamped.pending)
    BY <1>1 DEF Stamped, Record
<1>3. AfterSuccess \in {Fresh} \/ (AfterSuccess.killed = rec.killed /\ AfterSuccess.pending = rec.pending)
    BY <1>1 DEF AfterSuccess, Record
<1>4. \A r \in AfterFailure : r.killed = rec.killed /\ r.pending = rec.pending
    BY <1>1 DEF AfterFailure, Record
<1>5. ~Mirrored.pending /\ Mirrored.killed
    BY <1>1 DEF Mirrored, Record
<1>6. ~Cleared.pending /\ ~Cleared.killed
    BY <1>1 DEF Cleared, Fresh, Record
<1> QED
    BY <1>1, <1>2, <1>3, <1>4, <1>5, <1>6 DEF Fresh

\* The head of the queue, answered, leaves every task in its place.
LEMMA AnswerTyped ==
    ASSUME TypeOK, QueueInv, queue # <<>>, NEW place,
           Head(queue).op = "fire" => place \in {"written", "idle"},
           Head(queue).op # "fire" => place \in {"done", "failed"},
           Answer(Head(queue), place), UNCHANGED lock
    PROVE  at' \in [Actors -> Places] /\ HolderAtWork'
<1>1. Head(queue) \in Statement /\ 1 \in DOMAIN queue /\ Head(queue) = queue[1]
    BY DEF TypeOK
<1>2. Head(queue).by \in Actors
    BY <1>1 DEF Statement
<1>3. CASE Head(queue).awaited
  <2>1. at[Head(queue).by] = IF Head(queue).op = "fire" THEN "writing" ELSE "sent"
      BY <1>1, <1>3 DEF QueueInv, SendersWait
  <2>2. place \in Places /\ (place \in Held <=> at[Head(queue).by] \in Held)
      BY <2>1 DEF Places, Held
  <2> QED
      BY <1>2, <1>3, <2>2, PlaceTyped DEF Answer
<1>4. CASE ~Head(queue).awaited
    BY <1>4 DEF Answer, TypeOK, HolderAtWork, Held
<1> QED
    BY <1>3, <1>4

LEMMA TypeStep == IInv /\ [Next]_vars => TypeOK'
<1> SUFFICES ASSUME IInv, [Next]_vars PROVE TypeOK'
    OBVIOUS
<1>0. TypeOK /\ QueueInv
    BY DEF IInv
<1> USE <1>0, QueueOfStatements, NeverBoth, Names
<1>a. rec \in Record /\ queue \in Seq(Statement) /\ HolderAtWork
    BY DEF TypeOK, HolderAtWork, Held
<1>r. "runner" \in Actors /\ "retry" \in Actors /\ "admin" \in Actors /\ Wakes \subseteq Actors
    BY DEF Actors
<1>1. ASSUME NEW a \in Actors, NEW place \in {"observing", "escalating"}, Pass(a, place),
             at[a] \in {"idle", "observing"}
      PROVE  TypeOK'
  <2>1. DEFINE to == IF Blocked THEN "idle" ELSE place
  <2>2. to \in Places /\ to \notin Held /\ at[a] \notin Held
      BY <1>1 DEF Places, Held
  <2>3. at' = [at EXCEPT ![a] = to] /\ UNCHANGED lock
      BY <1>1 DEF Pass
  <2> HIDE DEF to
  <2>4. at' \in [Actors -> Places] /\ HolderAtWork'
      BY <2>2, <2>3, PlaceTyped
  <2> QED
      BY <1>1, <1>a, <2>4, RecordTyped, TypeFrom DEF Pass, TypeOK, database, history
<1>2. CASE Tick
    BY <1>2, <1>1, <1>r DEF Tick
<1>3. CASE Interesting
    BY <1>3, <1>1, <1>r DEF Interesting
<1>4. CASE Succeed
  <2>1. at' \in [Actors -> Places] /\ HolderAtWork'
      BY <1>4, <1>r, PlaceTyped DEF Succeed, Places, Held
  <2> QED
      BY <1>4, <1>a, <2>1, RecordTyped, TypeFrom DEF Succeed, TypeOK, database, history
<1>5. CASE Fail
  <2>1. at' \in [Actors -> Places] /\ HolderAtWork'
      BY <1>5, <1>r, PlaceTyped DEF Fail, Places, Held
  <2> QED
      BY <1>5, <2>1, TypeFrom DEF Fail, TypeOK, database, history
<1>6. ASSUME NEW a \in {"runner"} \cup Wakes, Escalate(a) PROVE TypeOK'
  <2>1. at' \in [Actors -> Places] /\ HolderAtWork'
      BY <1>6, <1>r, PlaceTyped DEF Escalate, Places, Held
  <2>2. queue' \in Seq(Statement)
      BY <1>6, <1>r, SendTyped DEF Escalate
  <2> QED
      BY <1>6, <2>1, <2>2, TypeFrom DEF Escalate, TypeOK, history
<1>7. ASSUME NEW a \in {"runner"} \cup Wakes, WriteTimesOut(a) PROVE TypeOK'
  <2>1. at' \in [Actors -> Places] /\ HolderAtWork'
    <3>1. PICK place \in {"idle", "waiting"} : at' = [at EXCEPT ![a] = place]
        BY <1>7 DEF WriteTimesOut
    <3> QED
        BY <1>7, <1>r, <3>1, PlaceTyped DEF WriteTimesOut, Places, Held
  <2>2. queue' \in Seq(Statement)
      BY <1>7, <1>r, AfterAbandon DEF WriteTimesOut
  <2>3. faults' \in 0..MaxFaults
      BY <1>7, FaultTyped DEF WriteTimesOut
  <2> QED
      BY <1>7, <2>1, <2>2, <2>3, TypeFrom DEF WriteTimesOut, TypeOK
<1>8. CASE RecordFailure
  <2>1. CASE Kills
    <3>1. at' \in [Actors -> Places] /\ HolderAtWork'
        BY <1>8, <2>1, <1>r, PlaceTyped DEF RecordFailure, Places, Held
    <3>2. queue' \in Seq(Statement)
        BY <1>8, <2>1, <1>r, SendTyped DEF RecordFailure
    <3>3. rec' \in Record /\ ~(rec.killed /\ rec.pending)'
        BY <1>8, <1>a, RecordTyped DEF RecordFailure
    <3> QED
        BY <1>8, <2>1, <3>1, <3>2, <3>3, TypeFrom DEF RecordFailure, TypeOK
  <2>2. CASE ~Kills
    <3>1. at' \in [Actors -> Places] /\ HolderAtWork'
        BY <1>8, <2>2, <1>r, PlaceTyped DEF RecordFailure, Places, Held
    <3>3. rec' \in Record /\ ~(rec.killed /\ rec.pending)'
        BY <1>8, <1>a, RecordTyped DEF RecordFailure
    <3> QED
        BY <1>8, <2>2, <3>1, <3>3, TypeFrom DEF RecordFailure, TypeOK
  <2> QED
      BY <2>1, <2>2
<1>9. ASSUME NEW a \in {"runner", "retry"}, KillPersisted(a) PROVE TypeOK'
  <2>1. at' \in [Actors -> Places] /\ HolderAtWork'
      BY <1>9, <1>r, PlaceTyped DEF KillPersisted, Release, Places, Held
  <2> QED
      BY <1>9, <1>a, <2>1, RecordTyped, TypeFrom
      DEF KillPersisted, Release, TypeOK, database, history
<1>10. ASSUME NEW a \in {"runner", "retry"}, KillRefused(a) PROVE TypeOK'
  <2>1. at' \in [Actors -> Places] /\ HolderAtWork'
      BY <1>10, <1>r, PlaceTyped DEF KillRefused, Release, Places, Held
  <2>2. a = "runner" => ~rec.killed
    <3>1. a = "runner" => at["runner"] # "idle"
        BY <1>10 DEF KillRefused
    <3> QED
        BY <3>1 DEF IInv, KillInv, KilledRunnerIdle, HardKilled
  <2>3. rec' \in Record
      BY <1>10, <1>a, RecordTyped DEF KillRefused
  <2>4. ~(rec.killed /\ rec.pending)'
      BY <1>10, <1>a, <2>2 DEF KillRefused, Record, TypeOK
  <2> QED
      BY <1>10, <2>1, <2>3, <2>4, TypeFrom
      DEF KillRefused, Release, TypeOK, database, history
<1>11. CASE RetryTick
  <2>1. at' \in [Actors -> Places] /\ HolderAtWork'
      BY <1>11, <1>r, PlaceTyped DEF RetryTick, Places, Held
  <2> QED
      BY <1>11, <2>1, TypeFrom DEF RetryTick, TypeOK, database, history
<1>12. CASE RetryOnce
  <2>1. at' \in [Actors -> Places] /\ HolderAtWork'
    <3>1. CASE StillPending
        BY <1>12, <3>1, <1>r, PlaceTyped DEF RetryOnce, Places, Held
    <3>2. CASE ~StillPending
        BY <1>12, <3>2, <1>r, PlaceTyped DEF RetryOnce, Places, Held
    <3> QED
        BY <3>1, <3>2
  <2>2. queue' \in Seq(Statement)
    <3>1. CASE StillPending
        BY <1>12, <3>1, <1>r, SendTyped DEF RetryOnce
    <3>2. CASE ~StillPending
        BY <1>12, <3>2, <1>a DEF RetryOnce
    <3> QED
        BY <3>1, <3>2
  <2> QED
      BY <1>12, <2>1, <2>2, TypeFrom DEF RetryOnce, TypeOK, history
<1>13. CASE RetryTimesOut
  <2>1. at' \in [Actors -> Places] /\ HolderAtWork'
      BY <1>13, <1>r, PlaceTyped DEF RetryTimesOut, Release, Places, Held
  <2>2. queue' \in Seq(Statement) /\ faults' \in 0..MaxFaults
      BY <1>13, <1>r, AfterAbandon, FaultTyped DEF RetryTimesOut
  <2> QED
      BY <1>13, <2>1, <2>2, TypeFrom DEF RetryTimesOut, Release, TypeOK
<1>14. CASE SendClear
  <2>1. at' \in [Actors -> Places] /\ HolderAtWork'
      BY <1>14, <1>r, PlaceTyped DEF SendClear, Places, Held
  <2>2. queue' \in Seq(Statement)
    <3>1. rec.killed \in BOOLEAN
        BY <1>a DEF Record
    <3>2. PICK skip \in BOOLEAN : SendClearing("admin", rec.killed, skip)
        BY <1>14 DEF SendClear
    <3> QED
        BY <3>1, <3>2, SendClearingTyped
  <2> QED
      BY <1>14, <2>1, <2>2, TypeFrom DEF SendClear, TypeOK, history
<1>15. CASE MirrorClear
  <2>1. at' \in [Actors -> Places] /\ HolderAtWork'
      BY <1>15, <1>r, PlaceTyped DEF MirrorClear, Release, Places, Held
  <2> QED
      BY <1>15, <1>a, <2>1, RecordTyped, TypeFrom DEF MirrorClear, Release, TypeOK, database
<1>16. CASE ClearRefused
  <2>1. at' \in [Actors -> Places] /\ HolderAtWork'
      BY <1>16, <1>r, PlaceTyped DEF ClearRefused, Release, Places, Held
  <2> QED
      BY <1>16, <2>1, TypeFrom DEF ClearRefused, Release, TypeOK, database, history
<1>17. CASE AdminGone
  <2>1. at' \in [Actors -> Places] /\ HolderAtWork'
      BY <1>17, <1>r, PlaceTyped DEF AdminGone, Release, Places, Held
  <2>2. queue' \in Seq(Statement) /\ faults' \in 0..MaxFaults
      BY <1>17, <1>r, AfterAbandon, FaultTyped DEF AdminGone
  <2> QED
      BY <1>17, <2>1, <2>2, TypeFrom DEF AdminGone, Release, TypeOK
<1>18. ASSUME NEW w \in Wakes, ForceWake(w) PROVE TypeOK'
    BY <1>18, <1>1, <1>r DEF ForceWake
<1>19. ASSUME NEW w \in Wakes, WakeFails(w) PROVE TypeOK'
  <2>1. at' \in [Actors -> Places] /\ HolderAtWork'
      BY <1>19, <1>r, PlaceTyped DEF WakeFails, Places, Held
  <2> QED
      BY <1>19, <2>1, TypeFrom DEF WakeFails, TypeOK, database, history
<1>20. CASE Execute
  <2> DEFINE s == Head(queue)
  <2>1. queue # <<>> /\ queue' = Tail(queue) /\ UNCHANGED <<rec, lock, decided, faults>>
      BY <1>20 DEF Execute
  <2>2. queue' \in Seq(Statement) /\ s \in Statement
      BY <2>1, AfterTail
  <2>3. PICK place : /\ s.op = "fire" => place \in {"written", "idle"}
                     /\ s.op # "fire" => place \in {"done", "failed"}
                     /\ Answer(s, place)
    <3>1. CASE s.op = "fire"
        BY <1>20, <3>1 DEF Execute
    <3>2. CASE s.op # "fire"
        BY <1>20, <3>2 DEF Execute
    <3> QED
        BY <3>1, <3>2
  <2>4. at' \in [Actors -> Places] /\ HolderAtWork'
      BY <2>1, <2>3, AnswerTyped
  <2>5. Found(s) \in {"healthy", "killed", "probation"}
      BY DEF Found
  <2>6. late' \in Nat /\ dbKilled' \in BOOLEAN
    <3>1. late \in Nat /\ dbKilled \in BOOLEAN
        BY DEF TypeOK
    <3>2. late' \in {late, late + 1} /\ dbKilled' \in {dbKilled, TRUE, FALSE}
        BY <1>20 DEF Execute
    <3>3. late' \in Nat
        BY <3>1, <3>2
    <3>4. dbKilled' \in BOOLEAN
        BY <3>1, <3>2, Zenon
    <3> QED
        BY <3>3, <3>4
  <2>7. dbProbation' \in BOOLEAN /\ outcome' \in {"healthy", "killed", "probation"}
      BY <1>20, <2>5 DEF Execute, TypeOK
  <2> QED
      BY <2>1, <2>2, <2>4, <2>6, <2>7, TypeFrom DEF TypeOK
<1>21. CASE ExecuteFails
  <2>1. queue # <<>> /\ queue' = Tail(queue)
      BY <1>21 DEF ExecuteFails
  <2>2. queue' \in Seq(Statement)
      BY <2>1, AfterTail
  <2>3. Answer(Head(queue), IF Head(queue).op = "fire" THEN "idle" ELSE "failed")
      BY <1>21 DEF ExecuteFails
  <2>4. UNCHANGED lock /\ faults' \in 0..MaxFaults
      BY <1>21, FaultTyped DEF ExecuteFails
  <2>5. at' \in [Actors -> Places] /\ HolderAtWork'
      BY <2>1, <2>3, <2>4, AnswerTyped
  <2> QED
      BY <1>21, <2>2, <2>4, <2>5, TypeFrom DEF ExecuteFails, TypeOK
<1>22. CASE Elapse
  <2>1. rec' \in Record /\ ~(rec.killed /\ rec.pending)'
    <3>1. rec' \in Record
        BY <1>22, <1>a, RecordTyped DEF Elapse
    <3>2. rec'.killed = rec.killed /\ rec'.pending = rec.pending
        BY <1>22, <1>a DEF Elapse, Record
    <3> QED
        BY <3>1, <3>2 DEF TypeOK
  <2> QED
      BY <1>22, <1>a, <2>1, TypeFrom DEF Elapse, TypeOK, HolderAtWork, database, history
<1>23. CASE ProbationEnds
  <2>1. rec' \in Record /\ ~(rec.killed /\ rec.pending)'
      BY <1>23, <1>a, RecordTyped DEF ProbationEnds, Record, TypeOK
  <2> QED
      BY <1>23, <1>a, <2>1, TypeFrom DEF ProbationEnds, TypeOK, HolderAtWork, history
<1>24. CASE Restart
  <2>1. at' \in [Actors -> Places] /\ HolderAtWork'
      BY <1>24 DEF Restart, Places, HolderAtWork, Held
  <2>2. rec' \in Record /\ ~rec.pending'
    <3>1. dbKilled \in BOOLEAN /\ (dbProbation /\ ~dbKilled) \in BOOLEAN
        BY DEF TypeOK
    <3>2. \A k, p \in BOOLEAN :
              /\ [Fresh EXCEPT !.killed = k, !.probation = p] \in Record
              /\ ~[Fresh EXCEPT !.killed = k, !.probation = p].pending
      <4>1. \A h \in Record, k, p \in BOOLEAN :
                /\ [h EXCEPT !.killed = k, !.probation = p] \in Record
                /\ [h EXCEPT !.killed = k, !.probation = p].pending = h.pending
          BY DEF Record
      <4>2. ~Fresh.pending
          BY DEF Fresh
      <4> QED
          BY <4>1, <4>2, FreshTyped
    <3>3. Hydrated \in Record /\ ~Hydrated.pending
        BY <3>1, <3>2 DEF Hydrated
    <3>4. \A h \in Record :
              /\ [h EXCEPT !.probation = FALSE] \in Record
              /\ [h EXCEPT !.probation = FALSE].pending = h.pending
        BY DEF Record
    <3> QED
        BY <1>24, <3>3, <3>4 DEF Restart
  <2>3. queue' \in Seq(Statement) /\ faults' \in 0..MaxFaults
      BY <1>24, FaultTyped DEF Restart
  <2> QED
      BY <1>24, <2>1, <2>2, <2>3, TypeFrom DEF Restart, TypeOK
<1>25. CASE UNCHANGED vars
    BY <1>25 DEF TypeOK, vars, memory, database, history
<1> QED
    BY <1>2, <1>3, <1>4, <1>5, <1>6, <1>7, <1>8, <1>9, <1>10, <1>11, <1>12, <1>13, <1>14,
       <1>15, <1>16, <1>17, <1>18, <1>19, <1>20, <1>21, <1>22, <1>23, <1>24, <1>25
    DEF Next, Runner, Retry, Answered

(***************************************************************************)
(* The queue                                                               *)
(***************************************************************************)
LEMMA QueueStep == IInv /\ [Next]_vars => QueueInv'
<1> SUFFICES ASSUME IInv, [Next]_vars PROVE QueueInv'
    OBVIOUS
<1>0. TypeOK /\ QueueInv
    BY DEF IInv
<1> USE <1>0 DEF Places
<1>r. "runner" \in Actors /\ "retry" \in Actors /\ "admin" \in Actors /\ Wakes \subseteq Actors
    BY DEF Actors
<1>l. lock = "nobody" => at["admin"] # "sent" /\ at["runner"] # "sent" /\ at["retry"] # "sent"
    BY <1>r, Names DEF TypeOK
<1>1. ASSUME NEW a \in Actors, NEW place \in Places \ {"writing", "sent"},
             at[a] \notin {"writing", "sent"},
             at' = [at EXCEPT ![a] = place], UNCHANGED queue
      PROVE  QueueInv'
    BY <1>1, MoveQueue
<1>2. ASSUME NEW a \in Actors, NEW place \in {"observing", "escalating"}, Pass(a, place),
             at[a] \in {"idle", "observing"}
      PROVE  QueueInv'
    BY <1>1, <1>2 DEF Pass, database
<1>3. CASE Tick \/ Interesting
    BY <1>2, <1>3, <1>r DEF Tick, Interesting
<1>4. CASE Succeed
    BY <1>1, <1>4, <1>r DEF Succeed, database
<1>5. CASE Fail
    BY <1>1, <1>5, <1>r DEF Fail, database
<1>6. ASSUME NEW a \in {"runner"} \cup Wakes, Escalate(a) PROVE QueueInv'
  <2>1. PICK s \in Statement :
            s.op = "fire" /\ s.by = a /\ s.awaited /\ queue' = Append(queue, s)
      BY <1>6, <1>r, SendTyped DEF Escalate
  <2> QED
      BY <1>6, <2>1, AppendQueue DEF Escalate
<1>7. ASSUME NEW a \in {"runner"} \cup Wakes, WriteTimesOut(a) PROVE QueueInv'
  <2>1. PICK place \in {"idle", "waiting"} : at' = [at EXCEPT ![a] = place]
      BY <1>7 DEF WriteTimesOut
  <2> QED
      BY <1>7, <1>r, <2>1, AbandonQueue DEF WriteTimesOut
<1>8. CASE RecordFailure
  <2>1. CASE Kills
    <3>1. PICK s \in Statement :
              s.op = "kill" /\ s.by = "runner" /\ s.awaited /\ queue' = Append(queue, s)
        BY <1>8, <2>1, <1>r, SendTyped DEF RecordFailure
    <3> QED
        BY <1>8, <2>1, <1>l, <3>1, AppendQueue DEF RecordFailure
  <2>2. CASE ~Kills
      BY <1>1, <1>8, <2>2, <1>r DEF RecordFailure
  <2> QED
      BY <2>1, <2>2
<1>9. ASSUME NEW a \in {"runner", "retry"}, KillPersisted(a) \/ KillRefused(a)
      PROVE  QueueInv'
    BY <1>1, <1>9, <1>r DEF KillPersisted, KillRefused, Release, database
<1>11. CASE RetryTick
    BY <1>1, <1>11, <1>r DEF RetryTick, database
<1>12. CASE RetryOnce
  <2>1. CASE StillPending
    <3>1. PICK s \in Statement :
              s.op = "kill" /\ s.by = "retry" /\ s.awaited /\ queue' = Append(queue, s)
        BY <1>12, <2>1, <1>r, SendTyped DEF RetryOnce
    <3> QED
        BY <1>12, <2>1, <1>l, <3>1, AppendQueue DEF RetryOnce
  <2>2. CASE ~StillPending
      BY <1>1, <1>12, <2>2, <1>r DEF RetryOnce
  <2> QED
      BY <2>1, <2>2
<1>13. CASE RetryTimesOut \/ AdminGone
    BY <1>13, <1>r, AbandonQueue DEF RetryTimesOut, AdminGone, Release
<1>14. CASE SendClear
  <2>1. rec.killed \in BOOLEAN
      BY DEF TypeOK, Record
  <2>2. PICK skip \in BOOLEAN : SendClearing("admin", rec.killed, skip)
      BY <1>14 DEF SendClear
  <2>3. PICK s \in Statement :
            s.op = "clear" /\ s.by = "admin" /\ s.awaited /\ queue' = Append(queue, s)
      BY <2>1, <2>2, SendClearingTyped
  <2> QED
      BY <1>14, <2>3, AppendQueue DEF SendClear
<1>15. CASE MirrorClear \/ ClearRefused
    BY <1>1, <1>15, <1>r DEF MirrorClear, ClearRefused, Release, database
<1>16. ASSUME NEW w \in Wakes, ForceWake(w) \/ WakeFails(w) PROVE QueueInv'
    BY <1>1, <1>2, <1>16, <1>r DEF ForceWake, WakeFails, database
<1>17. CASE Execute
  <2>1. /\ queue # <<>> /\ queue' = Tail(queue)
        /\ \E place \in {"idle", "written", "done"} : Answer(Head(queue), place)
      BY <1>17 DEF Execute
  <2> QED
      BY <2>1, TailQueue
<1>18. CASE ExecuteFails
  <2>1. /\ queue # <<>> /\ queue' = Tail(queue)
        /\ \E place \in {"idle", "failed"} : Answer(Head(queue), place)
      BY <1>18 DEF ExecuteFails
  <2> QED
      BY <2>1, TailQueue
<1>19. CASE Elapse \/ ProbationEnds \/ UNCHANGED vars
  <2>1. UNCHANGED <<queue, at>>
      BY <1>19 DEF Elapse, ProbationEnds, vars, memory, database, history
  <2> QED
      BY <2>1 DEF QueueInv, SendersKnown, SendersWait, NobodyForgotten, OneAwaited,
          NoKillBehindClear
<1>20. CASE Restart
  <2>1. DOMAIN queue' = {} /\ \A a \in Actors : at'[a] = "idle"
      BY <1>20 DEF Restart
  <2> QED
      BY <2>1 DEF QueueInv, SendersKnown, SendersWait, NobodyForgotten, OneAwaited,
          NoKillBehindClear
<1> QED
    BY <1>3, <1>4, <1>5, <1>6, <1>7, <1>8, <1>9, <1>11, <1>12, <1>13, <1>14, <1>15, <1>16,
       <1>17, <1>18, <1>19, <1>20
    DEF Next, Runner, Retry, Answered

(***************************************************************************)
(* Kills                                                                   *)
(***************************************************************************)
KillQueued == \E i \in DOMAIN queue : queue[i].op = "kill"

\* Statements leave the queue, are abandoned or joined by others than kills.
LEMMA NoNewKill ==
    ASSUME TypeOK,
           \/ UNCHANGED queue
           \/ queue # <<>> /\ queue' = Tail(queue)
           \/ \E a \in Actors : queue' = Abandoned(a)
           \/ \E s \in Statement : s.op # "kill" /\ queue' = Append(queue, s)
    PROVE  KillQueued' => KillQueued
<1>1. CASE UNCHANGED queue
    BY <1>1 DEF KillQueued
<1>2. CASE queue # <<>> /\ queue' = Tail(queue)
    BY <1>2, AfterTail DEF KillQueued
<1>3. ASSUME NEW a \in Actors, queue' = Abandoned(a) PROVE KillQueued' => KillQueued
    BY <1>3, AfterAbandon DEF KillQueued
<1>4. ASSUME NEW s \in Statement, s.op # "kill", queue' = Append(queue, s)
      PROVE  KillQueued' => KillQueued
    BY <1>4, AfterAppend DEF KillQueued
<1> QED
    BY <1>1, <1>2, <1>3, <1>4

Agreement == KillInv /\ GateAgrees /\ ClearIsFinal

\* A step that neither kills nor clears, and lets the runner past no kill.
LEMMA Harmless ==
    ASSUME IInv, KillQueued' => KillQueued,
           HardKilled' <=> HardKilled, rec.pending => rec'.pending,
           UNCHANGED <<dbKilled, lock, decided>>,
           at'["admin"] = "done" => at["admin"] = "done",
           at'["retry"] \in Held => at["retry"] \in Held,
           HardKilled => at'["runner"] = "idle"
    PROVE  Agreement'
<1>1. ClearedForGood'
    BY DEF IInv, KillInv, ClearedForGood, KillQueued
<1>2. KillsKnown'
    BY DEF IInv, KillInv, KillsKnown, KillQueued
<1>3. KilledRunnerIdle' /\ RetryOfPending' /\ KillDecided'
    BY DEF IInv, KillInv, KilledRunnerIdle, RetryOfPending, KillDecided, Held
<1>4. GateAgrees' /\ ClearIsFinal'
    BY DEF IInv, GateAgrees, ClearIsFinal
<1> QED
    BY <1>1, <1>2, <1>3, <1>4 DEF Agreement, KillInv

\* What becomes of the record leaves its kill alone, but where a kill is mirrored.
LEMMA KillOfRecord ==
    ASSUME TypeOK
    PROVE  /\ Stamped.killed = rec.killed /\ Stamped.pending = rec.pending
           /\ ~HardKilled => ~AfterSuccess.killed /\ ~AfterSuccess.pending
           /\ \A r \in AfterFailure : r.killed = rec.killed /\ r.pending = rec.pending
           /\ rec.killed \in BOOLEAN /\ rec.pending \in BOOLEAN
<1>1. rec \in Record
    BY DEF TypeOK
<1>2. Stamped.killed = rec.killed /\ Stamped.pending = rec.pending
    BY <1>1 DEF Stamped, Record
<1>3. ~HardKilled => ~AfterSuccess.killed /\ ~AfterSuccess.pending
    BY <1>1 DEF AfterSuccess, HardKilled, Fresh, Record
<1>4. \A r \in AfterFailure : r.killed = rec.killed /\ r.pending = rec.pending
    BY <1>1 DEF AfterFailure, Record
<1>5. rec.killed \in BOOLEAN /\ rec.pending \in BOOLEAN
    BY <1>1 DEF Record
<1> QED
    BY <1>2, <1>3, <1>4, <1>5

LEMMA AgreementStep == IInv /\ [Next]_vars => Agreement'
<1> SUFFICES ASSUME IInv, [Next]_vars PROVE Agreement'
    OBVIOUS
<1>0. TypeOK /\ QueueInv /\ KillInv /\ GateAgrees /\ ClearIsFinal
    BY DEF IInv
<1> USE <1>0, KillOfRecord
<1>r. /\ "runner" \in Actors /\ "retry" \in Actors /\ "admin" \in Actors /\ Wakes \subseteq Actors
      /\ "runner" \notin Wakes /\ "retry" \notin Wakes /\ "admin" \notin Wakes
    BY Names DEF Actors
<1>a. at \in [Actors -> Places]
    BY DEF TypeOK
<1>i. HardKilled => at["runner"] = "idle"
    BY DEF KillInv, KilledRunnerIdle
<1>l. \A a \in Actors : a = lock <=> at[a] \in Held
    BY DEF TypeOK, Held
<1>1. ASSUME NEW a \in Actors, NEW place \in {"observing", "escalating"}, Pass(a, place)
      PROVE  Agreement'
  <2>1. KillQueued' => KillQueued
      BY <1>1, NoNewKill DEF Pass, database
  <2>2. HardKilled' = HardKilled /\ rec'.pending = rec.pending
      BY <1>1 DEF Pass, HardKilled
  <2>3. HardKilled => at'["runner"] = "idle"
      BY <1>1, <1>a, <1>i, <1>r DEF Pass, Blocked
  <2> QED
      BY <1>1, <1>a, <1>r, <2>1, <2>2, <2>3, Harmless DEF Pass, database, history, Held
\* Steps that leave the record and the row alone.
<1>2. ASSUME NEW a \in Actors, NEW place, place \notin Held,
             at' = [at EXCEPT ![a] = place], a = "runner" => place = "idle" \/ ~HardKilled,
             KillQueued' => KillQueued, UNCHANGED <<rec, dbKilled, lock, decided>>
      PROVE  Agreement'
  <2>1. HardKilled' = HardKilled /\ rec'.pending = rec.pending
      BY <1>2 DEF HardKilled
  <2>2. HardKilled => at'["runner"] = "idle"
      BY <1>2, <1>a, <1>i, <1>r
  <2> QED
      BY <1>2, <1>a, <1>r, <2>1, <2>2, Harmless DEF Held
<1>3. CASE Tick \/ Interesting
    BY <1>1, <1>3, <1>r DEF Tick, Interesting
<1>4. CASE Succeed
  <2>1. ~HardKilled
      BY <1>4, <1>i DEF Succeed
  <2>2. ~HardKilled' /\ ~rec.pending
      BY <1>4, <2>1 DEF Succeed, HardKilled
  <2>3. KillQueued' => KillQueued
      BY <1>4, NoNewKill DEF Succeed, database
  <2> QED
      BY <1>4, <1>a, <1>r, <2>1, <2>2, <2>3, Harmless DEF Succeed, database, history, Held
<1>5. CASE Fail
  <2>1. ~HardKilled
      BY <1>5, <1>i DEF Fail
  <2>2. KillQueued' => KillQueued
      BY <1>5, NoNewKill DEF Fail, database
  <2> QED
      BY <1>2, <1>5, <1>r, <2>1, <2>2 DEF Fail, database, history, Held
<1>6. ASSUME NEW a \in {"runner"} \cup Wakes, Escalate(a) PROVE Agreement'
  <2>1. KillQueued' => KillQueued
    <3>1. PICK s \in Statement : s.op = "fire" /\ queue' = Append(queue, s)
        BY <1>6, <1>r, SendTyped DEF Escalate
    <3> QED
        BY <3>1, NoNewKill
  <2>2. a = "runner" => ~HardKilled
      BY <1>6, <1>i DEF Escalate
  <2> QED
      BY <1>2, <1>6, <1>r, <2>1, <2>2 DEF Escalate, history, Held
<1>7. ASSUME NEW a \in {"runner"} \cup Wakes, WriteTimesOut(a) PROVE Agreement'
  <2>1. PICK place \in {"idle", "waiting"} : at' = [at EXCEPT ![a] = place]
      BY <1>7 DEF WriteTimesOut
  <2>2. KillQueued' => KillQueued
      BY <1>7, <1>r, NoNewKill DEF WriteTimesOut
  <2>3. a = "runner" => ~HardKilled
      BY <1>7, <1>i DEF WriteTimesOut
  <2> QED
      BY <1>2, <1>7, <1>r, <2>1, <2>2, <2>3 DEF WriteTimesOut, Held
<1>8. CASE RecordFailure
  <2>1. ~HardKilled
      BY <1>8, <1>i DEF RecordFailure
  <2>2. ~HardKilled' /\ ~rec.pending
      BY <1>8, <2>1 DEF RecordFailure, HardKilled
  <2>3. CASE ~Kills
    <3>1. KillQueued' => KillQueued
        BY <1>8, <2>3, NoNewKill DEF RecordFailure
    <3> QED
        BY <1>8, <1>a, <1>r, <2>1, <2>2, <2>3, <3>1, Harmless DEF RecordFailure, Held
  <2>4. CASE Kills
    <3>1. /\ lock = "nobody" /\ lock' = "runner" /\ decided'
          /\ at' = [at EXCEPT !["runner"] = "sent"] /\ UNCHANGED dbKilled
        BY <1>8, <2>4 DEF RecordFailure
    <3>2. at'["admin"] # "done" /\ at'["retry"] \notin Held
        BY <1>a, <1>l, <1>r, <3>1 DEF Held
    <3> QED
        BY <2>2, <3>1, <3>2
        DEF Agreement, KillInv, ClearedForGood, KillsKnown, KilledRunnerIdle, RetryOfPending,
            KillDecided, GateAgrees, ClearIsFinal, Held
  <2> QED
      BY <2>3, <2>4
\* Who answers for a kill gives up the lock with the sentinel hard-killed.
<1>9. ASSUME NEW a \in {"runner", "retry"}, KillPersisted(a) \/ KillRefused(a)
      PROVE  Agreement'
  <2>1. at[a] \in {"done", "failed"} /\ lock = a
      BY <1>9, <1>l, <1>r DEF KillPersisted, KillRefused, Held
  <2>2. a = "retry" => rec.pending
      BY <2>1 DEF KillInv, RetryOfPending
  <2>3. HardKilled'
    <3>1. CASE KillPersisted(a)
        BY <3>1, NeverBoth DEF KillPersisted, HardKilled
    <3>2. CASE KillRefused(a)
      <4>1. rec \in Record
          BY DEF TypeOK
      <4> QED
          BY <2>2, <3>2, <4>1 DEF KillRefused, HardKilled, Record
    <3> QED
        BY <1>9, <3>1, <3>2
  <2>4. decided
      BY <2>1, <2>2 DEF KillInv, KillDecided, ClearIsFinal, HardKilled
  <2>5. /\ lock' = "nobody" /\ at' = [at EXCEPT ![a] = "idle"]
        /\ UNCHANGED <<dbKilled, decided>>
      BY <1>9 DEF KillPersisted, KillRefused, Release, database, history
  <2>6. at'["runner"] = "idle"
    <3>1. a = "retry" => at["runner"] = "idle"
        BY <2>2, <1>i DEF HardKilled
    <3> QED
        BY <1>a, <1>r, <2>5, <3>1
  <2>7. at'["admin"] # "done" /\ at'["retry"] \notin Held
      BY <1>a, <1>l, <1>r, <2>1, <2>5 DEF Held
  <2> QED
      BY <2>3, <2>4, <2>5, <2>6, <2>7
      DEF Agreement, KillInv, ClearedForGood, KillsKnown, KilledRunnerIdle, RetryOfPending,
          KillDecided, GateAgrees, ClearIsFinal, Held
<1>11. CASE RetryTick
  <2>1. KillQueued' => KillQueued
      BY <1>11, NoNewKill DEF RetryTick, database
  <2> QED
      BY <1>2, <1>11, <1>r, <2>1 DEF RetryTick, database, history, Held
<1>12. CASE RetryOnce
  <2>1. CASE ~StillPending
    <3>1. KillQueued' => KillQueued
        BY <1>12, <2>1, NoNewKill DEF RetryOnce
    <3> QED
        BY <1>2, <1>12, <1>r, <2>1, <3>1 DEF RetryOnce, history, Held
  <2>2. CASE StillPending
    <3>1. /\ lock = "nobody" /\ lock' = "retry" /\ at' = [at EXCEPT !["retry"] = "sent"]
          /\ UNCHANGED <<rec, dbKilled, decided>> /\ rec.pending
        BY <1>12, <2>2 DEF RetryOnce, StillPending, history
    <3>2. HardKilled /\ HardKilled' /\ rec'.pending
        BY <3>1 DEF HardKilled
    <3>3. at'["admin"] # "done" /\ at'["runner"] = "idle"
        BY <1>a, <1>i, <1>l, <1>r, <3>1, <3>2 DEF Held
    <3> QED
        BY <3>1, <3>2, <3>3
        DEF Agreement, KillInv, ClearedForGood, KillsKnown, KilledRunnerIdle, RetryOfPending,
            KillDecided, GateAgrees, ClearIsFinal
  <2> QED
      BY <2>1, <2>2
<1>13. CASE RetryTimesOut
  <2>1. /\ at["retry"] \in Held /\ lock' = "nobody" /\ at' = [at EXCEPT !["retry"] = "idle"]
        /\ UNCHANGED <<rec, dbKilled, decided>>
      BY <1>13 DEF RetryTimesOut, Release, Held
  <2>2. HardKilled /\ HardKilled'
      BY <2>1 DEF KillInv, RetryOfPending, Held, HardKilled
  <2>3. at'["admin"] # "done" /\ at'["runner"] = "idle" /\ at'["retry"] = "idle"
      BY <1>a, <1>i, <1>l, <1>r, <2>1, <2>2 DEF Held
  <2> QED
      BY <2>1, <2>2, <2>3
      DEF Agreement, KillInv, ClearedForGood, KillsKnown, KilledRunnerIdle, RetryOfPending,
          KillDecided, GateAgrees, ClearIsFinal
<1>14. CASE SendClear
  <2>1. /\ lock = "nobody" /\ lock' = "admin" /\ at' = [at EXCEPT !["admin"] = "sent"]
        /\ UNCHANGED <<rec, dbKilled, decided>>
      BY <1>14 DEF SendClear, history
  <2>2. PICK skip \in BOOLEAN : SendClearing("admin", rec.killed, skip)
      BY <1>14 DEF SendClear
  <2>3. KillQueued' => KillQueued
    <3>1. PICK s \in Statement : s.op = "clear" /\ queue' = Append(queue, s)
        BY <2>2, SendClearingTyped
    <3> QED
        BY <3>1, NoNewKill
  <2>4. HardKilled' = HardKilled /\ rec'.pending = rec.pending
      BY <2>1 DEF HardKilled
  <2>5. /\ at'["admin"] = "sent" /\ at'["retry"] = at["retry"]
        /\ at'["runner"] = at["runner"]
      BY <1>a, <1>r, <2>1
  <2> QED
      BY <2>1, <2>3, <2>4, <2>5
      DEF Agreement, KillInv, ClearedForGood, KillsKnown, KilledRunnerIdle, RetryOfPending,
          KillDecided, GateAgrees, ClearIsFinal, KillQueued
<1>15. CASE MirrorClear
  <2>1. /\ lock = "admin" /\ lock' = "nobody" /\ at' = [at EXCEPT !["admin"] = "idle"]
        /\ UNCHANGED <<queue, dbKilled>> /\ ~HardKilled'
      BY <1>15, <1>l, <1>r, NeverBoth DEF MirrorClear, Release, database, HardKilled, Held
  <2>2. ~dbKilled /\ ~KillQueued
      BY <1>15 DEF MirrorClear, KillInv, ClearedForGood, KillQueued
  <2>3. at'["admin"] = "idle" /\ at'["retry"] \notin Held
      BY <1>a, <1>l, <1>r, <2>1 DEF Held
  <2> QED
      BY <2>1, <2>2, <2>3
      DEF Agreement, KillInv, ClearedForGood, KillsKnown, KilledRunnerIdle, RetryOfPending,
          KillDecided, GateAgrees, ClearIsFinal, KillQueued, Held
\* The lock is free, and nothing cleared.
<1>16. CASE ClearRefused \/ AdminGone
  <2>1. /\ at["admin"] \in Held /\ lock' = "nobody" /\ at' = [at EXCEPT !["admin"] = "idle"]
        /\ UNCHANGED <<rec, dbKilled, decided>>
      BY <1>16 DEF ClearRefused, AdminGone, Release, database, history, Held
  <2>2. KillQueued' => KillQueued
      BY <1>16, <1>r, NoNewKill DEF ClearRefused, AdminGone, database
  <2>3. HardKilled' = HardKilled /\ rec'.pending = rec.pending
      BY <2>1 DEF HardKilled
  <2>4. /\ at'["admin"] = "idle" /\ at'["retry"] = at["retry"]
        /\ at'["runner"] = at["runner"]
      BY <1>a, <1>r, <2>1
  <2>5. lock = "admin"
      BY <1>l, <1>r, <2>1
  <2> QED
      BY <2>1, <2>2, <2>3, <2>4, <2>5
      DEF Agreement, KillInv, ClearedForGood, KillsKnown, KilledRunnerIdle, RetryOfPending,
          KillDecided, GateAgrees, ClearIsFinal, KillQueued
<1>17. ASSUME NEW w \in Wakes, ForceWake(w) PROVE Agreement'
    BY <1>1, <1>17, <1>r DEF ForceWake
<1>18. ASSUME NEW w \in Wakes, WakeFails(w) PROVE Agreement'
  <2>1. KillQueued' => KillQueued
      BY <1>18, NoNewKill DEF WakeFails, database
  <2> QED
      BY <1>2, <1>18, <1>r, <2>1 DEF WakeFails, database, history, Held
<1>19. CASE Execute
  <2> DEFINE s == Head(queue)
  <2>1. /\ queue # <<>> /\ queue' = Tail(queue) /\ UNCHANGED <<rec, lock, decided>>
      BY <1>19 DEF Execute
  <2>2. s \in Statement /\ 1 \in DOMAIN queue /\ s = queue[1]
      BY <2>1, AfterTail
  <2>3. KillQueued' => KillQueued
      BY <2>1, NoNewKill
  <2>4. HardKilled' = HardKilled /\ rec'.pending = rec.pending
      BY <2>1 DEF HardKilled
  <2>5. s.awaited => at[s.by] = IF s.op = "fire" THEN "writing" ELSE "sent"
      BY <2>2 DEF QueueInv, SendersWait
  <2>6. s.op \in {"fire", "kill", "clear"}
      BY <2>2 DEF Statement
  <2>7. \A a \in Actors : at'[a] \in Held => at[a] \in Held
    <3>1. TypeOK'
        BY TypeStep
    <3> QED
        BY <1>l, <2>1, <3>1 DEF TypeOK, Held
  <2>8. HardKilled => at'["runner"] = "idle"
    <3>1. HardKilled => ~(s.awaited /\ s.by = "runner")
        BY <1>i, <2>5
    <3>2. ~(s.awaited /\ s.by = "runner") => at'["runner"] = at["runner"]
      <4>1. PICK place : Answer(s, place)
          BY <1>19 DEF Execute
      <4> QED
          BY <4>1, <1>a, <1>r DEF Answer
    <3> QED
        BY <1>i, <3>1, <3>2
  <2>9. CASE s.op = "fire"
    <3>1. UNCHANGED dbKilled
        BY <1>19, <2>9 DEF Execute
    <3>2. at'["admin"] = at["admin"]
      <4>1. s.by # "admin"
          BY <2>2, <2>9, <1>r DEF QueueInv, SendersKnown
      <4> QED
          BY <1>19, <1>a, <1>r, <4>1 DEF Execute, Answer
    <3> QED
        BY <1>r, <2>1, <2>3, <2>4, <2>7, <2>8, <3>1, <3>2, Harmless
  <2>10. CASE s.op = "kill"
    <3>1. dbKilled'
        BY <1>19, <2>10 DEF Execute
    <3>2. HardKilled \/ lock = "runner"
        BY <2>2, <2>10 DEF KillInv, KillsKnown
    <3>3. decided
        BY <3>2 DEF KillInv, KillDecided, ClearIsFinal
    <3>4. at'["admin"] = at["admin"]
      <4>1. s.by # "admin"
          BY <2>2, <2>10 DEF QueueInv, SendersKnown
      <4> QED
          BY <1>19, <1>a, <1>r, <4>1 DEF Execute, Answer
    <3>5. at["admin"] # "done"
        BY <2>2, <2>10 DEF KillInv, ClearedForGood
    <3> QED
        BY <1>r, <2>1, <2>3, <2>4, <2>7, <2>8, <3>1, <3>2, <3>3, <3>4, <3>5
        DEF Agreement, KillInv, ClearedForGood, KillsKnown, KilledRunnerIdle, RetryOfPending,
            KillDecided, GateAgrees, ClearIsFinal, Held
  <2>11. CASE s.op = "clear"
    <3>1. ~dbKilled'
        BY <1>19, <2>11 DEF Execute
    <3>2. at'["admin"] = "done" => at["admin"] = "done" \/ s.awaited
        BY <1>19, <1>a DEF Execute, Answer
    <3>3. ClearedForGood'
      <4>1. CASE at["admin"] = "done"
          BY <2>3, <3>1, <4>1 DEF KillInv, ClearedForGood, KillQueued
      <4>2. CASE s.awaited
        <5>1. \A j \in DOMAIN queue : 1 < j => queue[j].op # "kill"
            BY <2>2, <2>11, <4>2 DEF QueueInv, NoKillBehindClear
        <5>2. \A i \in DOMAIN queue' :
                  i + 1 \in DOMAIN queue /\ 1 < i + 1 /\ queue'[i] = queue[i + 1]
            BY <2>1, AfterTail, QueueOfStatements
        <5> QED
            BY <3>1, <5>1, <5>2 DEF ClearedForGood
      <4> QED
          BY <3>2, <4>1, <4>2 DEF ClearedForGood
    <3> QED
        BY <1>r, <2>1, <2>3, <2>4, <2>7, <2>8, <3>1, <3>3
        DEF Agreement, KillInv, KillsKnown, KilledRunnerIdle, RetryOfPending,
            KillDecided, GateAgrees, ClearIsFinal, Held, KillQueued
  <2> QED
      BY <2>6, <2>9, <2>10, <2>11
<1>20. CASE ExecuteFails
  <2> DEFINE s == Head(queue)
  <2>1. /\ queue # <<>> /\ queue' = Tail(queue)
        /\ UNCHANGED <<rec, lock, dbKilled, decided>>
        /\ Answer(s, IF s.op = "fire" THEN "idle" ELSE "failed")
      BY <1>20 DEF ExecuteFails
  <2>2. 1 \in DOMAIN queue /\ s = queue[1]
      BY <2>1, AfterTail
  <2>3. s.awaited => at[s.by] = IF s.op = "fire" THEN "writing" ELSE "sent"
      BY <2>2 DEF QueueInv, SendersWait
  <2>4. \A a \in Actors : at'[a] \in Held => at[a] \in Held
    <3>1. TypeOK'
        BY TypeStep
    <3> QED
        BY <1>l, <2>1, <3>1 DEF TypeOK, Held
  <2>5. at'["admin"] = "done" => at["admin"] = "done"
      BY <1>a, <1>r, <2>1 DEF Answer
  <2>6. HardKilled => at'["runner"] = "idle"
    <3>1. HardKilled => ~(s.awaited /\ s.by = "runner")
        BY <1>i, <2>3
    <3>2. ~(s.awaited /\ s.by = "runner") => at'["runner"] = at["runner"]
      <4>1. PICK place : Answer(s, place)
          BY <2>1
      <4> QED
          BY <4>1, <1>a, <1>r DEF Answer
    <3> QED
        BY <1>i, <3>1, <3>2
  <2>7. HardKilled' = HardKilled /\ rec'.pending = rec.pending
      BY <2>1 DEF HardKilled
  <2>8. KillQueued' => KillQueued
      BY <2>1, NoNewKill
  <2> QED
      BY <1>r, <2>1, <2>4, <2>5, <2>6, <2>7, <2>8, Harmless
<1>21. CASE Elapse \/ ProbationEnds
  <2>1. rec \in Record
      BY DEF TypeOK
  <2>2. rec'.killed = rec.killed /\ rec'.pending = rec.pending
      BY <1>21, <2>1 DEF Elapse, ProbationEnds, Record
  <2>3. UNCHANGED <<dbKilled, lock, decided, at, queue>>
      BY <1>21 DEF Elapse, ProbationEnds, database, history
  <2>4. HardKilled' = HardKilled /\ (KillQueued' => KillQueued)
      BY <2>2, <2>3 DEF HardKilled, KillQueued
  <2> QED
      BY <1>i, <2>2, <2>3, <2>4, Harmless
<1>22. CASE Restart
  <2>1. /\ lock' = "nobody" /\ at' = [a \in Actors |-> "idle"] /\ queue' = <<>>
        /\ decided' = dbKilled /\ UNCHANGED dbKilled
      BY <1>22 DEF Restart
  <2>2. rec'.killed = dbKilled /\ ~rec'.pending
    <3>1. Hydrated.killed = dbKilled /\ ~Hydrated.pending
        BY DEF Hydrated, Fresh
    <3>2. [Hydrated EXCEPT !.probation = FALSE].killed = dbKilled
          /\ ~[Hydrated EXCEPT !.probation = FALSE].pending
        BY <3>1 DEF Hydrated, Fresh
    <3> QED
        BY <1>22, <3>1, <3>2 DEF Restart
  <2>3. \A a \in Actors : at'[a] = "idle"
      BY <2>1
  <2>4. dbKilled \in BOOLEAN /\ DOMAIN queue' = {}
      BY <2>1 DEF TypeOK
  <2> QED
      BY <1>r, <2>1, <2>2, <2>3, <2>4
      DEF Agreement, KillInv, ClearedForGood, KillsKnown, KilledRunnerIdle, RetryOfPending,
          KillDecided, GateAgrees, ClearIsFinal, HardKilled
<1>23. CASE UNCHANGED vars
    BY <1>23
    DEF Agreement, KillInv, ClearedForGood, KillsKnown, KilledRunnerIdle, RetryOfPending,
        KillDecided, GateAgrees, ClearIsFinal, HardKilled, vars, memory, database, history
<1> QED
    BY <1>3, <1>4, <1>5, <1>6, <1>7, <1>8, <1>9, <1>11, <1>12, <1>13, <1>14, <1>15, <1>16,
       <1>17, <1>18, <1>19, <1>20, <1>21, <1>22, <1>23
    DEF Next, Runner, Retry, Answered

(***************************************************************************)
(* Late fires.  The bound alone is not inductive: a fire that is not       *)
(* written yet is still to come, from a wake that passed the gate or from  *)
(* the queue, where each fire nobody waits for had a time-out of its own.  *)
(***************************************************************************)
Stray == {i \in DOMAIN queue : queue[i].op = "fire" /\ ~queue[i].awaited}

Ahead == {w \in Wakes : at[w] \in {"escalating", "writing"}}

LateInv ==
    /\ ~HardKilled => late = 0
    /\ Cardinality(Stray) <= faults
    /\ late + Cardinality(Stray) + Cardinality(Ahead) <= Cardinality(Wakes) + faults

Counts ==
    /\ IsFiniteSet(Stray) /\ Cardinality(Stray) \in Nat
    /\ IsFiniteSet(Ahead) /\ Cardinality(Ahead) \in Nat
    /\ Cardinality(Wakes) \in Nat /\ Cardinality(Ahead) <= Cardinality(Wakes)
    /\ faults \in Nat /\ late \in Nat

LEMMA Counted == TypeOK => Counts
<1> SUFFICES ASSUME TypeOK PROVE Counts
    OBVIOUS
<1>1. IsFiniteSet(1..Len(queue)) /\ Stray \in SUBSET (1..Len(queue))
    BY QueueOfStatements, FS_Interval DEF Stray
<1>2. IsFiniteSet(Wakes) /\ Ahead \in SUBSET Wakes
    BY QuarantineAssumption DEF Ahead
<1>3. faults \in Nat /\ late \in Nat
    BY QuarantineAssumption DEF TypeOK
<1> QED
    BY <1>1, <1>2, <1>3, FS_Subset, FS_CardinalityType DEF Counts

LEMMA CountedNext == TypeOK' => Counts'
BY Counted, PTL

LEMMA StrayOfAppend ==
    ASSUME TypeOK, NEW s \in Statement, s.awaited, queue' = Append(queue, s)
    PROVE  Stray' = Stray
<1>1. \A i \in DOMAIN queue : i \in DOMAIN queue' /\ queue'[i] = queue[i]
    BY AfterAppend, QueueOfStatements
<1> QED
    BY <1>1, AfterAppend DEF Stray

\* The rest of the queue moves up by one.
LEMMA StrayOfTail ==
    ASSUME TypeOK, queue # <<>>, queue' = Tail(queue)
    PROVE  Cardinality(Stray') = Cardinality(Stray \ {1})
<1> DEFINE rest == Stray \ {1}
           strayed == Stray'
           Up == [i \in rest |-> i - 1]
<1>1. /\ DOMAIN queue = 1..Len(queue) /\ Len(queue) \in Nat
      /\ DOMAIN queue' = 1..Len(queue) - 1
      /\ \A i \in DOMAIN queue' : i + 1 \in DOMAIN queue /\ queue'[i] = queue[i + 1]
    BY QueueOfStatements, AfterTail
<1>2. ASSUME NEW i \in rest PROVE i \in Int /\ i - 1 \in strayed
  <2>1. i \in DOMAIN queue /\ i - 1 \in DOMAIN queue' /\ (i - 1) + 1 = i
      BY <1>1 DEF Stray
  <2>2. queue'[i - 1] = queue[i]
      BY <1>1, <2>1
  <2> QED
      BY <1>1, <2>1, <2>2 DEF Stray
<1>3. ASSUME NEW i \in strayed PROVE i \in Int /\ i + 1 \in rest /\ (i + 1) - 1 = i
    BY <1>1 DEF Stray
<1>4. IsFiniteSet(rest)
    BY Counted, FS_RemoveElement DEF Counts
<1> HIDE DEF rest, strayed
<1>5. Up \in Bijection(rest, strayed)
  <2>1. Up \in [rest -> strayed]
      BY <1>2
  <2>2. \A i, j \in rest : Up[i] = Up[j] => i = j
      BY <1>2
  <2>3. \A k \in strayed : \E i \in rest : Up[i] = k
      BY <1>3
  <2> HIDE DEF Up
  <2> QED
      BY <2>1, <2>2, <2>3 DEF Bijection, Injection, Surjection, IsInjective
<1>6. Cardinality(strayed) = Cardinality(rest)
  <2>1. ExistsBijection(rest, strayed)
      BY <1>5 DEF ExistsBijection
  <2> QED
      BY <1>4, <2>1, FS_Bijection
<1> QED
    BY <1>6 DEF rest, strayed

\* Who gives up on a write leaves one fire behind, on another statement none.
LEMMA StrayOfAbandon ==
    ASSUME TypeOK, QueueInv, NEW a \in Actors, queue' = Abandoned(a)
    PROVE  /\ Cardinality(Stray') <= Cardinality(Stray) + 1
           /\ a \notin {"runner"} \cup Wakes => Stray' = Stray
<1>1. \A i \in DOMAIN queue' :
        /\ i \in DOMAIN queue
        /\ queue'[i].op = queue[i].op /\ queue'[i].by = queue[i].by
        /\ queue'[i].awaited <=> queue[i].awaited /\ queue[i].by # a
    BY AfterAbandon
<1>2. DOMAIN queue' = DOMAIN queue
    BY AfterAbandon
<1>3. ASSUME a \notin {"runner"} \cup Wakes PROVE Stray' = Stray
    BY <1>1, <1>2, <1>3 DEF QueueInv, SendersKnown, Stray
<1> DEFINE Left == {i \in DOMAIN queue : queue[i].awaited /\ queue[i].by = a}
<1>4. Stray' \subseteq Stray \cup Left
    BY <1>1 DEF Stray
<1>5. Cardinality(Stray') <= Cardinality(Stray) + 1
  <2>1. CASE Left = {}
    <3>1. Stray' \in SUBSET Stray
        BY <1>4, <2>1
    <3> QED
        BY <3>1, Counted, FS_Subset, FS_CardinalityType DEF Counts
  <2>2. CASE Left # {}
    <3>1. PICK i \in Left : TRUE
        BY <2>2
    <3>2. Left = {i}
        BY <3>1 DEF QueueInv, OneAwaited
    <3>3. Stray' \in SUBSET (Stray \cup {i})
        BY <1>4, <3>2
    <3>4. /\ IsFiniteSet(Stray \cup {i}) /\ Cardinality(Stray \cup {i}) \in Nat
          /\ Cardinality(Stray \cup {i}) <= Cardinality(Stray) + 1
      <4>1. IsFiniteSet(Stray) /\ Cardinality(Stray) \in Nat
          BY Counted DEF Counts
      <4>2. /\ IsFiniteSet(Stray \cup {i})
            /\ Cardinality(Stray \cup {i}) =
                   IF i \in Stray THEN Cardinality(Stray) ELSE Cardinality(Stray) + 1
          BY <4>1, FS_AddElement
      <4> QED
          BY <4>1, <4>2
    <3>5. Cardinality(Stray') \in Nat /\ Cardinality(Stray') <= Cardinality(Stray \cup {i})
        BY <3>3, <3>4, FS_Subset, FS_CardinalityType
    <3> QED
        BY <3>4, <3>5, Counted DEF Counts
  <2> QED
      BY <2>1, <2>2
<1> QED
    BY <1>3, <1>5

\* A wake on its way that stops is one less.
LEMMA AheadLess ==
    ASSUME TypeOK, NEW w \in Wakes, at[w] \in {"escalating", "writing"},
           NEW place, place \notin {"escalating", "writing"},
           at' = [at EXCEPT ![w] = place]
    PROVE  Cardinality(Ahead') = Cardinality(Ahead) - 1
<1>1. Ahead' = Ahead \ {w} /\ w \in Ahead
    BY DEF Ahead, TypeOK, Actors
<1> QED
    BY <1>1, Counted, FS_RemoveElement DEF Counts

\* A step that writes no late fire and lets no wake past a closed gate.
LEMMA LateFrame ==
    ASSUME TypeOK, TypeOK', LateInv, late' = late, faults <= faults',
           Cardinality(Stray') <= Cardinality(Stray),
           HardKilled => HardKilled' /\ Ahead' \subseteq Ahead
    PROVE  LateInv'
<1>1. Counts /\ Counts'
    BY Counted, CountedNext
<1>2. HardKilled => Cardinality(Ahead') <= Cardinality(Ahead)
    BY <1>1, FS_Subset DEF Counts
<1> QED
    BY <1>1, <1>2 DEF LateInv, Counts

LEMMA LateStep == IInv /\ IInv' /\ LateInv /\ [Next]_vars => LateInv'
<1> SUFFICES ASSUME IInv, IInv', LateInv, [Next]_vars PROVE LateInv'
    OBVIOUS
<1>0. TypeOK /\ TypeOK' /\ QueueInv /\ KillInv
    BY DEF IInv
<1> USE <1>0, KillOfRecord
<1>c. Counts /\ Counts'
    BY Counted, CountedNext
<1>r. /\ "runner" \in Actors /\ "retry" \in Actors /\ "admin" \in Actors /\ Wakes \subseteq Actors
      /\ "runner" \notin Wakes /\ "retry" \notin Wakes /\ "admin" \notin Wakes
    BY Names DEF Actors
<1>i. HardKilled => at["runner"] = "idle"
    BY DEF KillInv, KilledRunnerIdle
<1>q. UNCHANGED queue => Cardinality(Stray') <= Cardinality(Stray)
    BY <1>c DEF Stray, Counts
<1>s. ASSUME NEW a \in Actors, NEW place, at' = [at EXCEPT ![a] = place],
             a \in Wakes => place \notin {"escalating", "writing"}
      PROVE  Ahead' \subseteq Ahead
    BY <1>s DEF Ahead, TypeOK
<1>1. ASSUME NEW a \in {"runner"} \cup Wakes, NEW place, Pass(a, place) PROVE LateInv'
  <2>1. HardKilled' = HardKilled
      BY <1>1 DEF Pass, HardKilled
  <2>2. HardKilled => Ahead' \subseteq Ahead
    <3>1. HardKilled => at' = [at EXCEPT ![a] = "idle"]
        BY <1>1 DEF Pass, Blocked
    <3> QED
        BY <1>r, <1>s, <3>1
  <2>3. UNCHANGED <<queue, late, faults>>
      BY <1>1 DEF Pass, database, history
  <2> QED
      BY <1>c, <1>q, <2>1, <2>2, <2>3, LateFrame DEF Counts
<1>2. CASE Succeed \/ Fail
  <2>1. ~HardKilled
      BY <1>2, <1>i DEF Succeed, Fail
  <2>2. UNCHANGED <<queue, late, faults>>
      BY <1>2 DEF Succeed, Fail, database, history
  <2> QED
      BY <1>c, <1>q, <2>1, <2>2, LateFrame DEF Counts
<1>3. ASSUME NEW a \in {"runner"} \cup Wakes, Escalate(a) PROVE LateInv'
  <2>1. Stray' = Stray
    <3>1. PICK s \in Statement : s.awaited /\ queue' = Append(queue, s)
        BY <1>3, <1>r, SendTyped DEF Escalate
    <3> QED
        BY <3>1, StrayOfAppend
  <2>2. Ahead' \subseteq Ahead
      BY <1>3, <1>r DEF Escalate, Ahead, TypeOK
  <2>3. UNCHANGED <<rec, late, faults>>
      BY <1>3 DEF Escalate, history
  <2> QED
      BY <1>c, <2>1, <2>2, <2>3, LateFrame DEF Counts, HardKilled
<1>4. ASSUME NEW a \in {"runner"} \cup Wakes, WriteTimesOut(a) PROVE LateInv'
  <2>1. PICK place \in {"idle", "waiting"} : at' = [at EXCEPT ![a] = place]
      BY <1>4 DEF WriteTimesOut
  <2>2. /\ at[a] = "writing" /\ queue' = Abandoned(a)
        /\ faults' = faults + 1 /\ UNCHANGED <<rec, late>>
      BY <1>4 DEF WriteTimesOut, Fault
  <2>3. Cardinality(Stray') <= Cardinality(Stray) + 1
      BY <1>r, <2>2, StrayOfAbandon
  <2>4. HardKilled' = HardKilled
      BY <2>2 DEF HardKilled
  <2>5. CASE ~HardKilled
      BY <1>c, <2>2, <2>3, <2>4, <2>5 DEF LateInv, Counts
  <2>6. CASE HardKilled
    <3>1. a \in Wakes
        BY <1>i, <2>2, <2>6
    <3>2. Cardinality(Ahead') = Cardinality(Ahead) - 1
        BY <2>1, <2>2, <3>1, AheadLess
    <3> QED
        BY <1>c, <2>2, <2>3, <2>4, <2>6, <3>2 DEF LateInv, Counts
  <2> QED
      BY <2>5, <2>6
<1>5. CASE RecordFailure
  <2>1. ~HardKilled
      BY <1>5, <1>i DEF RecordFailure
  <2>2. UNCHANGED <<late, faults>>
      BY <1>5 DEF RecordFailure
  <2>3. Cardinality(Stray') <= Cardinality(Stray)
    <3>1. CASE ~Kills
        BY <1>5, <1>q, <3>1 DEF RecordFailure
    <3>2. CASE Kills
      <4>1. PICK s \in Statement : s.awaited /\ queue' = Append(queue, s)
          BY <1>5, <1>r, <3>2, SendTyped DEF RecordFailure
      <4> QED
          BY <1>c, <4>1, StrayOfAppend DEF Counts
    <3> QED
        BY <3>1, <3>2
  <2> QED
      BY <1>c, <2>1, <2>2, <2>3, LateFrame DEF Counts
<1>6. ASSUME NEW a \in {"runner", "retry"}, KillPersisted(a) \/ KillRefused(a)
      PROVE  LateInv'
  <2>1. /\ at' = [at EXCEPT ![a] = "idle"] /\ UNCHANGED <<queue, late, faults>>
      BY <1>6 DEF KillPersisted, KillRefused, Release, database, history
  <2>2. HardKilled => HardKilled'
    <3>1. rec \in Record
        BY DEF TypeOK
    <3> QED
        BY <1>6, <3>1 DEF KillPersisted, KillRefused, Mirrored, HardKilled, Record
  <2>9. Ahead' \subseteq Ahead
      BY <1>r, <1>s, <2>1
  <2> QED
      BY <1>c, <1>q, <2>1, <2>2, <2>9, LateFrame DEF Counts
<1>7. CASE RetryTick
  <2>1. /\ at' = [at EXCEPT !["retry"] = "waiting"] /\ UNCHANGED <<rec, queue, late, faults>>
      BY <1>7 DEF RetryTick, database, history
  <2>9. Ahead' \subseteq Ahead
      BY <1>r, <1>s, <2>1
  <2> QED
      BY <1>c, <1>q, <2>1, <2>9, LateFrame DEF Counts, HardKilled
<1>8. CASE RetryOnce
  <2>1. /\ \E place \in {"sent", "idle"} : at' = [at EXCEPT !["retry"] = place]
        /\ UNCHANGED <<rec, late, faults>>
      BY <1>8 DEF RetryOnce, history
  <2>2. Cardinality(Stray') <= Cardinality(Stray)
    <3>1. CASE ~StillPending
        BY <1>8, <1>q, <3>1 DEF RetryOnce
    <3>2. CASE StillPending
      <4>1. PICK s \in Statement : s.awaited /\ queue' = Append(queue, s)
          BY <1>8, <1>r, <3>2, SendTyped DEF RetryOnce
      <4> QED
          BY <1>c, <4>1, StrayOfAppend DEF Counts
    <3> QED
        BY <3>1, <3>2
  <2>9. Ahead' \subseteq Ahead
      BY <1>r, <1>s, <2>1
  <2> QED
      BY <1>c, <2>1, <2>2, <2>9, LateFrame DEF Counts, HardKilled
<1>9. CASE SendClear
  <2>1. /\ at' = [at EXCEPT !["admin"] = "sent"] /\ UNCHANGED <<rec, late, faults>>
      BY <1>9 DEF SendClear, history
  <2>2. PICK skip \in BOOLEAN : SendClearing("admin", rec.killed, skip)
      BY <1>9 DEF SendClear
  <2>3. PICK s \in Statement : s.awaited /\ queue' = Append(queue, s)
      BY <2>2, SendClearingTyped
  <2>4. Cardinality(Stray') <= Cardinality(Stray)
      BY <1>c, <2>3, StrayOfAppend DEF Counts
  <2>9. Ahead' \subseteq Ahead
      BY <1>r, <1>s, <2>1
  <2> QED
      BY <1>c, <2>1, <2>4, <2>9, LateFrame DEF Counts, HardKilled
<1>10. CASE RetryTimesOut \/ AdminGone
  <2>1. PICK a \in {"retry", "admin"} :
            at' = [at EXCEPT ![a] = "idle"] /\ queue' = Abandoned(a)
      BY <1>10 DEF RetryTimesOut, AdminGone, Release
  <2>2. faults' = faults + 1 /\ UNCHANGED <<rec, late>>
      BY <1>10 DEF RetryTimesOut, AdminGone, Fault
  <2>3. Stray' = Stray
      BY <1>r, <2>1, StrayOfAbandon
  <2>9. Ahead' \subseteq Ahead
      BY <1>r, <1>s, <2>1
  <2> QED
      BY <1>c, <2>1, <2>2, <2>3, <2>9, LateFrame DEF Counts, HardKilled
<1>11. CASE ClearRefused
  <2>1. at' = [at EXCEPT !["admin"] = "idle"] /\ UNCHANGED <<rec, queue, late, faults>>
      BY <1>11 DEF ClearRefused, Release, database, history
  <2>9. Ahead' \subseteq Ahead
      BY <1>r, <1>s, <2>1
  <2> QED
      BY <1>c, <1>q, <2>1, <2>9, LateFrame DEF Counts, HardKilled
\* Where the kill is lifted, or the process starts anew, the count does too.
<1>12. CASE MirrorClear \/ Restart
  <2>1. late' = 0 /\ faults <= faults' /\ Cardinality(Stray') <= Cardinality(Stray)
    <3>1. CASE MirrorClear
        BY <1>c, <1>q, <3>1 DEF MirrorClear, database, Counts
    <3>2. CASE Restart
      <4>1. Stray' = {} /\ late' = 0 /\ faults' = faults + 1
          BY <3>2 DEF Restart, Fault, Stray
      <4> QED
          BY <1>c, <4>1, FS_EmptySet DEF Counts
    <3> QED
        BY <1>12, <3>1, <3>2
  <2> QED
      BY <1>c, <2>1 DEF LateInv, Counts
<1>13. ASSUME NEW w \in Wakes, WakeFails(w) PROVE LateInv'
  <2>1. at' = [at EXCEPT ![w] = "idle"] /\ UNCHANGED <<rec, queue, late, faults>>
      BY <1>13 DEF WakeFails, database, history
  <2>9. Ahead' \subseteq Ahead
      BY <1>r, <1>s, <2>1
  <2> QED
      BY <1>c, <1>q, <2>1, <2>9, LateFrame DEF Counts, HardKilled
\* A fire comes to its turn: of a wake, which is on its way no more, or of nobody.
<1>14. CASE Execute
  <2> DEFINE s == Head(queue)
  <2>1. queue # <<>> /\ queue' = Tail(queue) /\ UNCHANGED <<rec, faults>>
      BY <1>14 DEF Execute
  <2>2. /\ s \in Statement /\ 1 \in DOMAIN queue /\ s = queue[1]
        /\ s.by \in Actors /\ s.op \in {"fire", "kill", "clear"}
      BY <2>1, AfterTail DEF Statement
  <2>3. /\ Cardinality(Stray') = Cardinality(Stray \ {1})
        /\ Cardinality(Stray \ {1}) =
               IF 1 \in Stray THEN Cardinality(Stray) - 1 ELSE Cardinality(Stray)
      BY <1>c, <2>1, StrayOfTail, FS_RemoveElement DEF Counts
  <2>4. PICK place \in {"written", "idle", "done"} : Answer(s, place)
      BY <1>14 DEF Execute
  <2>5. Ahead' \subseteq Ahead
      BY <1>s, <2>2, <2>4 DEF Answer, Ahead
  <2>6. HardKilled' = HardKilled
      BY <2>1 DEF HardKilled
  <2>7. CASE late' = late
      BY <1>c, <2>1, <2>3, <2>5, <2>6, <2>7, LateFrame DEF Counts
  <2>8. CASE late' # late
    <3>1. s.op = "fire" /\ HardKilled /\ late' = late + 1
        BY <1>14, <2>2, <2>8 DEF Execute, HardKilled
    <3>2. CASE s.awaited
      <4>1. at[s.by] = "writing" /\ s.by \in {"runner"} \cup Wakes
          BY <2>2, <3>1, <3>2 DEF QueueInv, SendersWait, SendersKnown
      <4>2. s.by \in Wakes /\ at' = [at EXCEPT ![s.by] = place]
          BY <1>i, <2>4, <3>1, <3>2, <4>1 DEF Answer
      <4>3. Cardinality(Ahead') = Cardinality(Ahead) - 1
          BY <4>1, <4>2, AheadLess
      <4>4. 1 \notin Stray
          BY <2>2, <3>2 DEF Stray
      <4> QED
          BY <1>c, <2>1, <2>3, <2>6, <3>1, <4>3, <4>4 DEF LateInv, Counts
    <3>3. CASE ~s.awaited
      <4>1. 1 \in Stray
          BY <2>2, <3>1, <3>3 DEF Stray
      <4>2. Cardinality(Ahead') <= Cardinality(Ahead)
          BY <1>c, <2>5, FS_Subset DEF Counts
      <4> QED
          BY <1>c, <2>1, <2>3, <2>6, <3>1, <4>1, <4>2 DEF LateInv, Counts
    <3> QED
        BY <3>2, <3>3
  <2> QED
      BY <2>7, <2>8
<1>15. CASE ExecuteFails
  <2>1. /\ queue # <<>> /\ queue' = Tail(queue) /\ faults' = faults + 1
        /\ UNCHANGED <<rec, late>>
        /\ \E place \in {"idle", "failed"} : Answer(Head(queue), place)
      BY <1>15 DEF ExecuteFails, Fault
  <2>2. Head(queue).by \in Actors
      BY <2>1, AfterTail DEF Statement
  <2>3. Cardinality(Stray') <= Cardinality(Stray)
    <3>1. /\ Cardinality(Stray') = Cardinality(Stray \ {1})
          /\ Cardinality(Stray \ {1}) =
                 IF 1 \in Stray THEN Cardinality(Stray) - 1 ELSE Cardinality(Stray)
        BY <1>c, <2>1, StrayOfTail, FS_RemoveElement DEF Counts
    <3> QED
        BY <1>c, <3>1 DEF Counts
  <2>4. Ahead' \subseteq Ahead
      BY <1>s, <2>1, <2>2 DEF Answer, Ahead
  <2> QED
      BY <1>c, <2>1, <2>3, <2>4, LateFrame DEF Counts, HardKilled
<1>16. CASE Elapse \/ ProbationEnds
  <2>1. rec'.killed = rec.killed /\ rec'.pending = rec.pending
    <3>1. rec \in Record
        BY DEF TypeOK
    <3> QED
        BY <1>16, <3>1 DEF Elapse, ProbationEnds, Record
  <2>2. UNCHANGED <<at, queue, late, faults>>
      BY <1>16 DEF Elapse, ProbationEnds, database, history
  <2>3. Ahead' = Ahead /\ HardKilled' = HardKilled
      BY <2>1, <2>2 DEF Ahead, HardKilled
  <2> QED
      BY <1>c, <1>q, <2>2, <2>3, LateFrame DEF Counts
<1>17. CASE UNCHANGED vars
  <2>1. UNCHANGED <<rec, at, queue, late, faults>>
      BY <1>17 DEF vars, memory, database, history
  <2>2. Ahead' = Ahead /\ HardKilled' = HardKilled
      BY <2>1 DEF Ahead, HardKilled
  <2> QED
      BY <1>c, <1>q, <2>1, <2>2, LateFrame DEF Counts
<1> QED
    BY <1>1, <1>2, <1>3, <1>4, <1>5, <1>6, <1>7, <1>8, <1>9, <1>10, <1>11, <1>12, <1>13,
       <1>14, <1>15, <1>16, <1>17
    DEF Next, Runner, Retry, Answered, Tick, Interesting, ForceWake

LEMMA InitLate == Init => LateInv
<1> SUFFICES ASSUME Init PROVE LateInv
    OBVIOUS
<1>1. Stray = {} /\ Ahead = {} /\ late = 0 /\ faults = 0
    BY DEF Init, Stray, Ahead, Actors
<1>2. Counts
    BY InitInv, Counted DEF IInv
<1> QED
    BY <1>1, <1>2, FS_EmptySet DEF LateInv, Counts

(***************************************************************************)
(* Theorems                                                                *)
(***************************************************************************)
LEMMA InvAlways == Spec => []IInv
<1>1. IInv /\ [Next]_vars => IInv'
    BY TypeStep, QueueStep, AgreementStep DEF IInv, Agreement
<1> QED
    BY <1>1, InitInv, PTL DEF Spec

\* Every reachable state is well typed; the lock of record_failure, the retries and the
\* admin's clear (quarantine.rs, op_lock_for) has a holder with a statement out.
THEOREM TypeCorrect == Spec => []TypeOK
<1>1. IInv => TypeOK
    BY DEF IInv
<1> QED
    BY <1>1, InvAlways, PTL

\* For any number of wakes, time-outs, failures and restarts, a sentinel whose row is
\* hard-killed is blocked in memory (quarantine.rs, is_blocked).
THEOREM GateNeverLags == Spec => []GateAgrees
<1>1. IInv => GateAgrees
    BY DEF IInv
<1> QED
    BY <1>1, InvAlways, PTL

\* After an answered admin_clear_quarantine nothing kills the sentinel, in memory or in
\* its row, until record_failure decides it anew.
THEOREM ClearsAreFinal == Spec => []ClearIsFinal
<1>1. IInv => ClearIsFinal
    BY DEF IInv
<1> QED
    BY <1>1, InvAlways, PTL

\* No task waits for an answer that cannot come: a kill, a clear or a fire that its
\* sender waits for is still in the database's queue (quarantine.rs, runtime.rs).
THEOREM WaitersServed == Spec => []NobodyForgotten
<1>1. IInv => NobodyForgotten
    BY DEF IInv, QueueInv
<1> QED
    BY <1>1, InvAlways, PTL

\* Between the decision to kill and its clear, a sentinel fires no more often than
\* wakes had passed the gate and writes had timed out (runtime.rs).
THEOREM LateFires == Spec => []LateFiresBounded
<1>1. IInv /\ LateInv => LateFiresBounded
  <2> SUFFICES ASSUME IInv, LateInv PROVE LateFiresBounded
      OBVIOUS
  <2>1. Counts
      BY Counted DEF IInv
  <2> QED
      BY <2>1 DEF LateInv, LateFiresBounded, Counts
<1> QED
    BY <1>1, InvAlways, InitLate, LateStep, PTL DEF Spec
=============================================================================
