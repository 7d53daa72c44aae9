-------------------------- MODULE CdcEnqueueProofs --------------------------
(***************************************************************************)
(* Proofs about CdcEnqueue: what the cursor passes, how far the cap can be *)
(* exceeded, and how long a deposed producer goes on.                      *)
(***************************************************************************)
EXTENDS CdcEnqueue, FiniteSetTheorems, TLAPS

(***************************************************************************)
(* Types                                                                   *)
(***************************************************************************)
LEMMA Bounds ==
    /\ Len(Feed) \in Nat
    /\ SkipAfter \in Nat \ {0} /\ Batch \in Nat \ {0} /\ MaxStarts \in Nat
BY EnqueueAssumption

LEMMA InitTypeOK == Init => TypeOK
<1> SUFFICES ASSUME Init PROVE TypeOK
    OBVIOUS
<1>1. \A p \in Instances : producer[p] = "off" /\ cursor[p] = 0
    BY DEF Init
<1>2. fails \in [Instances -> 0 .. SkipAfter - 1]
    BY Bounds DEF Init
<1>3. /\ cursor \in [Instances -> Nat] /\ upto \in [Instances -> Nat]
      /\ strays \in [Instances -> Nat]
    BY DEF Init
<1>4. fired \in 0..Len(Feed) /\ starts \in 0..MaxStarts
    BY Bounds DEF Init
<1>5. /\ row \in [Causes -> {"none", "open", "ended"}]
      /\ producer \in [Instances -> {"off", "idle", "sweeping", "inserting"}]
    BY DEF Init
<1>6. enqueued \in SUBSET Causes /\ holder \in Instances \cup {None} /\ live \in BOOLEAN
    BY DEF Init
<1>7. \A p \in Instances :
          /\ cursor[p] <= fired
          /\ producer[p] \notin {"sweeping", "inserting"}
    BY <1>1 DEF Init
<1> QED
    BY <1>2, <1>3, <1>4, <1>5, <1>6, <1>7 DEF TypeOK

\* Moving past the fire at hand, or leaving it, keeps a batch where it was.
LEMMA MoveTypeOK ==
    ASSUME TypeOK, NEW p \in Instances, producer[p] \in {"sweeping", "inserting"},
           cursor[p] < upto[p],
           UNCHANGED <<fired, claim, starts>>,
           \/ Advance(p)
           \/ Break(p) /\ fails' \in [Instances -> 0 .. SkipAfter - 1],
           row' \in [Causes -> {"none", "open", "ended"}],
           enqueued' \in SUBSET Causes,
           strays' \in [Instances -> Nat]
    PROVE  TypeOK'
<1>1. Len(Feed) \in Nat
    BY EnqueueAssumption
<1>2. CASE Advance(p)
    BY <1>1, <1>2, EnqueueAssumption DEF TypeOK, Advance, claim
<1>3. CASE Break(p) /\ fails' \in [Instances -> 0 .. SkipAfter - 1]
    BY <1>1, <1>3, EnqueueAssumption DEF TypeOK, Break, claim
<1> QED
    BY <1>2, <1>3

\* The fire at hand of a batch is one of the feed.
LEMMA AtTyped ==
    ASSUME TypeOK, NEW p \in Instances, producer[p] \in {"sweeping", "inserting"},
           cursor[p] < upto[p]
    PROVE  /\ cursor[p] + 1 \in 1..Len(Feed)
           /\ At(p) \in Causes
           /\ At(p) = Feed[cursor[p] + 1]
<1>1. Len(Feed) \in Nat /\ Feed \in [1..Len(Feed) -> Causes]
    BY EnqueueAssumption
<1>2. cursor[p] \in Nat /\ upto[p] \in Nat /\ upto[p] <= fired /\ fired \in 0..Len(Feed)
    BY DEF TypeOK
<1>3. cursor[p] + 1 \in 1..Len(Feed)
    BY <1>1, <1>2
<1> QED
    BY <1>1, <1>3 DEF At

\* An insert moves to a fire of the feed and enqueues its cause at most.
LEMMA InsertTypeOK ==
    ASSUME TypeOK, NEW p \in Instances, Insert(p)
    PROVE  TypeOK'
<1>1. producer[p] = "inserting" /\ cursor[p] < upto[p]
    BY DEF Insert, TypeOK
<1>2. At(p) \in Causes
    BY <1>1, AtTyped
<1>3. /\ row' \in [Causes -> {"none", "open", "ended"}]
      /\ enqueued' \in SUBSET Causes
    BY <1>2 DEF Insert, TypeOK, queue
<1>4. strays' \in [Instances -> Nat]
  <2>1. CASE KeyTaken(At(p))
      BY <2>1 DEF Insert, TypeOK
  <2>2. CASE ~KeyTaken(At(p))
    <3>1. strays' = [strays EXCEPT ![p] = IF Foreign(p) THEN @ + 1 ELSE @]
        BY <2>2 DEF Insert
    <3> QED
        BY <3>1 DEF TypeOK
  <2> QED
      BY <2>1, <2>2
<1> QED
    BY <1>1, <1>3, <1>4, MoveTypeOK DEF Insert

THEOREM TypeCorrect == Spec => []TypeOK
<1>1. TypeOK /\ [Next]_vars => TypeOK'
  <2> SUFFICES ASSUME TypeOK, [Next]_vars PROVE TypeOK'
      OBVIOUS
  <2> USE Bounds
  <2>1. CASE InsertFire
      BY <2>1 DEF TypeOK, InsertFire, queue, claim, task
  <2>2. ASSUME NEW c \in Causes, EndRow(c) \/ Prune(c) PROVE TypeOK'
    <3>1. row' \in [Causes -> {"none", "open", "ended"}]
        BY <2>2 DEF TypeOK, EndRow, Prune
    <3>2. UNCHANGED <<fired, enqueued, claim, producer, task, strays, starts>>
        BY <2>2 DEF EndRow, Prune
    <3> QED
        BY <3>1, <3>2 DEF TypeOK, claim, task
  <2>3. CASE GoStale \/ Heartbeat
    <3>1. live' \in BOOLEAN /\ strays' \in [Instances -> Nat]
      <4>1. CASE GoStale
          BY <4>1 DEF GoStale
      <4>2. CASE Heartbeat
          BY <4>2 DEF TypeOK, Heartbeat
      <4> QED
          BY <2>3, <4>1, <4>2
    <3>2. UNCHANGED <<fired, queue, holder, producer, task, starts>>
        BY <2>3 DEF GoStale, Heartbeat
    <3> QED
        BY <3>1, <3>2 DEF TypeOK, queue, task
  <2>4. ASSUME NEW p \in Instances, Start(p) PROVE TypeOK'
      BY <2>4 DEF TypeOK, Start, queue, task
  <2>5. ASSUME NEW p \in Instances, Stop(p) PROVE TypeOK'
      BY <2>5 DEF TypeOK, Stop, queue, claim
  <2>6. ASSUME NEW p \in Instances, Tick(p) PROVE TypeOK'
    <3>1. /\ BatchEnd(p) \in Nat
          /\ cursor[p] <= BatchEnd(p) /\ BatchEnd(p) <= fired
        BY <2>6 DEF Tick, BatchEnd, TypeOK
    <3> QED
        BY <2>6, <3>1 DEF TypeOK, Tick, queue, claim
  <2>7. ASSUME NEW p \in Instances, TickEnds(p) PROVE TypeOK'
      BY <2>7 DEF TypeOK, TickEnds, queue, claim
  <2>8. ASSUME NEW p \in Instances, CountRoom(p) PROVE TypeOK'
      BY <2>8 DEF TypeOK, CountRoom, queue, claim, task
  <2>9. ASSUME NEW p \in Instances, CountFull(p) PROVE TypeOK'
      BY <2>9, MoveTypeOK DEF TypeOK, CountFull, Refused, queue
  <2>10. ASSUME NEW p \in Instances, Insert(p) PROVE TypeOK'
      BY <2>10, InsertTypeOK
  <2>11. ASSUME NEW p \in Instances, InsertPoisoned(p) PROVE TypeOK'
    <3>1. producer[p] = "inserting" /\ cursor[p] < upto[p]
        BY <2>11 DEF InsertPoisoned, TypeOK
    <3>2. ~Skips(p) => fails' \in [Instances -> 0 .. SkipAfter - 1]
      <4>1. \A n \in 0 .. SkipAfter - 1 :
               (IF n + 1 < SkipAfter THEN n + 1 ELSE n) \in 0 .. SkipAfter - 1
          OBVIOUS
      <4>2. ~Skips(p) =>
               fails' = [fails EXCEPT ![p] = IF @ + 1 < SkipAfter THEN @ + 1 ELSE @]
          BY <2>11 DEF InsertPoisoned
      <4>3. fails \in [Instances -> 0 .. SkipAfter - 1]
          BY DEF TypeOK
      <4> QED
          BY <4>1, <4>2, <4>3
    <3> QED
        BY <2>11, <3>1, <3>2, MoveTypeOK DEF TypeOK, InsertPoisoned, queue
  <2>12. ASSUME NEW p \in Instances, Fault(p) PROVE TypeOK'
      BY <2>12, MoveTypeOK DEF TypeOK, Fault, queue
  <2>13. CASE UNCHANGED vars
      BY <2>13 DEF TypeOK, vars, queue, claim, task
  <2> QED
      BY <2>1, <2>2, <2>3, <2>4, <2>5, <2>6, <2>7, <2>8, <2>9, <2>10, <2>11, <2>12,
         <2>13
      DEF Next
<1> QED
    BY InitTypeOK, <1>1, PTL DEF Spec

(***************************************************************************)
(* What the cursor passes                                                  *)
(***************************************************************************)
\* A duplicate is of a cause that was enqueued: that is why the cursor may pass.
KeysKnown == \A c \in Causes : row[c] # "none" => c \in enqueued

Kept == KeysKnown /\ NothingDropped

\* One producer moves one fire ahead, or none does.
LEMMA MoveKeeps ==
    ASSUME TypeOK, Kept, NEW p \in Instances, producer[p] \in {"sweeping", "inserting"},
           cursor[p] < upto[p],
           Advance(p), KeysKnown', enqueued \subseteq enqueued',
           At(p) \in enqueued' \cup Poison
    PROVE  Kept'
<1>1. \A q \in Instances : cursor'[q] = IF q = p THEN cursor[p] + 1 ELSE cursor[q]
    BY DEF Advance, TypeOK
<1>2. cursor[p] \in Nat
    BY DEF TypeOK
<1>3. \A f \in 1 .. cursor[p] + 1 : Feed[f] \in enqueued' \cup Poison
    BY <1>2 DEF At, Kept, NothingDropped
<1> QED
    BY <1>1, <1>3 DEF Kept, NothingDropped

LEMMA StillKeeps ==
    ASSUME TypeOK, Kept, UNCHANGED enqueued, KeysKnown',
           \A p \in Instances : cursor'[p] \in {0, cursor[p]}
    PROVE  Kept'
<1>1. \A p \in Instances : cursor[p] \in Nat
    BY DEF TypeOK
<1>2. ASSUME NEW p \in Instances, NEW f \in 1..cursor'[p]
      PROVE  Feed[f] \in enqueued' \cup Poison
  <2>1. f \in 1..cursor[p]
      BY <1>1
  <2> QED
      BY <2>1 DEF Kept, NothingDropped
<1> QED
    BY <1>2 DEF Kept, NothingDropped

THEOREM CursorDropsNothing == Spec => []NothingDropped
<1>1. Init => Kept
    BY DEF Init, Kept, KeysKnown, NothingDropped
<1>2. TypeOK /\ Kept /\ [Next]_vars => Kept'
  <2> SUFFICES ASSUME TypeOK, Kept, [Next]_vars PROVE Kept'
      OBVIOUS
  <2>1. ASSUME UNCHANGED <<row, enqueued, cursor>> PROVE Kept'
      BY <2>1 DEF Kept, KeysKnown, NothingDropped
  <2>2. ASSUME NEW c \in Causes, EndRow(c) \/ Prune(c) PROVE Kept'
    <3>1. KeysKnown'
        BY <2>2 DEF EndRow, Prune, TypeOK, Kept, KeysKnown
    <3> QED
        BY <2>2, <3>1, StillKeeps DEF EndRow, Prune, task
  <2>3. ASSUME NEW p \in Instances, Stop(p) PROVE Kept'
    <3>1. KeysKnown' /\ UNCHANGED enqueued
        BY <2>3 DEF Stop, queue, Kept, KeysKnown
    <3>2. \A q \in Instances : cursor'[q] \in {0, cursor[q]}
        BY <2>3 DEF Stop, TypeOK
    <3> QED
        BY <3>1, <3>2, StillKeeps
  <2>4. ASSUME NEW p \in Instances, CountFull(p) PROVE Kept'
    <3>1. producer[p] \in {"sweeping", "inserting"} /\ cursor[p] < upto[p]
        BY <2>4 DEF CountFull
    <3>2. At(p) \in Causes
        BY <3>1, AtTyped
    <3>3. KeysKnown' /\ UNCHANGED enqueued
        BY <2>4 DEF CountFull, queue, Kept, KeysKnown
    <3>4. CASE row[At(p)] # "none"
      <4>1. At(p) \in enqueued
          BY <3>2, <3>4 DEF Kept, KeysKnown
      <4> QED
          BY <2>4, <3>1, <3>3, <3>4, <4>1, MoveKeeps DEF CountFull
    <3>5. CASE row[At(p)] = "none"
        BY <2>4, <3>3, <3>5, StillKeeps DEF CountFull, Refused, Break
    <3> QED
        BY <3>4, <3>5
  <2>5. ASSUME NEW p \in Instances, Insert(p) PROVE Kept'
    <3>1. producer[p] = "inserting" /\ cursor[p] < upto[p]
        BY <2>5 DEF Insert, TypeOK
    <3>2. At(p) \in Causes
        BY <3>1, AtTyped
    <3>3. KeysKnown' /\ enqueued \subseteq enqueued' /\ At(p) \in enqueued'
      <4>1. CASE KeyTaken(At(p))
          BY <2>5, <3>2, <4>1 DEF Insert, KeyTaken, queue, Kept, KeysKnown
      <4>2. CASE ~KeyTaken(At(p))
          BY <2>5, <3>2, <4>2 DEF Insert, Kept, KeysKnown, TypeOK
      <4> QED
          BY <4>1, <4>2
    <3> QED
        BY <2>5, <3>1, <3>3, MoveKeeps DEF Insert
  <2>6. ASSUME NEW p \in Instances, InsertPoisoned(p) PROVE Kept'
    <3>1. producer[p] = "inserting" /\ cursor[p] < upto[p]
        BY <2>6 DEF InsertPoisoned, TypeOK
    <3>2. KeysKnown' /\ UNCHANGED enqueued
        BY <2>6 DEF InsertPoisoned, queue, Kept, KeysKnown
    <3>3. CASE Skips(p)
        BY <2>6, <3>1, <3>2, <3>3, MoveKeeps DEF InsertPoisoned
    <3>4. CASE ~Skips(p)
        BY <2>6, <3>2, <3>4, StillKeeps DEF InsertPoisoned, Break
    <3> QED
        BY <3>3, <3>4
  <2>7. ASSUME NEW p \in Instances,
               Start(p) \/ Tick(p) \/ TickEnds(p) \/ CountRoom(p) \/ Fault(p)
        PROVE  UNCHANGED <<row, enqueued, cursor>>
      BY <2>7 DEF Start, Tick, TickEnds, CountRoom, Fault, Break, queue, task
  <2>8. InsertFire \/ GoStale \/ Heartbeat \/ UNCHANGED vars
           => UNCHANGED <<row, enqueued, cursor>>
      BY DEF InsertFire, GoStale, Heartbeat, vars, queue, task
  <2> QED
      BY <2>1, <2>2, <2>3, <2>4, <2>5, <2>6, <2>7, <2>8 DEF Next
<1> QED
    BY <1>1, <1>2, TypeCorrect, PTL DEF Spec, Kept

(***************************************************************************)
(* How long a deposed producer goes on                                     *)
(***************************************************************************)
\* The strays of a tenure and the rest of the batch fit in one batch, and there
\* are none while nobody else holds the claim live.
Straying ==
    \A p \in Instances :
        /\ ~Foreign(p) => strays[p] = 0
        /\ strays[p] <= Batch
        /\ producer[p] \in {"sweeping", "inserting"} =>
              strays[p] + (upto[p] - cursor[p]) <= Batch

\* A step that moves nobody's claim, and one producer ahead by the rows it counts.
LEMMA MoveStrays ==
    ASSUME TypeOK, Straying, UNCHANGED claim, NEW p \in Instances,
           \/ producer'[p] \in {"off", "idle"} /\ strays'[p] = strays[p]
           \/ /\ producer[p] \in {"sweeping", "inserting"}
              /\ upto'[p] = upto[p]
              /\ cursor'[p] \in {cursor[p], cursor[p] + 1}
              /\ cursor'[p] <= upto[p]
              /\ \/ strays'[p] = strays[p]
                 \/ /\ strays'[p] = strays[p] + 1
                    /\ Foreign(p)
                    /\ cursor'[p] = cursor[p] + 1,
           \A q \in Instances \ {p} :
              /\ producer'[q] = producer[q] /\ cursor'[q] = cursor[q]
              /\ upto'[q] = upto[q] /\ strays'[q] = strays[q]
    PROVE  Straying'
<1>1. \A q \in Instances : Foreign(q)' <=> Foreign(q)
    BY DEF Foreign, claim
<1>2. /\ \A q \in Instances : cursor[q] \in Nat /\ upto[q] \in Nat /\ strays[q] \in Nat
      /\ Batch \in Nat
    BY Bounds DEF TypeOK
<1>3. ASSUME NEW q \in Instances \ {p}
      PROVE  /\ ~Foreign(q)' => strays'[q] = 0
             /\ strays'[q] <= Batch
             /\ producer'[q] \in {"sweeping", "inserting"} =>
                   strays'[q] + (upto'[q] - cursor'[q]) <= Batch
    BY <1>1 DEF Straying
<1>4. /\ ~Foreign(p)' => strays'[p] = 0
      /\ strays'[p] <= Batch
      /\ producer'[p] \in {"sweeping", "inserting"} =>
            strays'[p] + (upto'[p] - cursor'[p]) <= Batch
    BY <1>1, <1>2 DEF Straying
<1> QED
    BY <1>3, <1>4 DEF Straying

THEOREM DeposedEndItsBatch == Spec => []StraysBounded
<1>1. Init => Straying
    BY Bounds DEF Init, Straying
<1>2. TypeOK /\ TypeOK' /\ Straying /\ [Next]_vars => Straying'
  <2> SUFFICES ASSUME TypeOK, TypeOK', Straying, [Next]_vars PROVE Straying'
      OBVIOUS
  <2>1. ASSUME UNCHANGED <<claim, producer, cursor, upto, strays>> PROVE Straying'
      BY <2>1 DEF Straying, Foreign, claim
  <2>2. ASSUME NEW p \in Instances, Start(p) PROVE Straying'
    <3>1. \A q \in Instances : strays'[q] = 0 /\ cursor'[q] = cursor[q] /\ upto'[q] = upto[q]
        BY <2>2 DEF Start, task
    <3>2. \A q \in Instances :
             producer'[q] \in {"sweeping", "inserting"} => producer'[q] = producer[q]
        BY <2>2 DEF Start, TypeOK
    <3>3. \A q \in Instances : strays[q] \in Nat /\ cursor[q] \in Nat /\ upto[q] \in Nat
        BY DEF TypeOK
    <3> QED
        BY <3>1, <3>2, <3>3, Bounds DEF Straying
  <2>3. CASE GoStale
    <3>1. \A q \in Instances : strays'[q] = 0
        BY <2>3 DEF GoStale
    <3>2. UNCHANGED <<producer, cursor, upto>>
        BY <2>3 DEF GoStale, task
    <3>3. \A q \in Instances : strays[q] \in Nat /\ cursor[q] \in Nat /\ upto[q] \in Nat
        BY DEF TypeOK
    <3> QED
        BY <3>1, <3>2, <3>3, Bounds DEF Straying
  <2>4. CASE Heartbeat
    <3>1. \A q \in Instances : strays[q] = 0
        BY <2>4 DEF Heartbeat, Straying, Foreign
    <3>2. UNCHANGED <<producer, cursor, upto, strays>>
        BY <2>4 DEF Heartbeat, task
    <3> QED
        BY <3>1, <3>2 DEF Straying
  <2>5. ASSUME NEW p \in Instances, Tick(p) PROVE Straying'
    <3>1. strays[p] = 0
        BY <2>5 DEF Tick, Fenced, Straying
    <3>2. BatchEnd(p) - cursor[p] <= Batch
        BY <2>5, Bounds DEF Tick, BatchEnd, TypeOK
    <3>3. /\ upto'[p] = BatchEnd(p)
          /\ \A q \in Instances \ {p} : upto'[q] = upto[q] /\ producer'[q] = producer[q]
        BY <2>5 DEF Tick, TypeOK
    <3>4. UNCHANGED <<claim, cursor, strays>>
        BY <2>5 DEF Tick
    <3>5. BatchEnd(p) \in Nat /\ cursor[p] \in Nat
      <4>1. cursor[p] \in Nat /\ fired \in Nat
          BY Bounds DEF TypeOK
      <4> QED
          BY <4>1, Bounds DEF BatchEnd
    <3>6. ASSUME NEW q \in Instances
          PROVE  /\ ~Foreign(q)' => strays'[q] = 0
                 /\ strays'[q] <= Batch
                 /\ producer'[q] \in {"sweeping", "inserting"} =>
                       strays'[q] + (upto'[q] - cursor'[q]) <= Batch
      <4>1. Foreign(q)' <=> Foreign(q)
          BY <3>4 DEF Foreign, claim
      <4>2. CASE q = p
          BY <3>1, <3>2, <3>3, <3>4, <3>5, <4>2, Bounds
      <4>3. CASE q # p
          BY <3>3, <3>4, <4>1, <4>3 DEF Straying
      <4> QED
          BY <4>2, <4>3
    <3> QED
        BY <3>6 DEF Straying
  <2>6. ASSUME NEW p \in Instances, Stop(p) \/ TickEnds(p) \/ Fault(p) PROVE Straying'
    <3>1. UNCHANGED <<claim, strays>> /\ producer'[p] \in {"off", "idle"}
        BY <2>6 DEF Stop, TickEnds, Fault, Break, TypeOK
    <3>2. \A q \in Instances \ {p} :
             /\ producer'[q] = producer[q] /\ cursor'[q] = cursor[q]
             /\ upto'[q] = upto[q]
        BY <2>6 DEF Stop, TickEnds, Fault, Break, TypeOK
    <3> QED
        BY <3>1, <3>2, MoveStrays
  <2>7. ASSUME NEW p \in Instances, CountRoom(p) PROVE Straying'
    <3>1. UNCHANGED <<claim, strays, cursor, upto>>
        BY <2>7 DEF CountRoom, task
    <3>2. \A q \in Instances \ {p} : producer'[q] = producer[q]
        BY <2>7 DEF CountRoom, TypeOK
    <3>3. producer[p] = "sweeping" /\ cursor[p] <= upto[p] /\ cursor[p] \in Nat
        BY <2>7 DEF CountRoom, TypeOK
    <3> QED
        BY <3>1, <3>2, <3>3, MoveStrays
  <2>8. ASSUME NEW p \in Instances, CountFull(p) \/ InsertPoisoned(p) PROVE Straying'
    <3>1. /\ producer[p] \in {"sweeping", "inserting"} /\ cursor[p] < upto[p]
          /\ UNCHANGED <<claim, strays>>
        BY <2>8 DEF CountFull, InsertPoisoned, TypeOK
    <3>2. Advance(p) \/ Break(p)
        BY <2>8 DEF CountFull, Refused, InsertPoisoned
    <3>3. cursor[p] \in Nat /\ upto[p] \in Nat
        BY DEF TypeOK
    <3>4. CASE Advance(p)
        BY <3>1, <3>3, <3>4, MoveStrays DEF Advance, TypeOK
    <3>5. CASE Break(p)
        BY <3>1, <3>5, MoveStrays DEF Break, TypeOK
    <3> QED
        BY <3>2, <3>4, <3>5
  <2>9. ASSUME NEW p \in Instances, Insert(p) PROVE Straying'
    <3>1. /\ producer[p] = "inserting" /\ cursor[p] < upto[p]
          /\ UNCHANGED claim
        BY <2>9 DEF Insert, TypeOK
    <3>2. cursor[p] \in Nat /\ upto[p] \in Nat
        BY DEF TypeOK
    <3>3. /\ cursor'[p] = cursor[p] + 1 /\ upto' = upto
          /\ \A q \in Instances \ {p} : producer'[q] = producer[q] /\ cursor'[q] = cursor[q]
        BY <2>9 DEF Insert, Advance, TypeOK
    <3>4. /\ \/ strays'[p] = strays[p]
             \/ strays'[p] = strays[p] + 1 /\ Foreign(p)
          /\ \A q \in Instances \ {p} : strays'[q] = strays[q]
      <4>1. CASE KeyTaken(At(p))
          BY <2>9, <4>1 DEF Insert
      <4>2. CASE ~KeyTaken(At(p))
        <5>1. strays' = [strays EXCEPT ![p] = IF Foreign(p) THEN @ + 1 ELSE @]
            BY <2>9, <4>2 DEF Insert
        <5> QED
            BY <5>1 DEF TypeOK
      <4> QED
          BY <4>1, <4>2
    <3> QED
        BY <3>1, <3>2, <3>3, <3>4, MoveStrays
  <2>10. ASSUME NEW c \in Causes, EndRow(c) \/ Prune(c)
         PROVE  UNCHANGED <<claim, producer, cursor, upto, strays>>
      BY <2>10 DEF EndRow, Prune, task
  <2>11. InsertFire \/ UNCHANGED vars => UNCHANGED <<claim, producer, cursor, upto, strays>>
      BY DEF InsertFire, vars, task
  <2> QED
      BY <2>1, <2>2, <2>3, <2>4, <2>5, <2>6, <2>7, <2>8, <2>9, <2>10, <2>11 DEF Next
<1>3. Straying => StraysBounded
    BY DEF Straying, StraysBounded
<1> QED
    BY <1>1, <1>2, <1>3, TypeCorrect, PTL DEF Spec

(***************************************************************************)
(* A row that ended                                                        *)
(***************************************************************************)
\* No step opens a row that ended: the causal key of a kept row refuses a rescan,
\* a second fire of the cause and a deposed producer alike
\* (insert_pending_escalation_with_causal_dedup_capped).
THEOREM RowsEndOnce == Spec => EndsOnce
<1>1. ASSUME TypeOK, [Next]_vars, NEW c \in Causes, row[c] = "ended"
      PROVE  row'[c] # "open"
  <2>1. UNCHANGED row => row'[c] # "open"
      BY <1>1
  <2>2. ASSUME NEW d \in Causes, EndRow(d) \/ Prune(d) PROVE row'[c] # "open"
      BY <1>1, <2>2 DEF EndRow, Prune, TypeOK
  <2>3. ASSUME NEW p \in Instances, Insert(p) PROVE row'[c] # "open"
    <3>1. CASE KeyTaken(At(p))
        BY <1>1, <2>3, <3>1 DEF Insert, queue
    <3>2. CASE ~KeyTaken(At(p))
      <4>1. row' = [row EXCEPT ![At(p)] = "open"] /\ At(p) # c
          BY <1>1, <2>3, <3>2 DEF Insert, KeyTaken
      <4> QED
          BY <1>1, <4>1 DEF TypeOK
    <3> QED
        BY <3>1, <3>2
  <2>4. ASSUME NEW p \in Instances,
               \/ Start(p) \/ Stop(p) \/ Tick(p) \/ TickEnds(p)
               \/ CountRoom(p) \/ CountFull(p) \/ InsertPoisoned(p) \/ Fault(p)
        PROVE  UNCHANGED row
      BY <2>4 DEF Start, Stop, Tick, TickEnds, CountRoom, CountFull, InsertPoisoned,
                  Fault, queue
  <2>5. InsertFire \/ GoStale \/ Heartbeat \/ UNCHANGED vars => UNCHANGED row
      BY DEF InsertFire, GoStale, Heartbeat, vars, queue
  <2> QED
      BY <1>1, <2>1, <2>2, <2>3, <2>4, <2>5 DEF Next
<1>2. TypeOK /\ [Next]_vars => [\A c \in Causes : row[c] = "ended" => row'[c] # "open"]_vars
    BY <1>1
<1> QED
    BY <1>2, TypeCorrect, PTL DEF Spec, EndsOnce

(***************************************************************************)
(* The cap                                                                 *)
(***************************************************************************)
\* Producers that counted room for a row of tenant t and have yet to insert it.
Inserters(t) == {p \in Instances : producer[p] = "inserting" /\ TenantOf[At(p)] = t}

\* A producer that counts room is not an inserter yet, so that what the others
\* counted room for is at most one row each.
Room ==
    \A c \in Causes :
        Cardinality(Open(TenantOf[c])) + Cardinality(Inserters(TenantOf[c]))
            <= Cap + Cardinality(Instances) - 1

LEMMA FiniteRoom ==
    ASSUME NEW t
    PROVE  /\ IsFiniteSet(Open(t)) /\ Cardinality(Open(t)) \in Nat
           /\ IsFiniteSet(Inserters(t)) /\ Cardinality(Inserters(t)) \in Nat
           /\ Cardinality(Inserters(t)) <= Cardinality(Instances)
           /\ Cardinality(Instances) \in Nat /\ Cap \in Nat \ {0}
<1>1. IsFiniteSet(Causes) /\ IsFiniteSet(Instances) /\ Cap \in Nat \ {0}
    BY EnqueueAssumption
<1>2. Open(t) \in SUBSET Causes /\ Inserters(t) \in SUBSET Instances
    BY DEF Open, Inserters
<1> QED
    BY <1>1, <1>2, FS_Subset, FS_CardinalityType

LEMMA FiniteRoomNext ==
    ASSUME NEW t
    PROVE  /\ IsFiniteSet(Open(t)') /\ Cardinality(Open(t)') \in Nat
           /\ IsFiniteSet(Inserters(t)') /\ Cardinality(Inserters(t)') \in Nat
           /\ Cardinality(Inserters(t)') <= Cardinality(Instances)
<1>1. IsFiniteSet(Causes) /\ IsFiniteSet(Instances)
    BY EnqueueAssumption
<1>2. Open(t)' \in SUBSET Causes /\ Inserters(t)' \in SUBSET Instances
    BY DEF Open, Inserters
<1> QED
    BY <1>1, <1>2, FS_Subset, FS_CardinalityType

\* Room is kept where nothing opens and nobody comes to insert.
LEMMA RoomShrinks ==
    ASSUME Room,
           \A t : Open(t)' \subseteq Open(t) /\ Inserters(t)' \subseteq Inserters(t)
    PROVE  Room'
<1> SUFFICES ASSUME NEW c \in Causes
             PROVE  Cardinality(Open(TenantOf[c])') + Cardinality(Inserters(TenantOf[c])')
                        <= Cap + Cardinality(Instances) - 1
    BY DEF Room
<1> DEFINE t == TenantOf[c]
<1>1. /\ Cardinality(Open(t)') <= Cardinality(Open(t))
      /\ Cardinality(Inserters(t)') <= Cardinality(Inserters(t))
    BY FiniteRoom, FS_Subset
<1>2. Cardinality(Open(t)) + Cardinality(Inserters(t)) <= Cap + Cardinality(Instances) - 1
    BY DEF Room
<1> QED
    BY <1>1, <1>2, FiniteRoom, FiniteRoomNext

\* A producer that leaves its row or moves past it no longer inserts.
LEMMA MoveInserters ==
    ASSUME NEW p \in Instances, producer'[p] # "inserting",
           \A q \in Instances \ {p} : producer'[q] = producer[q] /\ cursor'[q] = cursor[q],
           NEW t
    PROVE  Inserters(t)' \subseteq Inserters(t) \ {p}
BY DEF Inserters, At

\* The open rows of a tenant exceed the cap by what the other producers counted
\* room for at the same time, for any number of producers
\* (insert_pending_escalation_with_causal_dedup_capped counts and inserts in two
\* statements).
THEOREM CapExceededByRacers == Spec => []CapHonoured
<1>1. Init => Room
  <2> SUFFICES ASSUME Init, NEW c \in Causes
               PROVE  Cardinality(Open(TenantOf[c])) + Cardinality(Inserters(TenantOf[c]))
                          <= Cap + Cardinality(Instances) - 1
      BY DEF Room
  <2>1. Open(TenantOf[c]) = {} /\ Inserters(TenantOf[c]) = {}
      BY DEF Init, Open, Inserters
  <2> QED
      BY <2>1, FS_EmptySet, FiniteRoom
<1>2. TypeOK /\ Room /\ [Next]_vars => Room'
  <2> SUFFICES ASSUME TypeOK, Room, [Next]_vars PROVE Room'
      OBVIOUS
  <2>1. UNCHANGED <<row, producer, cursor>> => Room'
      BY DEF Room, Open, Inserters, At
  <2>2. ASSUME NEW c \in Causes, EndRow(c) \/ Prune(c) PROVE Room'
    <3>1. UNCHANGED <<producer, cursor>> /\ \A d \in Causes : row'[d] = "open" => row[d] = "open"
        BY <2>2 DEF EndRow, Prune, task, TypeOK
    <3> QED
        BY <3>1, RoomShrinks DEF Open, Inserters, At
  <2>3. ASSUME NEW p \in Instances,
               \/ Stop(p) \/ Start(p) \/ Tick(p) \/ TickEnds(p)
               \/ CountFull(p) \/ InsertPoisoned(p) \/ Fault(p)
        PROVE  Room'
    <3>1. /\ UNCHANGED row /\ producer'[p] # "inserting"
          /\ \A q \in Instances \ {p} : producer'[q] = producer[q] /\ cursor'[q] = cursor[q]
        BY <2>3 DEF Stop, Start, Tick, TickEnds, CountFull, Refused, InsertPoisoned, Fault,
                    Advance, Break, queue, task, TypeOK
    <3>2. \A t : Open(t)' \subseteq Open(t)
        BY <3>1 DEF Open
    <3>3. \A t : Inserters(t)' \subseteq Inserters(t)
        BY <3>1, MoveInserters
    <3> QED
        BY <3>2, <3>3, RoomShrinks
  <2>4. ASSUME NEW p \in Instances, CountRoom(p) PROVE Room'
    <3> SUFFICES ASSUME NEW c \in Causes
                 PROVE  Cardinality(Open(TenantOf[c])') + Cardinality(Inserters(TenantOf[c])')
                            <= Cap + Cardinality(Instances) - 1
        BY DEF Room
    <3> DEFINE t == TenantOf[c]
    <3>1. /\ UNCHANGED <<row, cursor>> /\ producer[p] = "sweeping"
          /\ producer' = [producer EXCEPT ![p] = "inserting"]
        BY <2>4 DEF CountRoom, queue, task
    <3>2. Open(t)' = Open(t)
        BY <3>1 DEF Open
    <3>3. CASE TenantOf[At(p)] = t
      <4>1. Cardinality(Open(t)) < Cap
          BY <2>4, <3>3 DEF CountRoom, HasRoom
      <4> QED
          BY <4>1, <3>2, FiniteRoom, FiniteRoomNext
    <3>4. CASE TenantOf[At(p)] # t
      <4>1. Inserters(t)' \subseteq Inserters(t)
          BY <3>1, <3>4 DEF Inserters, At, TypeOK
      <4>2. Cardinality(Inserters(t)') <= Cardinality(Inserters(t))
          BY <4>1, FiniteRoom, FS_Subset
      <4>3. Cardinality(Open(t)) + Cardinality(Inserters(t)) <= Cap + Cardinality(Instances) - 1
          BY DEF Room
      <4> QED
          BY <3>2, <4>2, <4>3, FiniteRoom, FiniteRoomNext
    <3> QED
        BY <3>3, <3>4
  <2>5. ASSUME NEW p \in Instances, Insert(p) PROVE Room'
    <3> DEFINE d == At(p)
    <3>1. /\ producer[p] = "inserting" /\ producer'[p] = "sweeping"
          /\ \A q \in Instances \ {p} : producer'[q] = producer[q] /\ cursor'[q] = cursor[q]
        BY <2>5 DEF Insert, Advance, TypeOK
    <3>2. \A t : Inserters(t)' \subseteq Inserters(t) \ {p}
        BY <3>1, MoveInserters
    <3>3. CASE KeyTaken(d)
        BY <2>5, <3>2, <3>3, RoomShrinks DEF Insert, queue, Open
    <3>4. CASE ~KeyTaken(d)
      <4>1. row' = [row EXCEPT ![d] = "open"]
          BY <2>5, <3>4 DEF Insert
      <4> SUFFICES ASSUME NEW c \in Causes
                   PROVE  Cardinality(Open(TenantOf[c])')
                              + Cardinality(Inserters(TenantOf[c])')
                              <= Cap + Cardinality(Instances) - 1
          BY DEF Room
      <4> DEFINE t == TenantOf[c]
      <4>2. Cardinality(Open(t)) + Cardinality(Inserters(t)) <= Cap + Cardinality(Instances) - 1
          BY DEF Room
      <4>3. CASE TenantOf[d] = t
        <5>1. p \in Inserters(t)
            BY <3>1, <4>3 DEF Inserters
        <5>2. Cardinality(Inserters(t) \ {p}) = Cardinality(Inserters(t)) - 1
            BY <5>1, FiniteRoom, FS_RemoveElement
        <5>3. Cardinality(Inserters(t)') <= Cardinality(Inserters(t) \ {p})
            BY <3>2, FiniteRoom, FS_RemoveElement, FS_Subset
        <5>4. Open(t)' \subseteq Open(t) \cup {d}
            BY <4>1 DEF Open, TypeOK
        <5>5. Cardinality(Open(t) \cup {d}) <= Cardinality(Open(t)) + 1
          <6>1. IsFiniteSet(Open(t)) /\ Cardinality(Open(t)) \in Nat
              BY FiniteRoom
          <6>2. Cardinality(Open(t) \cup {d})
                    = IF d \in Open(t) THEN Cardinality(Open(t)) ELSE Cardinality(Open(t)) + 1
              BY <6>1, FS_AddElement
          <6> QED
              BY <6>1, <6>2
        <5>6. Cardinality(Open(t)') <= Cardinality(Open(t) \cup {d})
            BY <5>4, FiniteRoom, FS_AddElement, FS_Subset
        <5>7. Cardinality(Open(t) \cup {d}) \in Nat
            BY FiniteRoom, FS_AddElement, FS_CardinalityType
        <5> QED
            BY <4>2, <5>2, <5>3, <5>5, <5>6, <5>7, FiniteRoom, FiniteRoomNext
      <4>4. CASE TenantOf[d] # t
        <5>1. Open(t)' \subseteq Open(t)
            BY <4>1, <4>4 DEF Open, TypeOK
        <5>2. Inserters(t)' \subseteq Inserters(t)
            BY <3>2
        <5>3. /\ Cardinality(Open(t)') <= Cardinality(Open(t))
              /\ Cardinality(Inserters(t)') <= Cardinality(Inserters(t))
            BY <5>1, <5>2, FiniteRoom, FS_Subset
        <5> QED
            BY <4>2, <5>3, FiniteRoom, FiniteRoomNext
      <4> QED
          BY <4>3, <4>4
    <3> QED
        BY <3>3, <3>4
  <2>6. InsertFire \/ GoStale \/ Heartbeat \/ UNCHANGED vars
            => UNCHANGED <<row, producer, cursor>>
      BY DEF InsertFire, GoStale, Heartbeat, vars, queue, task
  <2> QED
      BY <2>1, <2>2, <2>3, <2>4, <2>5, <2>6 DEF Next
<1>3. Room => CapHonoured
  <2> SUFFICES ASSUME Room, NEW c \in Causes
               PROVE  Cardinality(Open(TenantOf[c])) <= Cap + Cardinality(Instances) - 1
      BY DEF CapHonoured
  <2> QED
      BY FiniteRoom DEF Room
<1> QED
    BY <1>1, <1>2, <1>3, TypeCorrect, PTL DEF Spec
=============================================================================
