---------------------- MODULE CouncilIdempotencyProofs ----------------------
(***************************************************************************)
(* Safety of the council gate, for any number of requests, keys and slots: *)
(* the cap, the ownership of slots, the exclusion of second deliberations  *)
(* and the permanence of settled answers.                                  *)
(***************************************************************************)
EXTENDS CouncilIdempotency, FiniteSetTheorems, TLAPS

Steps == {"start", "missed", "over"} \cup AtWork \cup Busy
Slot == [grant : Nat \ {0}, owner : Requests, age : 0..SweepAge]

(***************************************************************************)
(* Type correctness.                                                       *)
(***************************************************************************)
LEMMA Limits ==
    /\ IsFiniteSet(Requests) /\ Nobody \notin Requests
    /\ Key \in [Requests -> Keys]
    /\ Cap \in Nat /\ Cap > 0
    /\ PendingTtl \in Nat /\ PendingTtl > 0
    /\ SweepAge \in Nat /\ SweepAge > 0
    /\ MaxRestarts \in Nat
  BY RequestsAssumption, GateAssumption

LEMMA GotoType ==
    ASSUME TypeOK, NEW r \in Requests, NEW step \in Steps, Goto(r, step)
    PROVE  pc' \in [Requests -> Steps] /\ grant' \in [Requests -> Nat]
  BY DEF TypeOK, Steps, Goto

\* A gate that only loses slots stays under its cap.
LEMMA FewerSlots ==
    ASSUME TypeOK, NEW S \in SUBSET slots
    PROVE  S \subseteq Slot /\ IsFiniteSet(S) /\ Cardinality(S) <= Cap
  <1>1. IsFiniteSet(slots) /\ Cardinality(slots) <= Cap /\ slots \subseteq Slot
    BY DEF TypeOK, Slot
  <1>2. IsFiniteSet(S) /\ Cardinality(S) <= Cardinality(slots)
    BY <1>1, FS_Subset
  <1>3. Cardinality(S) \in Nat /\ Cardinality(slots) \in Nat
    BY <1>1, <1>2, FS_CardinalityType
  <1> QED
    BY <1>1, <1>2, <1>3, Limits

LEMMA OneMoreSlot ==
    ASSUME NEW S, IsFiniteSet(S), NEW s
    PROVE  /\ IsFiniteSet(S \cup {s})
           /\ Cardinality(S \cup {s}) \in Nat
           /\ Cardinality(S \cup {s}) <= Cardinality(S) + 1
  <1>1. IsFiniteSet(S \cup {s})
    BY FS_AddElement
  <1>2. Cardinality(S) \in Nat /\ Cardinality(S \cup {s}) \in Nat
    BY <1>1, FS_CardinalityType
  <1>3. Cardinality(S \cup {s}) = Cardinality(S) \/ Cardinality(S \cup {s}) = Cardinality(S) + 1
    BY FS_AddElement
  <1> QED
    BY <1>1, <1>2, <1>3

Aged(s) == [s EXCEPT !.age = IF @ < SweepAge THEN @ + 1 ELSE @]

LEMMA AgedSlots ==
    ASSUME TypeOK
    PROVE  LET S == {Aged(s) : s \in slots}
           IN  S \subseteq Slot /\ IsFiniteSet(S) /\ Cardinality(S) <= Cap
  <1> DEFINE S == {Aged(s) : s \in slots}
             f == [s \in slots |-> Aged(s)]
  <1>1. IsFiniteSet(slots) /\ Cardinality(slots) <= Cap /\ slots \subseteq Slot
    BY DEF TypeOK, Slot
  <1>2. S \subseteq Slot
    BY <1>1, Limits DEF Aged, Slot
  <1>3. f \in Surjection(slots, S)
    BY DEF Surjection
  <1>4. IsFiniteSet(S) /\ Cardinality(S) <= Cardinality(slots)
    BY <1>1, <1>3, FS_Surjection
  <1>5. Cardinality(S) \in Nat /\ Cardinality(slots) \in Nat
    BY <1>1, <1>4, FS_CardinalityType
  <1> QED
    BY <1>1, <1>2, <1>4, <1>5, Limits

LEMMA TypeInit == Init => TypeOK
  <1> SUFFICES ASSUME Init PROVE TypeOK
    OBVIOUS
  <1>1. slots \subseteq Slot /\ IsFiniteSet(slots) /\ Cardinality(slots) <= Cap
    BY FS_EmptySet, Limits DEF Init
  <1> QED
    BY <1>1, Limits DEF Init, TypeOK, Slot, Somebody

\* The parts of the type invariant that a step leaves alone need no words.
Rest ==
    /\ reserver \in [Keys -> Somebody] /\ resAge \in [Keys -> 0..PendingTtl]
    /\ cached \in [Keys -> Somebody] /\ mirror \in [Keys -> Somebody]
    /\ restarts \in 0..MaxRestarts
    /\ overrun \subseteq Requests \X {"lapse", "restart"}
    /\ swept \subseteq Requests
Moves == pc \in [Requests -> Steps] /\ grant \in [Requests -> Nat]
Gate == /\ slots \subseteq Slot /\ IsFiniteSet(slots) /\ Cardinality(slots) <= Cap
        /\ seq \in Nat \ {0}

LEMMA TypeParts == TypeOK <=> Rest /\ Moves /\ Gate
  BY DEF TypeOK, Rest, Moves, Gate, Steps, Slot

LEMMA TypePartsNext ==
    ASSUME Rest', Moves', Gate'
    PROVE  TypeOK'
  BY DEF TypeOK, Rest, Moves, Gate, Steps, Slot

LEMMA TypeCall ==
    ASSUME TypeOK, NEW r \in Requests, Call(r) \/ Abort(r) \/ Abandon(r)
    PROVE  TypeOK'
  <1> USE Limits
  <1>0. Rest /\ Moves /\ Gate /\ Key[r] \in Keys
    BY TypeParts
  <1>1. CASE PeekCached(r) \/ PeekMiss(r) \/ Abandon(r)
    <2>1. PICK step \in Steps : Goto(r, step)
      BY <1>1 DEF PeekCached, PeekMiss, Abandon, Steps, AtWork
    <2>2. UNCHANGED <<memory, mirror, restarts, history>>
      BY <1>1 DEF PeekCached, PeekMiss, Abandon
    <2> QED
      BY <1>0, <2>1, <2>2, GotoType, TypePartsNext
      DEF Rest, Moves, Gate, memory, history
  <1>2. CASE PeekMirror(r)
    <2>1. Goto(r, "over") /\ "over" \in Steps
      BY <1>2 DEF PeekMirror, Steps
    <2> QED
      BY <1>0, <1>2, <2>1, GotoType, TypePartsNext
      DEF PeekMirror, Rest, Moves, Gate, history
  <1>3. CASE LockGranted(r)
    <2> DEFINE s == [grant |-> seq, owner |-> r, age |-> 0]
    <2>1. slots' = slots \cup {s} /\ s \in Slot /\ seq' = seq + 1
      BY <1>0, <1>3 DEF LockGranted, Slot, Gate
    <2>2. IsFiniteSet(slots) /\ Cardinality(slots) < Cap /\ Cardinality(slots) \in Nat
      BY <1>0, <1>3, FS_CardinalityType DEF LockGranted, Full, Gate
    <2>3. /\ IsFiniteSet(slots') /\ Cardinality(slots') \in Nat
          /\ Cardinality(slots') <= Cardinality(slots) + 1
      <3> HIDE DEF s
      <3> QED
        BY <2>1, <2>2, OneMoreSlot
    <2>4. slots' \subseteq Slot
      <3> HIDE DEF s
      <3> QED
        BY <1>0, <2>1 DEF Gate, Slot
    <2>5. Gate'
      BY <1>0, <2>1, <2>2, <2>3, <2>4 DEF Gate
    <2>6. Moves'
      <3>1. CASE Goto(r, "over")
        BY <3>1, GotoType DEF Moves, Steps
      <3>2. CASE pc' = [pc EXCEPT ![r] = "locked"] /\ grant' = [grant EXCEPT ![r] = seq]
        BY <1>0, <3>2 DEF Moves, Gate, Steps, AtWork
      <3> QED
        BY <1>3, <3>1, <3>2 DEF LockGranted
    <2> QED
      BY <1>0, <1>3, <2>5, <2>6, TypePartsNext DEF LockGranted, Rest, history
  <1>4. CASE LockRefused(r)
    <2>1. Goto(r, "over") /\ "over" \in Steps
      BY <1>4 DEF LockRefused, Steps
    <2> QED
      BY <1>0, <1>4, <2>1, GotoType, TypePartsNext
      DEF LockRefused, Rest, Moves, Gate, history
  <1>5. CASE ClaimCheck(r) \/ Respond(r)
    <2>1. PICK step \in Steps : Goto(r, step)
      BY <1>5 DEF ClaimCheck, Respond, Steps, AtWork, Busy
    <2>2. UNCHANGED <<memory, mirror, restarts, history>>
      BY <1>5 DEF ClaimCheck, Respond
    <2> QED
      BY <1>0, <2>1, <2>2, GotoType, TypePartsNext
      DEF Rest, Moves, Gate, memory, history
  <1>6. CASE ClaimWriteAhead(r)
    <2>1. PICK step \in Steps : Goto(r, step)
      BY <1>6 DEF ClaimWriteAhead, Steps, AtWork
    <2>2. mirror' \in [Keys -> Somebody]
      BY <1>0, <1>6 DEF ClaimWriteAhead, Rest, Somebody
    <2> QED
      BY <1>0, <1>6, <2>1, <2>2, GotoType, TypePartsNext
      DEF ClaimWriteAhead, Rest, Moves, Gate, memory, history
  <1>7. CASE ClaimReserve(r)
    <2>1. PICK step \in Steps : Goto(r, step)
      BY <1>7 DEF ClaimReserve, Steps, AtWork
    <2>2. reserver' \in [Keys -> Somebody] /\ resAge' \in [Keys -> 0..PendingTtl]
      BY <1>0, <1>7 DEF ClaimReserve, Rest, Somebody
    <2> QED
      BY <1>0, <1>7, <2>1, <2>2, GotoType, TypePartsNext
      DEF ClaimReserve, Rest, Moves, Gate, history
  <1>8. CASE Unlock(r) \/ Abort(r)
    <2>1. PICK step \in Steps : Goto(r, step)
      BY <1>8 DEF Unlock, Abort, AfterUnlock, Steps, AtWork, Busy
    <2>2. slots' \in SUBSET slots
      BY <1>8 DEF Unlock, Abort, Without
    <2>3. Gate'
      BY <1>0, <1>8, <2>2, FewerSlots DEF Gate, Unlock, Abort
    <2> QED
      BY <1>0, <1>8, <2>1, <2>3, GotoType, TypePartsNext
      DEF Unlock, Abort, Rest, Moves, history
  <1>9. CASE StoreMirror(r)
    <2>1. PICK step \in Steps : Goto(r, step)
      BY <1>9 DEF StoreMirror, Steps, Busy
    <2>2. mirror' \in [Keys -> Somebody]
      BY <1>0, <1>9 DEF StoreMirror, Rest, Somebody
    <2> QED
      BY <1>0, <1>9, <2>1, <2>2, GotoType, TypePartsNext
      DEF StoreMirror, Rest, Moves, Gate, memory, history
  <1>10. CASE StoreCached(r) \/ Fail(r)
    <2>1. Goto(r, "over") /\ "over" \in Steps
      BY <1>10 DEF StoreCached, Fail, Steps
    <2>2. reserver' \in [Keys -> Somebody] /\ cached' \in [Keys -> Somebody]
      BY <1>0, <1>10 DEF StoreCached, Fail, Rest, Somebody
    <2> QED
      BY <1>0, <1>10, <2>1, <2>2, GotoType, TypePartsNext
      DEF StoreCached, Fail, Rest, Moves, Gate, history
  <1> QED
    BY <1>1, <1>2, <1>3, <1>4, <1>5, <1>6, <1>7, <1>8, <1>9, <1>10 DEF Call

LEMMA TypeStep == TypeOK /\ [Next]_vars => TypeOK'
  <1> SUFFICES ASSUME TypeOK, [Next]_vars PROVE TypeOK'
    OBVIOUS
  <1> USE Limits
  <1>0. Rest /\ Moves /\ Gate
    BY TypeParts
  <1>1. ASSUME NEW r \in Requests, Call(r) \/ Abort(r) \/ Abandon(r) PROVE TypeOK'
    BY <1>1, TypeCall
  <1>2. ASSUME NEW k \in Keys, Evict(k) PROVE TypeOK'
    BY <1>0, <1>2, TypePartsNext DEF Evict, Rest, Moves, Gate, Somebody, history
  <1>3. CASE Tick
    <2>1. slots' = {Aged(s) : s \in slots}
      BY <1>3 DEF Tick, Aged
    <2>2. Gate'
      BY <1>0, <1>3, <2>1, AgedSlots DEF Gate, Tick
    <2>3. resAge' \in [Keys -> 0..PendingTtl]
      BY <1>0, <1>3 DEF Tick, Rest, Reserved
    <2>4. overrun' \subseteq Requests \X {"lapse", "restart"}
      BY <1>0, <1>3 DEF Tick, Rest, Owners
    <2> QED
      BY <1>0, <1>3, <2>2, <2>3, <2>4, TypePartsNext DEF Tick, Rest, Moves
  <1>4. CASE Sweep
    <2>1. slots' \in SUBSET slots
      BY <1>4 DEF Sweep
    <2>2. Gate'
      BY <1>0, <1>4, <2>1, FewerSlots DEF Gate, Sweep
    <2> QED
      BY <1>0, <1>4, <2>2, TypePartsNext DEF Sweep, Rest, Moves
  <1>5. CASE Restart
    <2>1. Gate'
      BY <1>5, FS_EmptySet DEF Restart, Gate
    <2>2. overrun' \subseteq Requests \X {"lapse", "restart"}
      BY <1>0, <1>5 DEF Restart, Rest, Owners
    <2>3. Moves'
      BY <1>0, <1>5 DEF Restart, Moves, Steps, AtWork
    <2> QED
      BY <1>0, <1>5, <2>1, <2>2, <2>3, TypePartsNext DEF Restart, Rest, Somebody
  <1>6. CASE UNCHANGED vars
    BY <1>6 DEF vars, memory, history, TypeOK
  <1> QED
    BY <1>1, <1>2, <1>3, <1>4, <1>5, <1>6 DEF Next

\* The gate is well typed and its slots never exceed the cap, though answers
\* are lost, the sweeper runs and the sidecar restarts.
THEOREM CouncilTypeCorrect == Spec => []TypeOK
  BY TypeInit, TypeStep, PTL DEF Spec

(***************************************************************************)
(* Settled answers.                                                        *)
(***************************************************************************)
LEMMA GotoMoves ==
    ASSUME TypeOK, NEW r \in Requests, NEW step, Goto(r, step)
    PROVE  /\ \A q \in Requests : pc'[q] = IF q = r THEN step ELSE pc[q]
           /\ \A q \in Requests :
                grant'[q] = IF q = r /\ step \in {"over", "storing", "failing"}
                            THEN 0 ELSE grant[q]
  BY DEF Goto, TypeOK

Reopens(k) == \E r \in Requests : /\ MirrorFaults /\ Key[r] = k
                                  /\ pc[r] = "locked" /\ pc'[r] = "checked"

LEMMA SettledStays ==
    ASSUME TypeOK, NEW k \in Keys, Settled(k), mirror'[k] # Nobody,
           NEW r \in Requests, NEW step, Goto(r, step),
           step \in Claiming => Key[r] # k
    PROVE  Settled(k)'
  BY GotoMoves DEF Settled

LEMMA SettledCall ==
    ASSUME TypeOK, NEW k \in Keys, Settled(k),
           NEW r \in Requests, Call(r) \/ Abort(r) \/ Abandon(r)
    PROVE  Settled(k)' \/ Reopens(k)
  <1> USE Limits DEF Claiming
  <1>1. CASE UNCHANGED mirror /\ \E step : Goto(r, step) /\ step \notin Claiming
    BY <1>1, SettledStays DEF Settled
  <1>2. CASE PeekCached(r) \/ PeekMiss(r) \/ Respond(r) \/ Fail(r) \/ Abort(r) \/ Abandon(r)
    BY <1>1, <1>2 DEF PeekCached, PeekMiss, Respond, Fail, Abort, Abandon
  <1>3. CASE PeekMirror(r) \/ LockRefused(r) \/ ClaimReserve(r) \/ StoreCached(r)
    BY <1>1, <1>3 DEF PeekMirror, LockRefused, ClaimReserve, StoreCached
  <1>4. CASE LockGranted(r)
    <2>1. UNCHANGED mirror /\ (pc' = [pc EXCEPT ![r] = "locked"] \/ Goto(r, "over"))
      BY <1>4 DEF LockGranted
    <2>2. CASE Goto(r, "over")
      BY <1>1, <2>1, <2>2
    <2>3. CASE pc' = [pc EXCEPT ![r] = "locked"]
      BY <2>1, <2>3 DEF TypeOK, Settled
    <2> QED
      BY <2>1, <2>2, <2>3
  <1>5. CASE ClaimCheck(r)
    <2>1. pc[r] = "locked" /\ UNCHANGED mirror
      BY <1>5 DEF ClaimCheck
    <2>2. CASE Goto(r, "unlocking")
      BY <1>1, <2>1, <2>2
    <2>3. CASE Goto(r, "checked") /\ Key[r] # k
      BY <2>1, <2>3, SettledStays DEF Settled
    <2>4. CASE Goto(r, "checked") /\ Key[r] = k
      <3>1. MirrorFaults
        <4>1. Goto(r, "unlocking") \/ ~Mirrored(k) \/ MirrorFaults
          BY <1>5, <2>4 DEF ClaimCheck
        <4>2. ~Goto(r, "unlocking")
          BY <2>4 DEF Goto, TypeOK
        <4> QED
          BY <4>1, <4>2 DEF Settled, Mirrored
      <3>2. pc'[r] = "checked"
        BY <2>4, GotoMoves
      <3> QED
        BY <2>1, <2>4, <3>1, <3>2 DEF Reopens
    <2> QED
      BY <1>5, <2>2, <2>3, <2>4 DEF ClaimCheck
  <1>6. CASE ClaimWriteAhead(r)
    <2>1. Key[r] # k
      BY <1>6 DEF ClaimWriteAhead, Settled
    <2>2. mirror'[k] = mirror[k]
      BY <1>6, <2>1 DEF ClaimWriteAhead, TypeOK
    <2>3. PICK step : Goto(r, step)
      BY <1>6 DEF ClaimWriteAhead
    <2> QED
      BY <2>1, <2>2, <2>3, SettledStays DEF Settled
  <1>7. CASE Unlock(r)
    <2>1. pc[r] \in {"unlocking", "answered", "failed"} /\ UNCHANGED mirror
      BY <1>7 DEF Unlock
    <2>2. AfterUnlock[pc[r]] \notin Claiming
      BY <2>1 DEF AfterUnlock
    <2> QED
      BY <1>1, <1>7, <2>1, <2>2 DEF Unlock
  <1>8. CASE StoreMirror(r)
    <2>1. mirror'[k] # Nobody
      BY <1>8 DEF StoreMirror, TypeOK, Settled
    <2>2. PICK step \in {"mirrored", "over"} : Goto(r, step)
      BY <1>8 DEF StoreMirror
    <2> QED
      BY <2>1, <2>2, SettledStays
  <1> QED
    BY <1>2, <1>3, <1>4, <1>5, <1>6, <1>7, <1>8 DEF Call

LEMMA SettledStep ==
    ASSUME TypeOK, [Next]_vars, NEW k \in Keys, Settled(k)
    PROVE  Settled(k)' \/ Reopens(k)
  <1>1. ASSUME NEW r \in Requests, Call(r) \/ Abort(r) \/ Abandon(r)
        PROVE  Settled(k)' \/ Reopens(k)
    BY <1>1, SettledCall
  <1>2. CASE UNCHANGED <<pc, mirror>>
    BY <1>2 DEF Settled
  <1>3. ASSUME NEW l \in Keys, Evict(l) PROVE Settled(k)'
    BY <1>2, <1>3 DEF Evict, Settled
  <1>4. CASE Tick \/ Sweep
    BY <1>2, <1>4 DEF Tick, Sweep
  <1>5. CASE Restart
    BY <1>5 DEF Restart, Settled, Claiming, TypeOK
  <1>6. CASE UNCHANGED vars
    BY <1>2, <1>6 DEF vars
  <1> QED
    BY <1>1, <1>3, <1>4, <1>5, <1>6 DEF Next

\* An answer that is mirrored while nobody is past the look at the mirror stays
\* mirrored, and only a failed read of the mirror lets a request look past it.
THEOREM AnswersStaySettled == Spec => SettledForGood
  <1>1. TypeOK /\ [Next]_vars
          => [\A k \in Keys :
                Settled(k) =>
                   \/ Settled(k)'
                   \/ \E r \in Requests : /\ MirrorFaults /\ Key[r] = k
                                          /\ pc[r] = "locked" /\ pc'[r] = "checked"]_vars
    BY SettledStep DEF Reopens
  <1> QED
    BY <1>1, CouncilTypeCorrect, PTL DEF Spec, SettledForGood

(***************************************************************************)
(* One deliberation.  Whoever is busy with a key holds its reservation, or *)
(* a reservation of the key has ended under its owner: the timeout and the *)
(* restart leave that in overrun, every other step keeps the reservation.  *)
(***************************************************************************)
Owns(r) == reserver[Key[r]] = r /\ Reserved(Key[r])
Overrun(k) == \E o \in overrun : Key[o[1]] = k
BusyOwn == \A r \in Requests : pc[r] \in Busy => Owns(r) \/ Overrun(Key[r])

LEMMA BusyOwnAlone == TypeOK /\ BusyOwn => OneDeliberation
  BY DEF BusyOwn, OneDeliberation, Owns, Overrun

LEMMA BusyOwnCall ==
    ASSUME TypeOK, BusyOwn, NEW r \in Requests, Call(r) \/ Abort(r) \/ Abandon(r)
    PROVE  BusyOwn'
  <1> USE Limits DEF BusyOwn, Owns, Overrun, Reserved
  <1>0. UNCHANGED overrun
    BY DEF Call, Abort, Abandon, PeekCached, PeekMirror, PeekMiss, LockGranted, LockRefused,
           ClaimCheck, ClaimWriteAhead, ClaimReserve, Respond, Unlock, StoreMirror,
           StoreCached, Fail, history
  <1>1. CASE /\ UNCHANGED <<reserver, resAge>>
             /\ \E step : Goto(r, step) /\ (step \in Busy => pc[r] \in Busy)
    <2>1. \A q \in Requests : pc'[q] \in Busy => pc[q] \in Busy
      BY <1>1, GotoMoves
    <2> QED
      BY <1>0, <1>1, <2>1
  <1>2. CASE PeekCached(r) \/ PeekMiss(r) \/ PeekMirror(r) \/ LockRefused(r)
    BY <1>1, <1>2 DEF PeekCached, PeekMiss, PeekMirror, LockRefused, memory, Busy
  <1>3. CASE LockGranted(r)
    <2>1. CASE Goto(r, "over")
      BY <1>1, <1>3, <2>1 DEF LockGranted, Busy
    <2>2. CASE pc' = [pc EXCEPT ![r] = "locked"]
      <3>1. \A q \in Requests : pc'[q] \in Busy => pc[q] \in Busy
        BY <2>2 DEF TypeOK, Busy
      <3> QED
        BY <1>0, <1>3, <3>1 DEF LockGranted
    <2> QED
      BY <1>3, <2>1, <2>2 DEF LockGranted
  <1>4. CASE ClaimCheck(r) \/ ClaimWriteAhead(r)
    BY <1>1, <1>4 DEF ClaimCheck, ClaimWriteAhead, memory, Busy
  <1>5. CASE ClaimReserve(r)
    <2>1. CASE UNCHANGED <<reserver, resAge>> /\ Goto(r, "unlocking")
      BY <1>1, <2>1 DEF Busy
    <2>2. CASE /\ ~Conflict(r)
               /\ reserver' = [reserver EXCEPT ![Key[r]] = r]
               /\ resAge' = [resAge EXCEPT ![Key[r]] = 0]
               /\ \E step \in {"deliberating", "unlocking"} : Goto(r, step)
      <3>1. Owns(r)'
        BY <2>2 DEF TypeOK
      <3>2. ASSUME NEW q \in Requests, q # r, pc'[q] \in Busy
            PROVE  Owns(q)' \/ Overrun(Key[q])
        <4>1. pc[q] \in Busy
          BY <2>2, <3>2, GotoMoves
        <4>2. CASE Key[q] = Key[r]
          BY <2>2, <3>2, <4>1, <4>2 DEF Conflict
        <4>3. CASE Key[q] # Key[r]
          BY <2>2, <4>1, <4>3 DEF TypeOK
        <4> QED
          BY <4>2, <4>3
      <3> QED
        BY <1>0, <3>1, <3>2
    <2> QED
      BY <1>5, <2>1, <2>2 DEF ClaimReserve
  <1>6. CASE Respond(r) \/ StoreMirror(r)
    BY <1>1, <1>6 DEF Respond, StoreMirror, memory, Busy
  <1>7. CASE Unlock(r)
    <2>1. AfterUnlock[pc[r]] \in Busy => pc[r] \in Busy
      BY <1>7 DEF Unlock, AfterUnlock, Busy
    <2> QED
      BY <1>1, <1>7, <2>1 DEF Unlock
  <1>8. CASE StoreCached(r) \/ Fail(r)
    <2>1. /\ pc[r] \in Busy /\ Goto(r, "over") /\ UNCHANGED resAge
          /\ reserver' \in {[reserver EXCEPT ![Key[r]] = Nobody], reserver}
      BY <1>8 DEF StoreCached, Fail, Busy
    <2>2. ASSUME NEW q \in Requests, pc'[q] \in Busy
          PROVE  Owns(q)' \/ Overrun(Key[q])
      <3>1. q # r /\ pc[q] \in Busy
        BY <2>1, <2>2, GotoMoves DEF Busy
      <3>2. CASE Key[q] = Key[r]
        BY <2>1, <3>1, <3>2
      <3>3. CASE Key[q] # Key[r]
        BY <2>1, <3>1, <3>3 DEF TypeOK
      <3> QED
        BY <3>2, <3>3
    <2> QED
      BY <1>0, <2>2
  <1>9. CASE Abort(r) \/ Abandon(r)
    BY <1>1, <1>9 DEF Abort, Abandon, memory, Busy
  <1> QED
    BY <1>2, <1>3, <1>4, <1>5, <1>6, <1>7, <1>8, <1>9 DEF Call

LEMMA BusyOwnStep == TypeOK /\ BusyOwn /\ [Next]_vars => BusyOwn'
  <1> SUFFICES ASSUME TypeOK, BusyOwn, [Next]_vars PROVE BusyOwn'
    OBVIOUS
  <1> USE Limits
  <1>1. ASSUME NEW r \in Requests, Call(r) \/ Abort(r) \/ Abandon(r) PROVE BusyOwn'
    BY <1>1, BusyOwnCall
  <1>2. CASE UNCHANGED <<pc, reserver, resAge, overrun>>
    BY <1>2 DEF BusyOwn, Owns, Overrun, Reserved
  <1>3. ASSUME NEW k \in Keys, Evict(k) PROVE BusyOwn'
    BY <1>2, <1>3 DEF Evict, history
  <1>4. CASE Tick
    <2>1. ASSUME NEW r \in Requests, pc'[r] \in Busy
          PROVE  Owns(r)' \/ Overrun(Key[r])'
      <3>1. pc[r] \in Busy /\ UNCHANGED reserver
        BY <1>4, <2>1 DEF Tick
      <3>2. CASE Overrun(Key[r])
        BY <1>4, <3>2 DEF Tick, Overrun
      <3>3. CASE Owns(r) /\ resAge[Key[r]] + 1 = PendingTtl
        <4>1. <<r, "lapse">> \in overrun'
          BY <1>4, <3>1, <3>3 DEF Tick, Owners, Owns
        <4> QED
          BY <4>1 DEF Overrun
      <3>4. CASE Owns(r) /\ resAge[Key[r]] + 1 # PendingTtl
        <4>1. resAge'[Key[r]] = resAge[Key[r]] + 1 /\ resAge[Key[r]] \in Nat
          BY <1>4, <3>4 DEF Tick, Owns, TypeOK
        <4> QED
          BY <3>1, <3>4, <4>1 DEF Owns, Reserved
      <3> QED
        BY <3>1, <3>2, <3>3, <3>4 DEF BusyOwn
    <2> QED
      BY <2>1 DEF BusyOwn
  <1>5. CASE Sweep
    BY <1>2, <1>5 DEF Sweep
  <1>6. CASE Restart
    <2>1. ASSUME NEW r \in Requests, pc'[r] \in Busy
          PROVE  Overrun(Key[r])'
      <3>1. pc[r] \in Busy
        BY <1>6, <2>1 DEF Restart, Busy, TypeOK
      <3>2. CASE Overrun(Key[r])
        BY <1>6, <3>2 DEF Restart, Overrun
      <3>3. CASE Owns(r)
        <4>1. <<r, "restart">> \in overrun'
          BY <1>6, <3>1, <3>3 DEF Restart, Owners, Owns
        <4> QED
          BY <4>1 DEF Overrun
      <3> QED
        BY <3>1, <3>2, <3>3 DEF BusyOwn
    <2> QED
      BY <2>1 DEF BusyOwn
  <1>7. CASE UNCHANGED vars
    BY <1>2, <1>7 DEF vars, memory, history
  <1> QED
    BY <1>1, <1>3, <1>4, <1>5, <1>6, <1>7 DEF Next

\* Peek, lock and claim let no second request deliberate over a key, unless a
\* reservation ended under its owner.
THEOREM NoSecondDeliberation == Spec => []OneDeliberation
  <1>1. Init => BusyOwn
    BY DEF Init, BusyOwn, Busy
  <1> QED
    BY <1>1, CouncilTypeCorrect, BusyOwnStep, BusyOwnAlone, PTL DEF Spec

(***************************************************************************)
(* Slots.  While the sidecar has not restarted its grant_ids name one slot *)
(* and one request, and whoever is at work holds its slot until the        *)
(* sweeper takes it.  After a restart seq starts over and neither holds.   *)
(***************************************************************************)
Named == /\ \A s \in slots : s.grant < seq
         /\ \A r \in Requests : grant[r] < seq
         /\ \A s \in slots, r \in Requests : s.grant = grant[r] => s.owner = r
Held(r) == \E s \in slots : s.owner = r /\ s.grant = grant[r]
Holding == \A r \in Requests : pc[r] \in AtWork => r \in swept \/ Held(r)
SlotInv == TypeOK /\ (restarts = 0 => Named /\ Holding)

\* A call that leaves the slots alone and takes nobody to work.
LEMMA QuietCall ==
    ASSUME TypeOK, Named, Holding, NEW r \in Requests,
           UNCHANGED <<slots, swept>>, seq' \in {seq, seq + 1},
           NEW step, Goto(r, step), step \in AtWork => pc[r] \in AtWork
    PROVE  Named' /\ Holding'
  <1>1. Named'
    BY GotoMoves DEF Named, TypeOK
  <1>2. ASSUME NEW q \in Requests, pc'[q] \in AtWork
        PROVE  q \in swept \/ Held(q)'
    <2>1. pc[q] \in AtWork
      BY <1>2, GotoMoves
    <2>2. grant'[q] = grant[q]
      BY <1>2, GotoMoves DEF AtWork
    <2> QED
      BY <2>1, <2>2 DEF Holding, Held
  <1> QED
    BY <1>1, <1>2 DEF Holding

\* A call that gives back at most the caller's own slot.
LEMMA ReleasingCall ==
    ASSUME TypeOK, Named, Holding, NEW r \in Requests,
           UNCHANGED <<seq, swept>>, slots' \in {Without(r), slots},
           NEW step \in {"over", "storing", "failing"}, Goto(r, step)
    PROVE  Named' /\ Holding'
  <1>1. Named'
    BY GotoMoves DEF Named, Without, TypeOK
  <1>2. ASSUME NEW q \in Requests, pc'[q] \in AtWork
        PROVE  q \in swept \/ Held(q)'
    <2>1. q # r /\ pc[q] \in AtWork /\ grant'[q] = grant[q]
      BY <1>2, GotoMoves DEF AtWork
    <2>2. CASE q \in swept
      BY <2>2
    <2>3. CASE Held(q)
      <3>1. PICK s \in slots : s.owner = q /\ s.grant = grant[q]
        BY <2>3 DEF Held
      <3>2. s.grant # grant[r]
        BY <2>1, <3>1 DEF Named
      <3>3. s \in slots'
        BY <3>2 DEF Without
      <3> QED
        BY <2>1, <3>1, <3>3 DEF Held
    <2> QED
      BY <2>1, <2>2, <2>3 DEF Holding
  <1> QED
    BY <1>1, <1>2 DEF Holding

LEMMA SlotCall ==
    ASSUME TypeOK, Named, Holding, NEW r \in Requests,
           Call(r) \/ Abort(r) \/ Abandon(r)
    PROVE  Named' /\ Holding'
  <1> USE Limits
  <1>1. CASE /\ UNCHANGED <<slots, swept>> /\ seq' \in {seq, seq + 1}
             /\ \E step : Goto(r, step) /\ (step \in AtWork => pc[r] \in AtWork)
    BY <1>1, QuietCall
  <1>2. CASE PeekCached(r) \/ PeekMirror(r) \/ PeekMiss(r) \/ LockRefused(r)
    BY <1>1, <1>2 DEF PeekCached, PeekMirror, PeekMiss, LockRefused, memory, history, AtWork
  <1>3. CASE LockGranted(r)
    <2>1. /\ slots' = slots \cup {[grant |-> seq, owner |-> r, age |-> 0]}
          /\ seq' = seq + 1 /\ UNCHANGED swept /\ seq \in Nat \ {0}
      BY <1>3 DEF LockGranted, history, TypeOK
    <2>2. /\ \A q \in Requests : grant'[q] \in {0, grant[q]} \/ (q = r /\ grant'[q] = seq)
          /\ \A q \in Requests : q # r => pc'[q] = pc[q] /\ grant'[q] = grant[q]
          /\ pc'[r] \in AtWork => grant'[r] = seq
      <3>1. CASE Goto(r, "over")
        BY <3>1, GotoMoves DEF AtWork
      <3>2. CASE pc' = [pc EXCEPT ![r] = "locked"] /\ grant' = [grant EXCEPT ![r] = seq]
        BY <3>2 DEF TypeOK
      <3> QED
        BY <1>3, <3>1, <3>2 DEF LockGranted
    <2>3. \A s \in slots : s.grant \in Nat \ {0} /\ s.grant < seq
      BY DEF TypeOK, Named
    <2>4. \A q \in Requests : grant[q] \in Nat /\ grant[q] < seq
      BY DEF TypeOK, Named
    <2>5. Named'
      BY <2>1, <2>2, <2>3, <2>4 DEF Named
    <2>6. ASSUME NEW q \in Requests, pc'[q] \in AtWork
          PROVE  q \in swept \/ Held(q)'
      <3>1. CASE q = r
        <4>1. [grant |-> seq, owner |-> r, age |-> 0] \in slots'
          BY <2>1
        <4> QED
          BY <2>2, <2>6, <3>1, <4>1 DEF Held
      <3>2. CASE q # r
        <4>1. q \in swept \/ Held(q)
          BY <2>2, <2>6, <3>2 DEF Holding
        <4>2. slots \subseteq slots' /\ grant'[q] = grant[q]
          BY <2>1, <2>2, <3>2
        <4> QED
          BY <4>1, <4>2 DEF Held
      <3> QED
        BY <3>1, <3>2
    <2> QED
      BY <2>1, <2>5, <2>6 DEF Holding
  <1>4. CASE ClaimCheck(r) \/ ClaimWriteAhead(r) \/ ClaimReserve(r) \/ Respond(r)
    <2>1. pc[r] \in {"locked", "checked", "written", "deliberating"}
      BY <1>4 DEF ClaimCheck, ClaimWriteAhead, ClaimReserve, Respond
    <2>2. UNCHANGED <<slots, swept, seq>> /\ \E step : Goto(r, step)
      BY <1>4 DEF ClaimCheck, ClaimWriteAhead, ClaimReserve, Respond, memory, history
    <2> QED
      BY <1>1, <2>1, <2>2 DEF AtWork
  <1>5. CASE StoreMirror(r) \/ StoreCached(r) \/ Fail(r) \/ Abandon(r)
    <2>1. UNCHANGED <<slots, swept, seq>> /\ \E step \in {"mirrored", "over"} : Goto(r, step)
      BY <1>5 DEF StoreMirror, StoreCached, Fail, Abandon, memory, history
    <2> QED
      BY <1>1, <2>1 DEF AtWork
  <1>6. CASE Unlock(r)
    <2>1. /\ UNCHANGED <<seq, swept>> /\ slots' \in {Without(r), slots}
          /\ Goto(r, AfterUnlock[pc[r]])
          /\ AfterUnlock[pc[r]] \in {"over", "storing", "failing"}
      BY <1>6 DEF Unlock, AfterUnlock, history
    <2> QED
      BY <2>1, ReleasingCall
  <1>7. CASE Abort(r)
    <2>1. UNCHANGED <<seq, swept>> /\ slots' = Without(r) /\ Goto(r, "over")
      BY <1>7 DEF Abort, history
    <2> QED
      BY <2>1, ReleasingCall
  <1> QED
    BY <1>2, <1>3, <1>4, <1>5, <1>6, <1>7 DEF Call

LEMMA RestartsKept ==
    ASSUME NEW r \in Requests, Call(r) \/ Abort(r) \/ Abandon(r)
    PROVE  UNCHANGED restarts
  BY DEF Call, Abort, Abandon, PeekCached, PeekMirror, PeekMiss, LockGranted, LockRefused,
         ClaimCheck, ClaimWriteAhead, ClaimReserve, Respond, Unlock, StoreMirror, StoreCached,
         Fail

LEMMA SlotStep == SlotInv /\ [Next]_vars => SlotInv'
  <1> SUFFICES ASSUME SlotInv, [Next]_vars, restarts' = 0
               PROVE  Named' /\ Holding'
    BY TypeStep DEF SlotInv
  <1> USE Limits
  <1>0. TypeOK /\ restarts \in Nat
    BY DEF SlotInv, TypeOK
  <1>1. ASSUME NEW r \in Requests, Call(r) \/ Abort(r) \/ Abandon(r)
        PROVE  Named' /\ Holding'
    <2>1. Named /\ Holding
      BY <1>1, RestartsKept DEF SlotInv
    <2> QED
      BY <1>0, <1>1, <2>1, SlotCall
  <1>2. CASE UNCHANGED <<pc, grant, slots, seq, swept, restarts>>
    BY <1>2 DEF SlotInv, Named, Holding, Held
  <1>3. ASSUME NEW k \in Keys, Evict(k) PROVE Named' /\ Holding'
    BY <1>2, <1>3 DEF Evict, history
  <1>4. CASE Tick
    <2>1. Named /\ Holding /\ UNCHANGED <<pc, grant, seq, swept>>
      BY <1>4 DEF SlotInv, Tick
    <2>2. slots' = {Aged(s) : s \in slots}
      BY <1>4 DEF Tick, Aged
    <2>3. \A s \in slots : Aged(s).grant = s.grant /\ Aged(s).owner = s.owner
      BY <1>0 DEF Aged, TypeOK
    <2>4. Named'
      BY <2>1, <2>2, <2>3 DEF Named
    <2>5. ASSUME NEW q \in Requests, Held(q) PROVE Held(q)'
      <3>1. PICK s \in slots : s.owner = q /\ s.grant = grant[q]
        BY <2>5 DEF Held
      <3> QED
        BY <2>1, <2>2, <2>3, <3>1 DEF Held
    <2> QED
      BY <2>1, <2>4, <2>5 DEF Holding
  <1>5. CASE Sweep
    <2>1. Named /\ Holding /\ UNCHANGED <<pc, grant, seq>>
      BY <1>5 DEF SlotInv, Sweep
    <2>2. Named'
      BY <1>5, <2>1 DEF Sweep, Named
    <2>3. ASSUME NEW q \in Requests, pc'[q] \in AtWork
          PROVE  q \in swept' \/ Held(q)'
      BY <1>5, <2>1, <2>3 DEF Sweep, Holding, Held
    <2> QED
      BY <2>2, <2>3 DEF Holding
  <1>6. CASE Restart
    BY <1>0, <1>6 DEF Restart
  <1>7. CASE UNCHANGED vars
    BY <1>2, <1>7 DEF vars, memory, history
  <1> QED
    BY <1>1, <1>3, <1>4, <1>5, <1>6, <1>7 DEF Next

LEMMA SlotsNamedAndHeld == Spec => []SlotInv
  <1>1. Init => SlotInv
    BY TypeInit DEF Init, SlotInv, Named, Holding, AtWork
  <1> QED
    BY <1>1, SlotStep, PTL DEF Spec

\* Each request at work sends to its slot; no two to the same one.
LEMMA HoldersCounted == SlotInv => SessionsCapped
  <1> SUFFICES ASSUME SlotInv, restarts = 0
               PROVE  Cardinality({r \in Requests : pc[r] \in AtWork} \ swept) <= Cap
    BY DEF SessionsCapped
  <1> DEFINE W == {r \in Requests : pc[r] \in AtWork} \ swept
             f == [r \in W |-> CHOOSE s \in slots : s.owner = r]
  <1>1. IsFiniteSet(slots) /\ Cardinality(slots) <= Cap
    BY DEF SlotInv, TypeOK
  <1>2. \A r \in W : f[r] \in slots /\ f[r].owner = r
    <2> TAKE r \in W
    <2>1. \E s \in slots : s.owner = r
      BY DEF SlotInv, Holding, Held
    <2> QED
      BY <2>1
  <1>3. f \in Injection(W, slots)
    BY <1>2 DEF Injection, IsInjective
  <1>4. IsFiniteSet(W) /\ Cardinality(W) <= Cardinality(slots)
    BY <1>1, <1>3, FS_Injection
  <1>5. Cardinality(W) \in Nat /\ Cardinality(slots) \in Nat
    BY <1>1, <1>4, FS_CardinalityType
  <1> QED
    BY <1>1, <1>4, <1>5, Limits

\* Until the sidecar restarts, the cap on slots is a cap on the requests at
\* work: lost unlocks and lost answers can only leave too few slots.
THEOREM SessionsStayCapped == Spec => []SessionsCapped
  BY SlotsNamedAndHeld, HoldersCounted, PTL

LEMMA SlotKeptStep ==
    ASSUME SlotInv, [Next]_vars, restarts' = 0, NEW s \in slots, Taken(s)
    PROVE  s.age >= SweepAge \/ pc'[s.owner] # pc[s.owner]
  <1> USE Limits
  <1>0. TypeOK /\ restarts \in Nat /\ s.owner \in Requests
    BY DEF SlotInv, TypeOK
  <1>1. CASE s \in slots'
    BY <1>1 DEF Taken
  <1>2. ASSUME NEW r \in Requests, Unlock(r) \/ Abort(r), s \notin slots'
        PROVE  pc'[s.owner] # pc[s.owner]
    <2>1. Named
      BY <1>2 DEF Unlock, Abort, SlotInv
    <2>2. s.grant = grant[r]
      BY <1>2 DEF Unlock, Abort, Without
    <2>3. s.owner = r
      BY <2>1, <2>2 DEF Named
    <2>4. pc'[r] # pc[r]
      <3>1. CASE Unlock(r)
        <4>1. AfterUnlock[pc[r]] # pc[r] /\ Goto(r, AfterUnlock[pc[r]])
          BY <3>1 DEF Unlock, AfterUnlock
        <4> QED
          BY <1>0, <4>1, GotoMoves
      <3>2. CASE Abort(r)
        BY <1>0, <3>2, GotoMoves DEF Abort
      <3> QED
        BY <1>2, <3>1, <3>2
    <2> QED
      BY <2>3, <2>4
  <1>3. ASSUME NEW r \in Requests, Call(r) \/ Abort(r) \/ Abandon(r), ~Unlock(r), ~Abort(r)
        PROVE  s \in slots'
    BY <1>3 DEF Call, Abandon, PeekCached, PeekMirror, PeekMiss, LockGranted, LockRefused,
           ClaimCheck, ClaimWriteAhead, ClaimReserve, Respond, StoreMirror, StoreCached, Fail,
           memory
  <1>4. ASSUME NEW k \in Keys, Evict(k) PROVE s \in slots'
    BY <1>4 DEF Evict
  <1>5. ~Tick
    <2> SUFFICES ASSUME Tick PROVE FALSE
      OBVIOUS
    <2>1. Aged(s) \in slots'
      BY DEF Tick, Aged
    <2>2. Aged(s).grant = s.grant /\ Aged(s).owner = s.owner
      BY <1>0 DEF Aged, TypeOK
    <2> QED
      BY <2>1, <2>2 DEF Taken
  <1>6. CASE Sweep
    BY <1>1, <1>6 DEF Sweep, Stale
  <1>7. ~Restart
    BY <1>0 DEF Restart
  <1>8. CASE UNCHANGED vars
    BY <1>1, <1>8 DEF vars, memory
  <1> QED
    BY <1>1, <1>2, <1>3, <1>4, <1>5, <1>6, <1>7, <1>8 DEF Next

\* Until the sidecar restarts, a late unlock, a lost answer and an aborted
\* request take no slot but their own; only the sweeper takes another's.
THEOREM SlotsNeverStolen == Spec => SlotsKept
  <1>1. SlotInv /\ [Next]_vars
          => [restarts' = 0 =>
                 \A s \in slots :
                     Taken(s) => s.age >= SweepAge \/ pc'[s.owner] # pc[s.owner]]_vars
    BY SlotKeptStep
  <1> QED
    BY <1>1, SlotsNamedAndHeld, PTL DEF Spec, SlotsKept
=============================================================================
