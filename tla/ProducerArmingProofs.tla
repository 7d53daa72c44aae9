------------------------ MODULE ProducerArmingProofs ------------------------
(***************************************************************************)
(* Proofs about ProducerArming: types, the channel behind every producer,  *)
(* one start per ceremony, and the end a disarm puts to ceremonies.        *)
(***************************************************************************)
EXTENDS ProducerArming, TLAPS

(***************************************************************************)
(* Types                                                                   *)
(***************************************************************************)
\* A process starts with nothing running and nothing held.
LEMMA InitTypeOK == Init => TypeOK
<1> SUFFICES ASSUME Init PROVE TypeOK
    OBVIOUS
<1>1. /\ claimed \in SUBSET {p \in Instances : arming[p] # None}
      /\ confirmed \in SUBSET staged
      /\ arm \in confirmed \cup {None}
    BY DEF Init
<1>2. /\ \A p \in Instances : killState[p] = None /\ arming[p] = None
      /\ \A i \in Producers : life[i] = "unborn" /\ beat[i] = "off"
    BY DEF Init
<1> QED
    BY <1>1, <1>2, InstancesAssumption DEF Init, TypeOK

\* Confirms write the arm of a stage that is now confirmed.
LEMMA ConfirmTypeOK ==
    ASSUME TypeOK, NEW p \in Instances, NEW s \in Stages, Confirm(p, s)
    PROVE  TypeOK'
<1>1. Epoch[p] \in Nat
    BY InstancesAssumption
<1>2. s # None
    BY InstancesAssumption
<1>3. s \in staged /\ staged' = staged
    BY <1>2 DEF TypeOK, Confirm, Confirmable
<1>4. /\ confirmed' \in SUBSET staged'
      /\ arm' \in confirmed' \cup {None}
      /\ armEpoch' \in Nat
      /\ pending' \in staged' \cup {None}
    BY <1>1, <1>3 DEF TypeOK, Confirm
<1>5. /\ arming' \in [Instances -> Stages \cup {None}]
      /\ \A q \in Instances : arming[q] # None => arming'[q] # None
      /\ \A q \in Instances : up[q] # "up" => arming'[q] = arming[q]
    BY <1>2 DEF TypeOK, Confirm
<1>6. claimed' \in SUBSET {q \in Instances : arming'[q] # None}
    BY <1>5 DEF TypeOK, Confirm
<1> QED
    BY <1>4, <1>5, <1>6 DEF TypeOK, Confirm, claim, tasks, disarms, alarms

THEOREM TypeCorrect == Spec => []TypeOK
<1>1. TypeOK /\ [Next]_vars => TypeOK'
  <2> SUFFICES ASSUME TypeOK, [Next]_vars PROVE TypeOK'
      OBVIOUS
  <2> USE InstancesAssumption
  <2> USE DEF TypeOK, claim, ceremony, tasks, handlers, confirms, disarms, alarms
  <2>1. CASE GoStale
      BY <2>1 DEF GoStale
  <2>2. ASSUME NEW p \in Instances, Boot(p) \/ Shutdown(p) PROVE TypeOK'
    <3>1. CASE Boot(p)
        BY <3>1 DEF Boot, Of
    <3>2. CASE Shutdown(p)
        BY <3>2 DEF Shutdown, Of, Alive
    <3> QED
        BY <2>2, <3>1, <3>2
  <2>3. ASSUME NEW p \in Instances, Die(p) PROVE TypeOK'
      BY <2>3 DEF Die, Conclude, Of, Alive
  <2>4. ASSUME NEW p \in Instances, ConfirmExpired(p) PROVE TypeOK'
      BY <2>4 DEF ConfirmExpired
  <2>5. ASSUME NEW p \in Instances, ArmClaim(p) \/ ArmRefused(p) \/ ArmStart(p)
        PROVE  TypeOK'
    <3>1. CASE ArmClaim(p)
        BY <3>1 DEF ArmClaim, Acquire
    <3>2. CASE ArmRefused(p)
        BY <3>2 DEF ArmRefused, Conclude
    <3>3. CASE ArmStart(p)
        BY <3>3 DEF ArmStart, Conclude, Of
    <3> QED
        BY <2>5, <3>1, <3>2, <3>3
  <2>6. ASSUME NEW p \in Instances, DisarmClear(p) \/ DisarmKill(p) \/ AutoTake(p)
        PROVE  TypeOK'
    <3>1. CASE DisarmClear(p)
        BY <3>1 DEF DisarmClear, BestEffortClear, ClearAll
    <3>2. CASE DisarmKill(p)
        BY <3>2 DEF DisarmKill, Switched, Tell, Living, Alive, Of
    <3>3. CASE AutoTake(p)
        BY <3>3 DEF AutoTake
    <3> QED
        BY <2>6, <3>1, <3>2, <3>3
  <2>7. ASSUME NEW p \in Instances, NEW s \in Stages, Stage(p, s) PROVE TypeOK'
      BY <2>7 DEF Stage
  <2>8. ASSUME NEW p \in Instances, NEW s \in Stages, Confirm(p, s) PROVE TypeOK'
      BY <2>8, ConfirmTypeOK
  <2>9. ASSUME NEW i \in Producers, BootStep(i) \/ Drain(i) \/ DisarmAnswer(i)
        PROVE  TypeOK'
    <3>1. CASE BootClaim(i)
        BY <3>1 DEF BootClaim, Acquire
    <3>2. CASE BootStart(i)
        BY <3>2 DEF BootStart
    <3>3. CASE BootRefused(i)
        BY <3>3 DEF BootRefused, Retry, Leaving, Living
    <3>4. CASE BootUnaudited(i)
        BY <3>4 DEF BootUnaudited, Living
    <3>5. CASE BootRelease(i)
        BY <3>5 DEF BootRelease, Retry, Leaving, Released
    <3>6. CASE BootLeaves(i)
        BY <3>6 DEF BootLeaves, Retry, Leaving
    <3>7. CASE Drain(i)
        BY <3>7 DEF Drain
    <3>8. CASE DisarmAnswer(i)
        BY <3>8 DEF DisarmAnswer, Of
    <3> QED
        BY <2>9, <3>1, <3>2, <3>3, <3>4, <3>5, <3>6, <3>7, <3>8 DEF BootStep
  <2>10. ASSUME NEW i \in Producers, AutoSignal(i) \/ AutoDone(i) PROVE TypeOK'
    <3>1. CASE AutoSignal(i)
        BY <3>1 DEF AutoSignal, Signalled, Tell, Living, BestEffortClear, ClearAll
    <3>2. CASE AutoDone(i)
        BY <3>2 DEF AutoDone, Alive
    <3> QED
        BY <2>10, <3>1, <3>2
  <2>11. ASSUME NEW i \in Producers, Watchdog(i) \/ BeatFails(i) PROVE TypeOK'
    <3>1. CASE Beat(i)
      <4>1. live' \in BOOLEAN
          BY <3>1 DEF Beat
      <4>2. beat' \in [Producers -> {"off", "on", "lost", "releasing"}]
          BY <3>1 DEF Beat
      <4>3. \A j \in Producers : beat[j] = "off" => beat'[j] = "off"
          BY <3>1 DEF Beat
      <4> QED
          BY <3>1, <4>1, <4>2, <4>3 DEF Beat
    <3>2. CASE Release(i)
        BY <3>2 DEF Release, Released
    <3>3. CASE SelfDisarm(i)
        BY <3>3 DEF SelfDisarm, Switched, Tell, Living
    <3>4. CASE BeatFails(i)
        BY <3>4 DEF BeatFails
    <3> QED
        BY <2>11, <3>1, <3>2, <3>3, <3>4 DEF Watchdog
  <2>12. CASE UNCHANGED vars
      BY <2>12 DEF vars
  <2> QED
      BY <2>1, <2>2, <2>3, <2>4, <2>5, <2>6, <2>7, <2>8, <2>9, <2>10, <2>11, <2>12
      DEF Next
<1> QED
    BY InitTypeOK, <1>1, PTL DEF Spec

(***************************************************************************)
(* A channel behind every producer                                         *)
(***************************************************************************)
\* Whoever empties the kill state signals what it held, or keeps it in hand.
LEMMA SwitchedKeepsKillable ==
    ASSUME TypeOK, Killable, NEW p \in Instances, Switched(p),
           UNCHANGED <<life, cutOff, pulling>>
    PROVE  Killable'
BY DEF TypeOK, Killable, Switched, Tell, Living, Alive

\* So every producer that was neither told to stop nor cut off by a refused boot
\* can be told: the switch is never a handle to nothing while a task runs.
THEOREM ProducersKillable == Spec => []Killable
<1>1. Init => Killable
    BY DEF Init, Killable, Alive
<1>2. TypeOK /\ Killable /\ [Next]_vars => Killable'
  <2> SUFFICES ASSUME TypeOK, Killable, [Next]_vars PROVE Killable'
      OBVIOUS
  <2> USE DEF claim, ceremony, tasks, handlers, confirms, disarms, alarms
  <2>1. CASE UNCHANGED <<killState, life, told, cutOff, pulling>>
      BY <2>1 DEF Killable, Alive
  <2>2. ASSUME NEW p \in Instances, Boot(p) PROVE Killable'
      BY <2>2, InstancesAssumption DEF Boot, Of, TypeOK, Killable, Alive
  <2>3. ASSUME NEW p \in Instances, Shutdown(p) PROVE Killable'
      BY <2>3 DEF Shutdown, Of, TypeOK, Killable, Alive
  <2>4. ASSUME NEW p \in Instances, Die(p) PROVE Killable'
      BY <2>4 DEF Die, Of, TypeOK, Killable, Alive
  <2>5. ASSUME NEW p \in Instances, ArmStart(p) PROVE Killable'
      BY <2>5, InstancesAssumption DEF ArmStart, Of, TypeOK, Killable, Alive
  <2>6. ASSUME NEW p \in Instances, DisarmKill(p) PROVE Killable'
      BY <2>6, SwitchedKeepsKillable DEF DisarmKill
  <2>7. ASSUME NEW p \in Instances, AutoTake(p) PROVE Killable'
      BY <2>7 DEF AutoTake, TypeOK, Killable, Alive
  <2>8. ASSUME NEW i \in Producers, BootClaim(i) \/ BootStart(i) PROVE Killable'
      BY <2>8 DEF BootClaim, BootStart, TypeOK, Killable, Alive
  <2>9. ASSUME NEW i \in Producers,
               BootRefused(i) \/ BootUnaudited(i) \/ BootRelease(i) \/ BootLeaves(i)
        PROVE  Killable'
    <3>1. CASE BootRefused(i)
        BY <3>1 DEF BootRefused, Retry, Leaving, TypeOK, Killable, Living, Alive
    <3>2. CASE BootUnaudited(i)
        BY <3>2 DEF BootUnaudited, TypeOK, Killable, Living, Alive
    <3>3. CASE BootRelease(i)
        BY <3>3 DEF BootRelease, Retry, Leaving, TypeOK, Killable, Alive
    <3>4. CASE BootLeaves(i)
        BY <3>4 DEF BootLeaves, Retry, Leaving, TypeOK, Killable, Alive
    <3> QED
        BY <2>9, <3>1, <3>2, <3>3, <3>4
  <2>10. ASSUME NEW i \in Producers, Drain(i) PROVE Killable'
      BY <2>10 DEF Drain, TypeOK, Killable, Alive
  <2>11. ASSUME NEW i \in Producers, AutoSignal(i) PROVE Killable'
      BY <2>11 DEF AutoSignal, Signalled, Tell, Living, TypeOK, Killable, Alive
  <2>12. ASSUME NEW i \in Producers, AutoDone(i) PROVE Killable'
      BY <2>12, InstancesAssumption DEF AutoDone, TypeOK, Killable, Alive
  <2>13. ASSUME NEW i \in Producers, SelfDisarm(i) PROVE Killable'
      BY <2>13, SwitchedKeepsKillable, InstancesAssumption DEF SelfDisarm
  <2>14. ASSUME NEW p \in Instances, NEW s \in Stages, Stage(p, s) \/ Confirm(p, s)
         PROVE  UNCHANGED <<killState, life, told, cutOff, pulling>>
      BY <2>14 DEF Stage, Confirm
  <2>15. ASSUME NEW p \in Instances,
                ConfirmExpired(p) \/ ArmClaim(p) \/ ArmRefused(p) \/ DisarmClear(p)
         PROVE  UNCHANGED <<killState, life, told, cutOff, pulling>>
      BY <2>15 DEF ConfirmExpired, ArmClaim, ArmRefused, DisarmClear
  <2>16. ASSUME NEW i \in Producers,
                Beat(i) \/ Release(i) \/ BeatFails(i) \/ DisarmAnswer(i)
         PROVE  UNCHANGED <<killState, life, told, cutOff, pulling>>
      BY <2>16 DEF Beat, Release, BeatFails, DisarmAnswer
  <2>17. GoStale \/ UNCHANGED vars => UNCHANGED <<killState, life, told, cutOff, pulling>>
      BY DEF GoStale, vars
  <2> QED
      BY <2>1, <2>2, <2>3, <2>4, <2>5, <2>6, <2>7, <2>8, <2>9, <2>10, <2>11, <2>12,
         <2>13, <2>14, <2>15, <2>16, <2>17
      DEF Next, Watchdog, BootStep
<1> QED
    BY <1>1, <1>2, TypeCorrect, PTL DEF Spec

\* The switch signals what it held; every other task of the process was told, cut
\* off or in the hand of an alarm already.
LEMMA SwitchReachesAll ==
    ASSUME TypeOK, Killable, NEW p \in Instances, DisarmKill(p),
           NEW i \in Producers, Owner[i] = p, Alive(i)'
    PROVE  i \in (told \cup cutOff \cup pulling)'
<1>1. Alive(i) /\ i \in Living
    BY DEF DisarmKill, Alive, Living
<1>2. CASE i \in told \cup cutOff \cup pulling
    BY <1>2 DEF DisarmKill, Switched, Tell, alarms
<1>3. CASE killState[p] = i
    BY <1>1, <1>3 DEF DisarmKill, Switched, Tell
<1> QED
    BY <1>1, <1>2, <1>3 DEF Killable

Reached(i) == i \in told \cup cutOff \cup pulling \cup late

\* While a disarm awaits a drain, the live tasks of its process have been reached
\* or were started since.
Draining ==
    \A d \in draining, i \in Producers : Owner[i] = Owner[d] /\ Alive(i) => Reached(i)

\* A step that starts no task and forgets none of those reached.
LEMMA KeepsDraining ==
    ASSUME TypeOK, Draining, draining' \subseteq draining,
           \A i \in Producers : Alive(i)' => Alive(i) /\ (Reached(i) => Reached(i)')
    PROVE  Draining'
BY DEF TypeOK, Draining

LEMMA DrainingInductive ==
    ASSUME TypeOK, Killable, Draining, [Next]_vars
    PROVE  Draining'
<1> USE DEF claim, ceremony, tasks, handlers, confirms, disarms, alarms
<1> DEFINE Keeps == /\ draining' \subseteq draining
                    /\ \A i \in Producers : Alive(i)' => Alive(i) /\ (Reached(i) => Reached(i)')
<1>1. CASE UNCHANGED <<draining, life, told, cutOff, pulling, late>>
    BY <1>1 DEF Draining, Reached, Alive
<1>2. ASSUME NEW p \in Instances, Boot(p) PROVE Draining'
  <2>1. \A d \in draining : Owner[d] # p
      BY <1>2 DEF Boot, TypeOK
  <2>2. \A i \in Producers : Owner[i] # p => (Alive(i)' <=> Alive(i))
      BY <1>2 DEF Boot, Of, TypeOK, Alive
  <2> QED
      BY <1>2, <2>1, <2>2 DEF Boot, Draining, Reached
<1>3. ASSUME NEW p \in Instances, ArmStart(p) PROVE Draining'
  <2>1. PICK j \in Of(p) :
            /\ life' = [life EXCEPT ![j] = "running"]
            /\ late' = IF draining \cap Of(p) = {} THEN late ELSE late \cup {j}
      BY <1>3 DEF ArmStart
  <2>2. \A i \in Producers : i # j => (Alive(i)' <=> Alive(i))
      BY <2>1 DEF TypeOK, Alive
  <2> QED
      BY <1>3, <2>1, <2>2 DEF ArmStart, Draining, Reached, Of, TypeOK
<1>4. ASSUME NEW p \in Instances, DisarmKill(p) PROVE Draining'
  <2>1. \A i \in Producers : Alive(i)' <=> Alive(i)
      BY <1>4 DEF DisarmKill, Alive
  <2>2. \A d \in draining' : d \in draining \/ Owner[d] = p
      BY <1>4, InstancesAssumption DEF DisarmKill, Living, TypeOK
  <2>3. \A i \in Producers : Owner[i] # p /\ Reached(i) => Reached(i)'
      BY <1>4 DEF DisarmKill, Switched, Tell, Of, Reached
  <2>4. \A i \in Producers : Owner[i] = p /\ Alive(i)' => Reached(i)'
      BY <1>4, SwitchReachesAll DEF Reached
  <2> QED
      BY <2>1, <2>2, <2>3, <2>4 DEF Draining, TypeOK
<1>5. ASSUME NEW d \in Producers, DisarmAnswer(d) PROVE Draining'
    BY <1>5 DEF DisarmAnswer, Draining, Reached, Alive, Of, TypeOK
<1>6. ASSUME NEW p \in Instances, Shutdown(p) \/ Die(p) \/ AutoTake(p) PROVE Keeps
  <2>1. CASE Shutdown(p)
      BY <2>1 DEF Shutdown, Alive, Reached
  <2>2. CASE Die(p)
      BY <2>2 DEF Die, Of, Alive, Reached, TypeOK
  <2>3. CASE AutoTake(p)
      BY <2>3 DEF AutoTake, Alive, Reached
  <2> QED
      BY <1>6, <2>1, <2>2, <2>3
<1>7. ASSUME NEW i \in Producers, BootStep(i) PROVE Keeps
  <2>1. CASE BootClaim(i) \/ BootStart(i)
      BY <2>1 DEF BootClaim, BootStart, Alive, Reached, TypeOK
  <2>2. CASE BootRefused(i)
      BY <2>2 DEF BootRefused, Retry, Leaving, Alive, Reached, TypeOK
  <2>3. CASE BootUnaudited(i)
      BY <2>3 DEF BootUnaudited, Alive, Reached, TypeOK
  <2>4. CASE BootRelease(i) \/ BootLeaves(i)
      BY <2>4 DEF BootRelease, BootLeaves, Retry, Leaving, Alive, Reached, TypeOK
  <2> QED
      BY <1>7, <2>1, <2>2, <2>3, <2>4 DEF BootStep
<1>8. ASSUME NEW i \in Producers, Drain(i) \/ AutoSignal(i) \/ SelfDisarm(i) PROVE Keeps
  <2>1. CASE Drain(i)
      BY <2>1 DEF Drain, Alive, Reached, TypeOK
  <2>2. CASE AutoSignal(i)
      BY <2>2 DEF AutoSignal, Signalled, Tell, Living, Alive, Reached, TypeOK
  <2>3. CASE SelfDisarm(i)
      BY <2>3 DEF SelfDisarm, Switched, Tell, Alive, Reached
  <2> QED
      BY <1>8, <2>1, <2>2, <2>3
<1>9. Keeps => Draining'
    BY KeepsDraining
<1>10. ASSUME NEW p \in Instances,
              ConfirmExpired(p) \/ ArmClaim(p) \/ ArmRefused(p) \/ DisarmClear(p)
       PROVE  UNCHANGED <<draining, life, told, cutOff, pulling, late>>
    BY <1>10 DEF ConfirmExpired, ArmClaim, ArmRefused, DisarmClear
<1>11. ASSUME NEW p \in Instances, NEW s \in Stages, Stage(p, s) \/ Confirm(p, s)
       PROVE  UNCHANGED <<draining, life, told, cutOff, pulling, late>>
    BY <1>11 DEF Stage, Confirm
<1>12. ASSUME NEW i \in Producers, AutoDone(i) \/ Beat(i) \/ Release(i) \/ BeatFails(i)
       PROVE  UNCHANGED <<draining, life, told, cutOff, pulling, late>>
    BY <1>12 DEF AutoDone, Beat, Release, BeatFails
<1>13. GoStale \/ UNCHANGED vars => UNCHANGED <<draining, life, told, cutOff, pulling, late>>
    BY DEF GoStale, vars
<1> HIDE DEF Keeps
<1> QED
    BY <1>1, <1>2, <1>3, <1>4, <1>5, <1>6, <1>7, <1>8, <1>9, <1>10, <1>11, <1>12, <1>13
    DEF Next, Watchdog

\* So when a disarm answers, before the drain or after it, it has reached every producer
\* of its process but those cut off by a refused boot and those that a confirm started
\* while it awaited the drain, however it interleaved with alarms and new arms.
THEOREM DisarmReachesAll == Spec => DisarmReaches
<1>1. Init => Draining
    BY DEF Init, Draining
<1>2. TypeOK /\ Killable /\ Draining /\ [Next]_vars =>
         \A i \in Producers :
            Answers(Owner[i]) /\ Alive(i)' =>
                i \in late \cup (told \cup cutOff \cup pulling)'
  <2> SUFFICES ASSUME TypeOK, Killable, Draining, [Next]_vars, NEW i \in Producers,
                      Answers(Owner[i]), Alive(i)'
               PROVE  i \in late \cup (told \cup cutOff \cup pulling)'
      OBVIOUS
  <2> USE DEF claim, ceremony, tasks, handlers, confirms, disarms, alarms
  <2>1. ASSUME NEW p \in Instances, DisarmKill(p)
        PROVE  i \in late \cup (told \cup cutOff \cup pulling)'
    <3>1. Owner[i] = p
        BY <2>1 DEF DisarmKill, Answers
    <3> QED
        BY <2>1, <3>1, SwitchReachesAll
  <2>2. ASSUME NEW d \in Producers, DisarmAnswer(d)
        PROVE  i \in late \cup (told \cup cutOff \cup pulling)'
    <3>1. d \in draining /\ Owner[i] = Owner[d]
        BY <2>2 DEF DisarmAnswer, Answers
    <3>2. Alive(i)
        BY <2>2 DEF DisarmAnswer, Alive
    <3> QED
        BY <2>2, <3>1, <3>2 DEF Draining, Reached, DisarmAnswer
  <2>3. ASSUME NEW p \in Instances, Die(p) PROVE FALSE
      BY <2>3 DEF Die, Answers, Alive, Of
  <2>4. ASSUME NEW p \in Instances, DisarmClear(p) PROVE FALSE
      BY <2>4 DEF DisarmClear, Answers
  <2>5. ASSUME NEW p \in Instances,
               \/ Boot(p) \/ Shutdown(p) \/ ConfirmExpired(p) \/ ArmClaim(p)
               \/ ArmRefused(p) \/ ArmStart(p) \/ AutoTake(p)
        PROVE  UNCHANGED disarms
      BY <2>5 DEF Boot, Shutdown, ConfirmExpired, ArmClaim, ArmRefused, ArmStart,
                  AutoTake
  <2>6. ASSUME NEW j \in Producers,
               \/ BootStep(j) \/ Drain(j) \/ AutoSignal(j) \/ AutoDone(j)
               \/ Watchdog(j) \/ BeatFails(j)
        PROVE  UNCHANGED disarms
      BY <2>6 DEF BootStep, BootClaim, BootStart, BootRefused, BootUnaudited, BootRelease,
                  BootLeaves, Drain, AutoSignal, AutoDone, Watchdog, Beat, Release,
                  SelfDisarm, BeatFails
  <2>7. ASSUME NEW p \in Instances, NEW s \in Stages, Stage(p, s) \/ Confirm(p, s)
        PROVE  UNCHANGED disarms
      BY <2>7 DEF Stage, Confirm
  <2>8. GoStale \/ UNCHANGED vars => UNCHANGED disarms
      BY DEF GoStale, vars
  <2>9. ~UNCHANGED disarms
      BY DEF Answers
  <2> QED
      BY <2>1, <2>2, <2>3, <2>4, <2>5, <2>6, <2>7, <2>8, <2>9 DEF Next
<1> QED
    BY <1>1, <1>2, DrainingInductive, TypeCorrect, ProducersKillable, PTL
    DEF Spec, DisarmReaches

(***************************************************************************)
(* One start per ceremony                                                  *)
(***************************************************************************)
\* A confirm in flight holds a confirmed ceremony that no other one holds and
\* that has started nothing yet.
InFlight ==
    /\ \A p \in Instances : arming[p] # None => arming[p] \in confirmed
    /\ \A p, q \in Instances : arming[p] # None /\ arming[p] = arming[q] => p = q
    /\ \A i \in Producers, p \in Instances : byStage[i] # None => arming[p] # byStage[i]

OneStart == OneStartPerStage /\ InFlight

LEMMA ConfirmOneStart ==
    ASSUME TypeOK, OneStart, NEW p \in Instances, NEW s \in Stages, Confirm(p, s)
    PROVE  OneStart'
<1>1. s # None /\ s \notin confirmed
    BY InstancesAssumption DEF Confirm, Confirmable
<1>2. \A q \in Instances : arming'[q] = arming[q] \/ (q = p /\ arming'[q] = s)
    BY DEF TypeOK, Confirm
<1>3. confirmed' = confirmed \cup {s} /\ byStage' = byStage
    BY DEF Confirm, tasks
<1>4. OneStartPerStage'
    BY <1>3 DEF OneStart, OneStartPerStage
<1>5. (\A q \in Instances : arming[q] # None => arming[q] \in confirmed)'
    BY <1>2, <1>3 DEF OneStart, InFlight
<1>6. (\A q, r \in Instances : arming[q] # None /\ arming[q] = arming[r] => q = r)'
    BY <1>1, <1>2 DEF OneStart, InFlight
<1>7. (\A i \in Producers, q \in Instances :
          byStage[i] # None => arming[q] # byStage[i])'
    BY <1>1, <1>2, <1>3 DEF OneStart, InFlight, OneStartPerStage
<1> QED
    BY <1>4, <1>5, <1>6, <1>7 DEF OneStart, InFlight

\* The confirm that spawns a task lets its ceremony go with it.
LEMMA ArmStartOneStart ==
    ASSUME TypeOK, OneStart, NEW p \in Instances, ArmStart(p)
    PROVE  OneStart'
<1>1. arming[p] # None
    BY DEF TypeOK, ArmStart
<1>2. \A q \in Instances : arming'[q] = IF q = p THEN None ELSE arming[q]
    BY DEF TypeOK, ArmStart, Conclude
<1>3. PICK i \in Producers :
          \A j \in Producers : byStage'[j] = IF j = i THEN arming[p] ELSE byStage[j]
    BY DEF TypeOK, ArmStart, Of
<1>4. confirmed' = confirmed
    BY DEF ArmStart, ceremony
<1>5. OneStartPerStage'
    BY <1>1, <1>3, <1>4 DEF OneStart, OneStartPerStage, InFlight
<1>6. InFlight'
    BY <1>1, <1>2, <1>3, <1>4 DEF OneStart, InFlight
<1> QED
    BY <1>5, <1>6 DEF OneStart

\* Confirms of several instances race for a ceremony; one of them starts one
\* producer.
THEOREM OneStartOfAStage == Spec => []OneStartPerStage
<1>1. Init => OneStart
    BY DEF Init, OneStart, OneStartPerStage, InFlight
<1>2. TypeOK /\ OneStart /\ [Next]_vars => OneStart'
  <2> SUFFICES ASSUME TypeOK, OneStart, [Next]_vars PROVE OneStart'
      OBVIOUS
  <2> USE DEF claim, ceremony, tasks, handlers, confirms, disarms, alarms
  <2>1. CASE UNCHANGED <<arming, byStage, confirmed>>
      BY <2>1 DEF OneStart, OneStartPerStage, InFlight
  <2>2. ASSUME NEW p \in Instances, Conclude(p), UNCHANGED <<byStage, confirmed>>
        PROVE  OneStart'
    <3>1. \A q \in Instances : arming'[q] = IF q = p THEN None ELSE arming[q]
        BY <2>2 DEF TypeOK, Conclude
    <3> QED
        BY <2>2, <3>1 DEF OneStart, OneStartPerStage, InFlight
  <2>3. ASSUME NEW p \in Instances, Die(p) \/ ArmRefused(p) PROVE OneStart'
    <3>1. Conclude(p) /\ UNCHANGED <<byStage, confirmed>>
        BY <2>3 DEF Die, ArmRefused
    <3> QED
        BY <2>2, <3>1
  <2>4. ASSUME NEW p \in Instances, ArmStart(p) PROVE OneStart'
      BY <2>4, ArmStartOneStart
  <2>5. ASSUME NEW p \in Instances, NEW s \in Stages, Confirm(p, s) PROVE OneStart'
      BY <2>5, ConfirmOneStart
  <2>6. ASSUME NEW p \in Instances,
               \/ Boot(p) \/ Shutdown(p) \/ ConfirmExpired(p) \/ ArmClaim(p)
               \/ DisarmClear(p) \/ DisarmKill(p) \/ AutoTake(p)
        PROVE  UNCHANGED <<arming, byStage, confirmed>>
      BY <2>6 DEF Boot, Shutdown, ConfirmExpired, ArmClaim, DisarmClear, DisarmKill,
                  AutoTake, BestEffortClear
  <2>7. ASSUME NEW p \in Instances, NEW s \in Stages, Stage(p, s)
        PROVE  UNCHANGED <<arming, byStage, confirmed>>
      BY <2>7 DEF Stage
  <2>8. ASSUME NEW i \in Producers,
               \/ BootStep(i) \/ Drain(i) \/ DisarmAnswer(i) \/ AutoSignal(i)
               \/ AutoDone(i) \/ Watchdog(i) \/ BeatFails(i)
        PROVE  UNCHANGED <<arming, byStage, confirmed>>
      BY <2>8 DEF BootStep, BootClaim, BootStart, BootRefused, BootUnaudited, BootRelease,
                  BootLeaves, Drain, DisarmAnswer, AutoSignal, AutoDone, Watchdog, Beat,
                  Release, SelfDisarm, BeatFails, BestEffortClear
  <2>9. GoStale \/ UNCHANGED vars => UNCHANGED <<arming, byStage, confirmed>>
      BY DEF GoStale, vars
  <2> QED
      BY <2>1, <2>3, <2>4, <2>5, <2>6, <2>7, <2>8, <2>9 DEF Next
<1> QED
    BY <1>1, <1>2, TypeCorrect, PTL DEF Spec, OneStart

(***************************************************************************)
(* The end a disarm puts to ceremonies                                     *)
(***************************************************************************)
\* A stage_id is fresh when it is pending for the first time, and a ceremony
\* that a disarm found is in the history.
THEOREM DisarmFinal == Spec => []DisarmEndsCeremonies
<1>1. Init => DisarmEndsCeremonies
    BY DEF Init, DisarmEndsCeremonies
<1>2. TypeOK /\ DisarmEndsCeremonies /\ [Next]_vars => DisarmEndsCeremonies'
  <2> SUFFICES ASSUME TypeOK, DisarmEndsCeremonies, [Next]_vars
               PROVE  DisarmEndsCeremonies'
      OBVIOUS
  <2> USE DEF claim, ceremony, tasks, handlers, confirms, disarms, alarms
  <2>1. dead \in SUBSET staged /\ None \notin staged
      BY InstancesAssumption DEF TypeOK
  <2>2. CASE UNCHANGED <<pending, arm, dead>>
      BY <2>2 DEF DisarmEndsCeremonies
  <2>3. ASSUME BestEffortClear PROVE DisarmEndsCeremonies'
      BY <2>1, <2>3, InstancesAssumption DEF BestEffortClear, ClearAll, DisarmEndsCeremonies, TypeOK
  <2>4. ASSUME NEW p \in Instances, DisarmClear(p) PROVE DisarmEndsCeremonies'
      BY <2>3, <2>4 DEF DisarmClear
  <2>5. ASSUME NEW i \in Producers, AutoSignal(i) PROVE DisarmEndsCeremonies'
      BY <2>3, <2>5 DEF AutoSignal
  <2>6. ASSUME NEW p \in Instances, NEW s \in Stages, Stage(p, s)
        PROVE  DisarmEndsCeremonies'
      BY <2>1, <2>6 DEF Stage, FreshStage, DisarmEndsCeremonies
  <2>7. ASSUME NEW p \in Instances, NEW s \in Stages, Confirm(p, s)
        PROVE  DisarmEndsCeremonies'
      BY <2>1, <2>7 DEF Confirm, Confirmable, DisarmEndsCeremonies
  <2>8. ASSUME NEW p \in Instances, ConfirmExpired(p) PROVE DisarmEndsCeremonies'
      BY <2>1, <2>8 DEF ConfirmExpired, DisarmEndsCeremonies
  <2>9. ASSUME NEW p \in Instances,
               \/ Boot(p) \/ Shutdown(p) \/ Die(p) \/ ArmClaim(p) \/ ArmRefused(p)
               \/ ArmStart(p) \/ DisarmKill(p) \/ AutoTake(p)
        PROVE  UNCHANGED <<pending, arm, dead>>
      BY <2>9 DEF Boot, Shutdown, Die, ArmClaim, ArmRefused, ArmStart, DisarmKill, AutoTake
  <2>10. ASSUME NEW i \in Producers,
                \/ BootStep(i) \/ Drain(i) \/ DisarmAnswer(i) \/ AutoDone(i)
                \/ Watchdog(i) \/ BeatFails(i)
         PROVE  UNCHANGED <<pending, arm, dead>>
      BY <2>10 DEF BootStep, BootClaim, BootStart, BootRefused, BootUnaudited, BootRelease,
                   BootLeaves, Drain, DisarmAnswer, AutoDone, Watchdog, Beat, Release,
                   SelfDisarm, BeatFails
  <2>11. GoStale \/ UNCHANGED vars => UNCHANGED <<pending, arm, dead>>
      BY DEF GoStale, vars
  <2> QED
      BY <2>2, <2>4, <2>5, <2>6, <2>7, <2>8, <2>9, <2>10, <2>11 DEF Next
<1> QED
    BY <1>1, <1>2, TypeCorrect, PTL DEF Spec
=============================================================================
