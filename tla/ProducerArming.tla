--------------------------- MODULE ProducerArming ---------------------------
(***************************************************************************)
(* Who runs the CDC producer.  An operator stages and confirms an arm, or  *)
(* the environment arms it at boot; the instance that holds the writer     *)
(* claim starts the producer, a watchdog heartbeats the claim, and the     *)
(* kill switch, an alarm or a lost claim stop it.                          *)
(*                                                                         *)
(* Instances are processes over one watch.db, each with a uuid of its own: *)
(* a restart is a new instance.  A handler is cut wherever it awaits, so   *)
(* that arming, disarming and the watchdogs of one process interleave.     *)
(***************************************************************************)
EXTENDS FiniteSets, Naturals

CONSTANTS
    Instances,   \* uuids of sidecar processes
    Producers,   \* bound: the producer tasks that are ever spawned
    Owner,       \* the instance that spawns one
    EnvArmed,    \* instances booted with WATCH_PRODUCER_ENABLED
    Epoch,       \* WATCH_REPLAY_EPOCH of an instance
    Stages,      \* bound: the stage_ids that are ever minted
    Disarmable   \* bound: the instances that /disarm and alarms are for

None == "none"

ASSUME InstancesAssumption ==
    /\ Owner \in [Producers -> Instances]
    /\ Epoch \in [Instances -> Nat]
    /\ EnvArmed \subseteq Instances /\ Disarmable \subseteq Instances
    /\ None \notin Instances \cup Producers \cup Stages

VARIABLES
    up,          \* an instance: "off", "up" or "down"
    holder,      \* writer_claim.instance_uuid, None without a row
    live,        \* its heartbeat is younger than WRITER_CLAIM_STALE_MS
    pending,     \* stage_id of the row of arm_pending
    staged,      \* stage_ids in the history of arm_audit
    confirmed,   \* those with a confirm or confirm_rehearsal row
    arm,         \* stage_id of the confirm that wrote active_arm
    armEpoch,    \* active_arm.armed_epoch
    killState,   \* producer_kill_state: the task whose channel is held
    life,        \* a task: "unborn", "booting", "auditing" or "freeing" (the attempt
                 \* at the claim goes on), "running" or "gone"
    byStage,     \* the ceremony that started a task
    told,        \* live tasks whose kill channel carries TRUE
    beat,        \* the watchdog of a task
    arming,      \* stage_id of a confirm between its transaction and the spawn
    claimed,     \* instances whose such confirm has acquired the claim
    stopping,    \* instances with /disarm between its clear and the switch
    draining,    \* tasks whose drain a /disarm awaits before it answers
    shut,        \* boot tasks that have yet to look at the runner's shutdown signal
    pulling,     \* tasks whose channel an auto-disarm took and has yet to use
    awaited,     \* tasks whose drain an auto-disarm awaits
    cutOff,      \* history: tasks whose channel a refused boot dropped
    late,        \* history: tasks started while a /disarm of the process awaited a drain
    dead         \* history: stage_ids pending or armed when a disarm cleared

claim == <<holder, live>>
ceremony == <<pending, staged, confirmed, arm, armEpoch, dead>>
tasks == <<life, byStage, told, beat, cutOff, late>>
confirms == <<arming, claimed>>
disarms == <<stopping, draining>>
alarms == <<pulling, awaited>>
handlers == <<confirms, disarms, alarms, shut>>
vars == <<up, claim, ceremony, killState, tasks, handlers>>

\* Types, and that a process that is not up has no task, handle or handler.
TypeOK ==
    /\ up \in [Instances -> {"off", "up", "down"}]
    /\ holder \in Instances \cup {None}
    /\ live \in BOOLEAN
    /\ pending \in staged \cup {None}
    /\ staged \in SUBSET Stages
    /\ confirmed \in SUBSET staged
    /\ arm \in confirmed \cup {None}
    /\ armEpoch \in Nat
    /\ killState \in [Instances -> Producers \cup {None}]
    /\ life \in [Producers ->
                   {"unborn", "booting", "auditing", "freeing", "running", "gone"}]
    /\ byStage \in [Producers -> Stages \cup {None}]
    /\ told \in SUBSET Producers
    /\ beat \in [Producers -> {"off", "on", "lost", "releasing"}]
    /\ arming \in [Instances -> Stages \cup {None}]
    /\ claimed \in SUBSET {p \in Instances : arming[p] # None}
    /\ stopping \in SUBSET Instances
    /\ draining \in SUBSET Producers
    /\ shut \in SUBSET Producers
    /\ pulling \in SUBSET Producers
    /\ awaited \in SUBSET Producers
    /\ cutOff \in SUBSET Producers
    /\ late \in SUBSET Producers
    /\ dead \in SUBSET staged
    /\ \A p \in Instances :
          /\ killState[p] # None => Owner[killState[p]] = p
          /\ up[p] # "up" => killState[p] = None /\ arming[p] = None
    /\ \A i \in Producers :
          up[Owner[i]] # "up" =>
              life[i] \in {"unborn", "gone"} /\ beat[i] = "off" /\ i \notin draining

Init ==
    /\ up = [p \in Instances |-> "off"]
    /\ holder = None
    /\ live = FALSE
    /\ pending = None
    /\ staged = {}
    /\ confirmed = {}
    /\ arm = None
    /\ armEpoch = 0
    /\ killState = [p \in Instances |-> None]
    /\ life = [i \in Producers |-> "unborn"]
    /\ byStage = [i \in Producers |-> None]
    /\ told = {}
    /\ beat = [i \in Producers |-> "off"]
    /\ arming = [p \in Instances |-> None]
    /\ claimed = {}
    /\ stopping = {}
    /\ draining = {}
    /\ shut = {}
    /\ pulling = {}
    /\ awaited = {}
    /\ cutOff = {}
    /\ late = {}
    /\ dead = {}

Of(p) == {i \in Producers : Owner[i] = p}
Alive(i) == life[i] \notin {"unborn", "gone"}
Living == {i \in Producers : Alive(i)}

\* A signal reaches the tasks that still read their channel.
Tell(S) == told' = told \cup (S \cap Living)

(***************************************************************************)
(* The writer claim                                                        *)
(***************************************************************************)
\* try_acquire_writer_claim: nobody's, ours, or stale.
Acquirable(p) == holder \in {None, p} \/ ~live

Acquire(p) ==
    /\ Acquirable(p)
    /\ holder' = p
    /\ live' = TRUE

\* release_writer_claim deletes the row only under its own uuid.
Released(p) == IF holder = p THEN None ELSE holder

\* A holder misses its heartbeats.
GoStale ==
    /\ live
    /\ live' = FALSE
    /\ UNCHANGED <<up, holder, ceremony, killState, tasks, handlers>>

(***************************************************************************)
(* The ceremony                                                            *)
(***************************************************************************)
\* stage_arm_pending: never an id of the audit history.
FreshStage(s) == s \notin staged

\* A new stage replaces the pending one and leaves active_arm alone.
Stage(p, s) ==
    /\ up[p] = "up"
    /\ FreshStage(s)
    /\ staged' = staged \cup {s}
    /\ pending' = s
    /\ UNCHANGED <<up, claim, confirmed, arm, armEpoch, dead, killState, tasks, handlers>>

\* A confirm past exp_at_ms deletes the row and arms nothing: any may be late.
ConfirmExpired(p) ==
    /\ up[p] = "up"
    /\ pending # None
    /\ pending' = None
    /\ UNCHANGED <<up, claim, staged, confirmed, arm, armEpoch, dead>>
    /\ UNCHANGED <<killState, tasks, handlers>>

\* The stage_id is the pending one and no confirm consumed it.
Confirmable(s) == s = pending /\ s \notin confirmed

\* confirm_arm_attest, when the tap verifies: one transaction, which deletes the
\* pending row with its audit row.  A rehearsal (asked for, or a dirty build)
\* arms nothing; a real confirm writes active_arm over a smaller epoch only.
Confirm(p, s) ==
    /\ up[p] = "up"
    /\ arming[p] = None
    /\ Confirmable(s)
    /\ confirmed' = confirmed \cup {s}
    /\ pending' = None
    /\ \/ UNCHANGED <<arm, armEpoch, arming>>
       \/ /\ arm = None \/ Epoch[p] > armEpoch
          /\ arm' = s
          /\ armEpoch' = Epoch[p]
          /\ arming' = [arming EXCEPT ![p] = s]
    /\ UNCHANGED <<up, claim, staged, dead, killState, tasks>>
    /\ UNCHANGED <<claimed, disarms, alarms, shut>>

\* The confirm answers.
Conclude(p) ==
    /\ arming' = [arming EXCEPT ![p] = None]
    /\ claimed' = claimed \ {p}

\* arm_producer_start acquires the claim first.
ArmClaim(p) ==
    /\ arming[p] # None /\ p \notin claimed
    /\ Acquire(p)
    /\ claimed' = claimed \cup {p}
    /\ UNCHANGED <<up, ceremony, killState, tasks, arming, disarms, alarms, shut>>

\* Held by a live writer, or the database fails; or, at the spawn, armed already.
ArmRefused(p) ==
    /\ arming[p] # None
    /\ p \in claimed => killState[p] # None
    /\ Conclude(p)
    /\ UNCHANGED <<up, claim, ceremony, killState, tasks, disarms, alarms, shut>>

\* Under the lock of the kill state: the task, its channel and its watchdog.
ArmStart(p) ==
    /\ p \in claimed
    /\ killState[p] = None
    /\ \E i \in Of(p) :
          /\ life[i] = "unborn"
          /\ life' = [life EXCEPT ![i] = "running"]
          /\ byStage' = [byStage EXCEPT ![i] = arming[p]]
          /\ beat' = [beat EXCEPT ![i] = "on"]
          /\ killState' = [killState EXCEPT ![p] = i]
          /\ late' = IF draining \cap Of(p) = {} THEN late ELSE late \cup {i}
    /\ Conclude(p)
    /\ UNCHANGED <<up, claim, ceremony, told, cutOff, disarms, alarms, shut>>

(***************************************************************************)
(* The environment's arm                                                   *)
(***************************************************************************)
\* The channel is in place before the boot task asks for the claim.
Boot(p) ==
    /\ up[p] = "off"
    /\ up' = [up EXCEPT ![p] = "up"]
    /\ IF p \in EnvArmed
       THEN \E i \in Of(p) :
               /\ life[i] = "unborn"
               /\ life' = [life EXCEPT ![i] = "booting"]
               /\ killState' = [killState EXCEPT ![p] = i]
       ELSE UNCHANGED <<life, killState>>
    /\ UNCHANGED <<claim, ceremony, byStage, told, beat, cutOff, late, handlers>>

\* The claim is taken, and the boot_env_arm row awaited.
BootClaim(i) ==
    /\ life[i] = "booting"
    /\ Acquire(Owner[i])
    /\ life' = [life EXCEPT ![i] = "auditing"]
    /\ UNCHANGED <<up, ceremony, killState, byStage, told, beat, cutOff, late, handlers>>

\* The task and its watchdog run; the runner's shutdown, sent meanwhile, reaches both.
BootStart(i) ==
    /\ life[i] = "auditing"
    /\ life' = [life EXCEPT ![i] = "running"]
    /\ beat' = [beat EXCEPT ![i] = IF i \in shut THEN "releasing" ELSE "on"]
    /\ told' = told \cup (shut \cap {i})
    /\ shut' = shut \ {i}
    /\ UNCHANGED <<up, claim, ceremony, killState, byStage, cutOff, late>>
    /\ UNCHANGED <<confirms, disarms, alarms>>

\* The tasks for which a failed attempt of i was the last: i, in a shutdown.
Leaving(i) == shut \cap {i}

Retry(i) ==
    /\ life' = [life EXCEPT ![i] = IF i \in shut THEN "gone" ELSE "booting"]
    /\ told' = told \ Leaving(i)
    /\ shut' = shut \ Leaving(i)

\* A live writer holds the claim, or the database fails.  The kill state is emptied,
\* of whatever it holds, and the loop tries again.
BootRefused(i) ==
    /\ life[i] = "booting"
    /\ Retry(i)
    /\ cutOff' = (cutOff \cup ({killState[Owner[i]]} \cap Living)) \ Leaving(i)
    /\ killState' = [killState EXCEPT ![Owner[i]] = None]
    /\ UNCHANGED <<up, claim, ceremony, byStage, beat, late, confirms, disarms, alarms>>

\* The boot_env_arm row fails: the claim just taken will be released.
BootUnaudited(i) ==
    /\ life[i] = "auditing"
    /\ cutOff' = cutOff \cup ({killState[Owner[i]]} \cap Living)
    /\ killState' = [killState EXCEPT ![Owner[i]] = None]
    /\ life' = [life EXCEPT ![i] = "freeing"]
    /\ UNCHANGED <<up, claim, ceremony, byStage, told, beat, late, handlers>>

\* That the release fails is ignored.
BootRelease(i) ==
    /\ life[i] = "freeing"
    /\ holder' \in {holder, Released(Owner[i])}
    /\ Retry(i)
    /\ cutOff' = cutOff \ Leaving(i)
    /\ UNCHANGED <<up, live, ceremony, killState, byStage, beat, late>>
    /\ UNCHANGED <<confirms, disarms, alarms>>

\* The runner's shutdown signal reaches boot tasks and their watchdogs only.
Shutdown(p) ==
    LET mine == {i \in Of(p) : Alive(i) /\ byStage[i] = None}
        reads == {i \in mine : life[i] = "running"}
    IN
    /\ up[p] = "up"
    /\ mine # {}
    /\ told' = told \cup reads
    /\ shut' = shut \cup (mine \ reads)
    /\ beat' = [i \in Producers |->
                  IF i \in mine /\ beat[i] = "on" THEN "releasing" ELSE beat[i]]
    /\ UNCHANGED <<up, claim, ceremony, killState, life, byStage, cutOff, late>>
    /\ UNCHANGED <<confirms, disarms, alarms>>

\* It ends the wait between two attempts.
BootLeaves(i) ==
    /\ life[i] = "booting" /\ i \in shut
    /\ Retry(i)
    /\ cutOff' = cutOff \ Leaving(i)
    /\ UNCHANGED <<up, claim, ceremony, killState, byStage, beat, late>>
    /\ UNCHANGED <<confirms, disarms, alarms>>

Die(p) ==
    /\ up[p] = "up"
    /\ up' = [up EXCEPT ![p] = "down"]
    /\ life' = [i \in Producers |-> IF Owner[i] = p /\ Alive(i) THEN "gone" ELSE life[i]]
    /\ beat' = [i \in Producers |-> IF Owner[i] = p THEN "off" ELSE beat[i]]
    /\ killState' = [killState EXCEPT ![p] = None]
    /\ Conclude(p)
    /\ stopping' = stopping \ {p}
    /\ draining' = draining \ Of(p)
    /\ shut' = shut \ Of(p)
    /\ pulling' = pulling \ Of(p)
    /\ awaited' = awaited \ Of(p)
    /\ told' = told \ Of(p)
    /\ cutOff' = cutOff \ Of(p)
    /\ late' = late \ Of(p)
    /\ UNCHANGED <<claim, ceremony, byStage>>

(***************************************************************************)
(* Stopping a producer                                                     *)
(***************************************************************************)
\* The tick in flight ends, and the loop sees the signal.
Drain(i) ==
    /\ life[i] = "running" /\ i \in told
    /\ life' = [life EXCEPT ![i] = "gone"]
    /\ told' = told \ {i}
    /\ cutOff' = cutOff \ {i}
    /\ late' = late \ {i}
    /\ UNCHANGED <<up, claim, ceremony, killState, byStage, beat, handlers>>

\* clear_arm_pending(None): the open ceremony and the attested arm.
ClearAll ==
    /\ armEpoch' = 0
    /\ dead' = dead \cup ({pending, arm} \ {None})
    /\ pending' = None
    /\ arm' = None

\* Best effort: a failed clear is logged.
BestEffortClear ==
    /\ ClearAll \/ UNCHANGED <<pending, arm, armEpoch, dead>>
    /\ UNCHANGED <<staged, confirmed>>

\* Defect: the channel is dropped, and a receiver takes no end for a signal.
SwitchDropped(p) ==
    /\ killState' = [killState EXCEPT ![p] = None]
    /\ UNCHANGED told

\* The switch sends TRUE on the channel it takes.
Switched(p) ==
    /\ Tell({killState[p]})
    /\ killState' = [killState EXCEPT ![p] = None]

\* /disarm clears, and only then takes the switch.
DisarmClear(p) ==
    /\ up[p] = "up" /\ p \in Disarmable
    /\ BestEffortClear
    /\ stopping' = stopping \cup {p}
    /\ UNCHANGED <<up, claim, killState, tasks, confirms, draining, alarms, shut>>

\* It uses it and waits for the drain, or, with no live task behind it, answers.
DisarmKill(p) ==
    /\ p \in stopping
    /\ Switched(p)
    /\ stopping' = stopping \ {p}
    /\ draining' = draining \cup ({killState[p]} \cap Living)
    /\ late' = late \ Of(p)
    /\ UNCHANGED <<up, claim, ceremony, life, byStage, beat, cutOff, confirms, alarms, shut>>

\* The task drained or crashed, or 5 s are past and its channel is let go.
DisarmAnswer(i) ==
    /\ i \in draining
    /\ draining' = draining \ {i}
    /\ late' = IF draining' \cap Of(Owner[i]) = {} THEN late \ Of(Owner[i]) ELSE late
    /\ UNCHANGED <<up, claim, ceremony, killState, life, byStage, told, beat, cutOff>>
    /\ UNCHANGED <<confirms, stopping, alarms, shut>>

\* auto_disarm_producer, called by reconciliation, the duplicate-charge alarm
\* and the worker, takes the switch first, clears, then uses it.
AutoTake(p) ==
    /\ killState[p] # None /\ p \in Disarmable
    /\ pulling' = pulling \cup {killState[p]}
    /\ killState' = [killState EXCEPT ![p] = None]
    /\ UNCHANGED <<up, claim, ceremony, tasks, confirms, disarms, awaited, shut>>

\* Defect: the handle is dropped unused.
SignalLost(i) == UNCHANGED told

Signalled(i) == Tell({i})

AutoSignal(i) ==
    /\ i \in pulling
    /\ BestEffortClear
    /\ Signalled(i)
    /\ pulling' = pulling \ {i}
    /\ awaited' = awaited \cup {i}
    /\ UNCHANGED <<up, claim, killState, life, byStage, beat, cutOff, late>>
    /\ UNCHANGED <<confirms, disarms, shut>>

\* Drained; or after 5 s the channel goes back, unless another is in place.
AutoDone(i) ==
    /\ i \in awaited
    /\ awaited' = awaited \ {i}
    /\ \/ life[i] = "gone" /\ UNCHANGED killState
       \/ Alive(i) /\ killState' = [killState EXCEPT ![Owner[i]] = IF @ = None THEN i ELSE @]
    /\ UNCHANGED <<up, claim, ceremony, tasks, confirms, disarms, pulling, shut>>

(***************************************************************************)
(* The watchdog of a task                                                  *)
(***************************************************************************)
\* Defect: the heartbeat updates the row whoever it names.
AnyRow(p) == holder # None

\* heartbeat_writer_claim updates the row of its own uuid, and says if it did.
StillOurs(p) == holder = p

\* Unarmed: stop and release.  Armed: refresh the claim, or find it lost.
Beat(i) ==
    LET p == Owner[i] IN
    /\ beat[i] = "on"
    /\ IF killState[p] = None
       THEN beat' = [beat EXCEPT ![i] = "releasing"] /\ UNCHANGED live
       ELSE IF StillOurs(p)
            THEN live' = TRUE /\ UNCHANGED beat
            ELSE beat' = [beat EXCEPT ![i] = "lost"] /\ UNCHANGED live
    /\ UNCHANGED <<up, holder, ceremony, killState, life, byStage, told, cutOff, late, handlers>>

\* A database error cannot prove that the claim is held.
BeatFails(i) ==
    /\ beat[i] = "on"
    /\ killState[Owner[i]] # None
    /\ beat' = [beat EXCEPT ![i] = "lost"]
    /\ UNCHANGED <<up, claim, ceremony, killState, life, byStage, told, cutOff, late, handlers>>

\* The DELETE comes some awaits after the look at the kill state.
Release(i) ==
    /\ beat[i] = "releasing"
    /\ beat' = [beat EXCEPT ![i] = "off"]
    /\ holder' \in {holder, Released(Owner[i])}
    /\ UNCHANGED <<up, live, ceremony, killState, life, byStage, told, cutOff, late, handlers>>

\* self_disarm_on_lost_writer_claim leaves the ceremony and the arm as they are.
SelfDisarm(i) ==
    /\ beat[i] = "lost"
    /\ beat' = [beat EXCEPT ![i] = "off"]
    /\ Switched(Owner[i])
    /\ UNCHANGED <<up, claim, ceremony, life, byStage, cutOff, late, handlers>>

(***************************************************************************)
(* Specification                                                           *)
(***************************************************************************)
BootStep(i) ==
    \/ BootClaim(i) \/ BootStart(i) \/ BootRefused(i)
    \/ BootUnaudited(i) \/ BootRelease(i) \/ BootLeaves(i)

Watchdog(i) == Beat(i) \/ Release(i) \/ SelfDisarm(i)

Next ==
    \/ GoStale
    \/ \E p \in Instances :
          \/ Boot(p) \/ Shutdown(p) \/ Die(p)
          \/ ConfirmExpired(p)
          \/ ArmClaim(p) \/ ArmRefused(p) \/ ArmStart(p)
          \/ DisarmClear(p) \/ DisarmKill(p) \/ AutoTake(p)
          \/ \E s \in Stages : Stage(p, s) \/ Confirm(p, s)
    \/ \E i \in Producers :
          \/ BootStep(i) \/ Drain(i) \/ DisarmAnswer(i)
          \/ AutoSignal(i) \/ AutoDone(i)
          \/ Watchdog(i) \/ BeatFails(i)

Spec == Init /\ [][Next]_vars

\* Alarms and watchdogs run on; nobody need arm, disarm, refuse or die.
Fairness == \A i \in Producers : WF_vars(AutoSignal(i)) /\ WF_vars(Watchdog(i))
FairSpec == Spec /\ Fairness

(***************************************************************************)
(* Properties                                                              *)
(***************************************************************************)
\* A producer that has not been told to stop can be: its channel is in the kill
\* state or in the hand of an alarm about to use it.  Hence at most one such
\* producer per instance besides.  Excepted are tasks cut off by a refused boot.
Killable ==
    \A i \in Producers \ (told \cup cutOff) :
        Alive(i) => i \in pulling \/ killState[Owner[i]] = i

\* A ceremony starts one producer at most, in one instance,
\* however many confirms of however many instances race.
OneStartPerStage ==
    \A i, j \in Producers :
        byStage[i] # None =>
            /\ byStage[i] \in confirmed
            /\ byStage[i] = byStage[j] => i = j

\* A disarm ends the ceremonies it finds for good: no stage that was pending or
\* armed when a disarm cleared is ever pending or armed again.
DisarmEndsCeremonies == dead \cap {pending, arm} = {}

\* /disarm answers: at the switch, with nothing to drain, or after the drain.
Answers(p) ==
    \/ p \in stopping \ stopping' /\ draining' = draining
    \/ \E d \in draining \ draining' : Owner[d] = p

\* When a disarm answers, every producer of the process has been told to stop or
\* is in the hand of an alarm about to tell it, whatever alarms, watchdogs, drains
\* and new arms ran since the disarm began.  Excepted, besides the tasks cut off
\* by a refused boot, are those started while it awaited the drain.
DisarmReaches ==
    [][\A i \in Producers :
          Answers(Owner[i]) /\ Alive(i)' => i \in late \cup (told \cup cutOff \cup pulling)']_vars

\* A producer whose claim another instance took over, or that lost its row, is
\* told to stop by its own watchdog, unless the claim comes back.
DeposedStops ==
    \A i \in Producers :
        []<>(\/ life[i] # "running" \/ holder = Owner[i]
             \/ i \in told \cup cutOff)

\* What quarantine.rs says of action_production_armed: a boot-env producer that
\* runs with a live claim has its kill-switch channel held.
BootProducerHeld ==
    \A i \in Producers :
        life[i] = "running" /\ i \notin told /\ byStage[i] = None
        /\ holder = Owner[i] /\ live
            => i \in pulling \/ killState[Owner[i]] # None
=============================================================================
