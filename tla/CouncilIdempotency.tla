------------------------- MODULE CouncilIdempotency -------------------------
(***************************************************************************)
(* The gate in front of the council endpoint.  A request of the gateway's  *)
(* Lua router peeks at its Idempotency-Key, locks one of its caller's      *)
(* concurrency slots, claims the key, deliberates, and cleans up from a    *)
(* timer: unlock, then store or fail.  Each call is an HTTP exchange with  *)
(* the sidecar, which keeps slots, reservations and an LRU of answers in   *)
(* memory and mirrors answers in SQLite; claim and store await the mirror  *)
(* before they touch memory, and any other request may run in between.     *)
(*                                                                         *)
(* The sidecar may restart under the router, answers to its calls may be   *)
(* lost, requests may vanish without their cleanup, and reservations and   *)
(* slots lapse while their owner is still at work.  One caller is modelled *)
(* (slots and keys are per caller), over less than the 24 h an answer      *)
(* lives.  A Failed marker is no reservation to any reader, hence it is    *)
(* the absence of one here; so is a pending row of the mirror.             *)
(***************************************************************************)
EXTENDS Integers, FiniteSets

CONSTANTS
    Requests,     \* request_id's of one caller, each with its key and its body
    Keys,
    Bodies,
    Key,
    Body,
    Nobody,       \* no reservation, no answer
    Cap,          \* concurrency_cap
    PendingTtl,   \* PENDING_TTL, in ticks
    SweepAge,     \* max_age of the active sweeper
    MirrorFaults, \* whether reads and writes of the mirror may fail
    MaxRestarts   \* bound: restarts of the sidecar

ASSUME RequestsAssumption ==
    /\ IsFiniteSet(Requests)
    /\ Key \in [Requests -> Keys]
    /\ Body \in [Requests -> Bodies]
    /\ Nobody \notin Requests
ASSUME GateAssumption ==
    /\ Cap \in Nat \ {0}
    /\ PendingTtl \in Nat \ {0}
    /\ SweepAge \in Nat /\ SweepAge > PendingTtl
    /\ MirrorFaults \in BOOLEAN
    /\ MaxRestarts \in Nat

VARIABLES
    pc,        \* how far the router, or its cleanup timer, is with a request
    grant,     \* record.council_grant_id, 0 is none
    slots,     \* active: the slots of the caller; the owner is nowhere stored
    seq,       \* grant_seq
    reserver,  \* pending: the owner_request_id of a key's reservation
    resAge,    \* age of that reservation, up to PendingTtl
    cached,    \* stored: the request whose answer the LRU holds for a key
    mirror,    \* council_idem: the request whose answer is the stored row
    restarts,
    overrun,   \* history: who was at work when its reservation ended, and how
    swept      \* history: who was at work when its slot was swept

memory == <<slots, seq, reserver, resAge, cached>>
history == <<overrun, swept>>
vars == <<pc, grant, memory, mirror, restarts, history>>

Claiming == {"checked", "written"}
Busy == {"deliberating", "answered", "failed", "storing", "failing", "mirrored"}
AtWork == {"locked", "checked", "written", "deliberating", "answered", "failed",
           "unlocking"}
Somebody == Requests \cup {Nobody}

\* The shape of the state; the slots never exceed the cap.
TypeOK ==
    /\ pc \in [Requests -> {"start", "missed", "over"} \cup AtWork \cup Busy]
    /\ grant \in [Requests -> Nat]
    /\ slots \subseteq [grant : Nat \ {0}, owner : Requests, age : 0..SweepAge]
    /\ IsFiniteSet(slots) /\ Cardinality(slots) <= Cap
    /\ seq \in Nat \ {0}
    /\ reserver \in [Keys -> Somebody]
    /\ resAge \in [Keys -> 0..PendingTtl]
    /\ cached \in [Keys -> Somebody]
    /\ mirror \in [Keys -> Somebody]
    /\ restarts \in 0..MaxRestarts
    /\ overrun \subseteq Requests \X {"lapse", "restart"}
    /\ swept \subseteq Requests

Init ==
    /\ pc = [r \in Requests |-> "start"]
    /\ grant = [r \in Requests |-> 0]
    /\ slots = {}
    /\ seq = 1
    /\ reserver = [k \in Keys |-> Nobody]
    /\ resAge = [k \in Keys |-> 0]
    /\ cached = [k \in Keys |-> Nobody]
    /\ mirror = [k \in Keys |-> Nobody]
    /\ restarts = 0
    /\ overrun = {}
    /\ swept = {}

\* The grant_id is forgotten once the request is over or has unlocked.
Goto(r, step) ==
    /\ pc' = [pc EXCEPT ![r] = step]
    /\ grant' = IF step \in {"over", "storing", "failing"}
                THEN [grant EXCEPT ![r] = 0] ELSE grant

(***************************************************************************)
(* Peek: the LRU, then the mirror, then the reservations.  What happens    *)
(* between the three looks only makes a miss of what was a hit, as an      *)
(* earlier peek would.                                                     *)
(***************************************************************************)
Reserved(k) == reserver[k] # Nobody /\ resAge[k] < PendingTtl

\* The answer of request a replays to r: the bodies hash the same.
Replays(a, r) == a # Nobody /\ Body[a] = Body[r]

\* A replay, or a conflict when the bodies differ.
PeekCached(r) ==
    /\ pc[r] = "start"
    /\ cached[Key[r]] # Nobody
    /\ Goto(r, "over")
    /\ UNCHANGED <<memory, mirror, restarts, history>>

\* Read-through: the row warms the LRU.
PeekMirror(r) ==
    LET k == Key[r]
    IN  /\ pc[r] = "start" /\ cached[k] = Nobody
        /\ Replays(mirror[k], r)
        /\ Goto(r, "over")
        /\ cached' = [cached EXCEPT ![k] = mirror[k]]
        /\ UNCHANGED <<grant, slots, seq, reserver, resAge, mirror, restarts, history>>

\* A failed read, and a row with another body, count as no row.  A row whose answer
\* does not parse is a miss at once, whoever has reserved the key meanwhile.
PeekMiss(r) ==
    LET k == Key[r]
    IN  /\ pc[r] = "start" /\ cached[k] = Nobody
        /\ \/ /\ ~Replays(mirror[k], r) \/ MirrorFaults
              /\ Goto(r, IF Reserved(k) THEN "over" ELSE "missed")
           \/ MirrorFaults /\ Replays(mirror[k], r) /\ Goto(r, "missed")
        /\ UNCHANGED <<memory, mirror, restarts, history>>

(***************************************************************************)
(* Lock: one slot under the cap.  The answer may be lost, and its grant_id *)
(* with it.                                                                *)
(***************************************************************************)
Full == Cardinality(slots) >= Cap

LockGranted(r) ==
    /\ pc[r] = "missed"
    /\ ~Full
    /\ slots' = slots \cup {[grant |-> seq, owner |-> r, age |-> 0]}
    /\ seq' = seq + 1
    /\ \/ /\ pc' = [pc EXCEPT ![r] = "locked"]
          /\ grant' = [grant EXCEPT ![r] = seq]
       \/ Goto(r, "over")
    /\ UNCHANGED <<reserver, resAge, cached, mirror, restarts, history>>

\* A refused lock has minted a grant_id all the same.
LockRefused(r) ==
    /\ pc[r] = "missed"
    /\ Full
    /\ seq' = seq + 1
    /\ Goto(r, "over")
    /\ UNCHANGED <<slots, reserver, resAge, cached, mirror, restarts, history>>

(***************************************************************************)
(* Claim: is an answer mirrored, write a pending row over whatever is      *)
(* there, then reserve the key in memory unless another owner holds it.    *)
(***************************************************************************)
\* Defect: the claim does not ask the mirror for an answer.
NotAsked(k) == FALSE

Mirrored(k) == mirror[k] # Nobody

ClaimCheck(r) ==
    LET k == Key[r]
    IN  /\ pc[r] = "locked"
        /\ \/ Mirrored(k) /\ Goto(r, "unlocking")
           \/ (~Mirrored(k) \/ MirrorFaults) /\ Goto(r, "checked")
        /\ UNCHANGED <<memory, mirror, restarts, history>>

ClaimWriteAhead(r) ==
    /\ pc[r] = "checked"
    /\ \/ mirror' = [mirror EXCEPT ![Key[r]] = Nobody] /\ Goto(r, "written")
       \/ MirrorFaults /\ Goto(r, "unlocking") /\ UNCHANGED mirror
    /\ UNCHANGED <<memory, restarts, history>>

\* Defect: the owner test is inverted.
ConflictWithSelf(r) == Reserved(Key[r]) /\ reserver[Key[r]] = r

Conflict(r) == Reserved(Key[r]) /\ reserver[Key[r]] # r

\* When the answer is lost the reservation stays and the router gives up.
ClaimReserve(r) ==
    LET k == Key[r]
    IN  /\ pc[r] = "written"
        /\ \/ /\ Conflict(r)
              /\ Goto(r, "unlocking")
              /\ UNCHANGED <<reserver, resAge>>
           \/ /\ ~Conflict(r)
              /\ reserver' = [reserver EXCEPT ![k] = r]
              /\ resAge' = [resAge EXCEPT ![k] = 0]
              /\ \E step \in {"deliberating", "unlocking"} : Goto(r, step)
        /\ UNCHANGED <<slots, seq, cached, mirror, restarts, history>>

(***************************************************************************)
(* The deliberation ends, and the cleanup timer runs: unlock, then store   *)
(* or fail.                                                                *)
(***************************************************************************)
Respond(r) ==
    /\ pc[r] = "deliberating"
    /\ \E outcome \in {"answered", "failed"} : Goto(r, outcome)
    /\ UNCHANGED <<memory, mirror, restarts, history>>

\* Defect: an unlock pops the oldest slot of the caller.
WithoutOldest(r) == {s \in slots : \E t \in slots : t.grant < s.grant}

\* council_unlock removes the slot with the very grant_id, if there is one.
Without(r) == {s \in slots : s.grant # grant[r]}

AfterUnlock == [step \in {"unlocking", "answered", "failed"} |->
                  CASE step = "unlocking" -> "over"
                    [] step = "answered" -> "storing"
                    [] step = "failed" -> "failing"]

\* The router goes on whether or not its call came through.
Unlock(r) ==
    /\ pc[r] \in {"unlocking", "answered", "failed"}
    /\ Goto(r, AfterUnlock[pc[r]])
    /\ slots' \in {Without(r), slots}
    /\ UNCHANGED <<seq, reserver, resAge, cached, mirror, restarts, history>>

\* The mirror is best effort; a call that is lost stores nothing anywhere.
StoreMirror(r) ==
    /\ pc[r] = "storing"
    /\ \/ Goto(r, "mirrored") /\ mirror' = [mirror EXCEPT ![Key[r]] = r]
       \/ Goto(r, "mirrored") /\ MirrorFaults /\ UNCHANGED mirror
       \/ Goto(r, "over") /\ UNCHANGED mirror
    /\ UNCHANGED <<memory, restarts, history>>

\* Removes the key's reservation, whoever owns it.
StoreCached(r) ==
    LET k == Key[r]
    IN  /\ pc[r] = "mirrored"
        /\ reserver' = [reserver EXCEPT ![k] = Nobody]
        /\ cached' = [cached EXCEPT ![k] = r]
        /\ Goto(r, "over")
        /\ UNCHANGED <<slots, seq, resAge, mirror, restarts, history>>

\* Replaces the key's reservation, whoever owns it.
Fail(r) ==
    /\ pc[r] = "failing"
    /\ reserver' \in {[reserver EXCEPT ![Key[r]] = Nobody], reserver}
    /\ Goto(r, "over")
    /\ UNCHANGED <<slots, seq, resAge, cached, mirror, restarts, history>>

\* The client goes away mid-deliberation: only the slot is released.
Abort(r) ==
    /\ pc[r] = "deliberating"
    /\ slots' = Without(r)
    /\ Goto(r, "over")
    /\ UNCHANGED <<seq, reserver, resAge, cached, mirror, restarts, history>>

\* A call fails, the cleanup timer is rejected, or the nginx worker dies.
Abandon(r) ==
    /\ pc[r] \in AtWork \cup {"start", "missed", "storing", "failing"}
    /\ Goto(r, "over")
    /\ UNCHANGED <<memory, mirror, restarts, history>>

(***************************************************************************)
(* The sidecar on its own: time, eviction, the sweeper, a restart.         *)
(***************************************************************************)
Evict(k) ==
    /\ cached[k] # Nobody
    /\ cached' = [cached EXCEPT ![k] = Nobody]
    /\ UNCHANGED <<pc, grant, slots, seq, reserver, resAge, mirror, restarts, history>>

Owners == {r \in Requests : pc[r] \in Busy /\ reserver[Key[r]] = r /\ Reserved(Key[r])}

Tick ==
    /\ slots' = {[s EXCEPT !.age = IF @ < SweepAge THEN @ + 1 ELSE @] : s \in slots}
    /\ resAge' = [k \in Keys |-> IF Reserved(k) THEN resAge[k] + 1 ELSE resAge[k]]
    /\ overrun' = overrun \cup
         ({r \in Owners : resAge[Key[r]] + 1 = PendingTtl} \X {"lapse"})
    /\ UNCHANGED <<pc, grant, seq, reserver, cached, mirror, restarts, swept>>

\* Defect: the sweeper waits for a slot to be older than it ever gets.
NeverStale(s) == s.age > SweepAge

Stale(s) == s.age >= SweepAge

Sweep ==
    /\ \E s \in slots : Stale(s)
    /\ slots' = {s \in slots : ~Stale(s)}
    /\ swept' = swept \cup {r \in Requests : /\ pc[r] \in AtWork
                                             /\ \E s \in slots : Stale(s) /\ s.owner = r}
    /\ UNCHANGED <<pc, grant, seq, reserver, resAge, cached, mirror, restarts, overrun>>

\* Calls the sidecar was serving die with it; the router's requests live on.
\* Pending rows are dropped, stored rows are loaded into the LRU.
Restart ==
    /\ restarts < MaxRestarts
    /\ restarts' = restarts + 1
    /\ slots' = {}
    /\ seq' = 1
    /\ reserver' = [k \in Keys |-> Nobody]
    /\ cached' = mirror
    /\ pc' = [r \in Requests |-> IF pc[r] \in Claiming THEN "unlocking"
                                 ELSE IF pc[r] = "mirrored" THEN "over" ELSE pc[r]]
    /\ overrun' = overrun \cup (Owners \X {"restart"})
    /\ UNCHANGED <<grant, resAge, mirror, swept>>

Call(r) ==
    \/ PeekCached(r) \/ PeekMirror(r) \/ PeekMiss(r)
    \/ LockGranted(r) \/ LockRefused(r)
    \/ ClaimCheck(r) \/ ClaimWriteAhead(r) \/ ClaimReserve(r)
    \/ Respond(r) \/ Unlock(r) \/ StoreMirror(r) \/ StoreCached(r) \/ Fail(r)

Next ==
    \/ \E r \in Requests : Call(r) \/ Abort(r) \/ Abandon(r)
    \/ \E k \in Keys : Evict(k)
    \/ Tick \/ Sweep \/ Restart

Spec == Init /\ [][Next]_vars

\* The clock runs and the sweeper's interval fires; no request need go on.
FairSpec == Spec /\ WF_vars(Tick) /\ WF_vars(Sweep)

(***************************************************************************)
(* Properties.                                                             *)
(***************************************************************************)
\* Two requests deliberate over one key, or have an outcome to record for it,
\* only after a deliberation outlived its reservation or the sidecar restarted
\* under one: no race of peek, lock and claim lets a second one in.
OneDeliberation ==
    \A r1, r2 \in Requests :
        r1 # r2 /\ Key[r1] = Key[r2] /\ pc[r1] \in Busy /\ pc[r2] \in Busy
            => \E o \in overrun : Key[o[1]] = Key[r1]

\* Until the sidecar restarts, no more requests of a caller are at work than
\* its cap allows, but for those whose slot was swept from under them.
SessionsCapped ==
    restarts = 0 => Cardinality({r \in Requests : pc[r] \in AtWork} \ swept) <= Cap

\* A slot is taken away from its owner by the owner's own step or by the
\* sweeper at its age.
Taken(s) == \A t \in slots' : t.grant # s.grant \/ t.owner # s.owner

SlotsKept ==
    [][restarts' = 0 =>
          \A s \in slots :
              Taken(s) => s.age >= SweepAge \/ pc'[s.owner] # pc[s.owner]]_vars

\* An answer that is mirrored while no claim is past its look at the mirror
\* stays: evictions, restarts, late stores and retries with another body do
\* not reopen the key, nothing but a failed read of the mirror does.
Settled(k) ==
    /\ mirror[k] # Nobody
    /\ \A r \in Requests : Key[r] = k => pc[r] \notin Claiming

SettledForGood ==
    [][\A k \in Keys :
          Settled(k) =>
             \/ Settled(k)'
             \/ \E r \in Requests : /\ MirrorFaults /\ Key[r] = k
                                    /\ pc[r] = "locked" /\ pc'[r] = "checked"]_vars

\* Every slot comes back, though its unlock is lost, its grant_id never
\* reached the router, or its request vanished.
SlotsReturn ==
    \A r \in Requests : (\E s \in slots : s.owner = r) ~> ~(\E s \in slots : s.owner = r)
=============================================================================
