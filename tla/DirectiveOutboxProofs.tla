----------------------- MODULE DirectiveOutboxProofs -----------------------
(***************************************************************************)
(* Proofs about DirectiveOutbox, for any number of directives and workers  *)
(* and any limits: the lease and handle protocol, and how directives end.  *)
(***************************************************************************)
EXTENDS DirectiveOutbox, TLAPS

(***************************************************************************)
(* Types.  TypeOK bounds claimCount, so its proof is also the proof that   *)
(* the delivery ceiling holds.                                             *)
(***************************************************************************)
LEMMA Limits ==
    /\ BatchLimit \in Nat /\ MaxAttempts \in Nat /\ MaxAttempts >= 1
    /\ Ttl \in Nat /\ Lease \in Nat /\ MaxDelay \in Nat
    /\ Unleased \in Int /\ Unleased = -(MaxDelay + 1) /\ NotAsked = -1
BY LimitsAssumption DEF Unleased, NotAsked

\* A worker that asked did so no more than MaxDelay ticks ago.
LEMMA AgeBounded ==
    ASSUME TypeOK, NEW w \in Workers, asked[w] # NotAsked
    PROVE  asked[w] \in 0..MaxDelay
BY Limits DEF TypeOK

LEMMA TypeInit == Init => TypeOK
BY Limits DEF Init, TypeOK, Terminal

\* A directive that is handed out has attempts left.
LEMMA BatchMembers ==
    ASSUME NEW age, NEW d \in Batch(age)
    PROVE  /\ d \in Directives
           /\ Free(d, age)
           /\ ~(claimCount[d] >= MaxAttempts)
           /\ ~(ttlLeft[d] + age <= 0)
           /\ d \notin OverDelivered(age) \cup OutOfWindow(age)
BY DEF Batch, Dispatchable, OverDelivered, OutOfWindow

LEMMA SweptMembers ==
    ASSUME NEW age, NEW d \in OverDelivered(age) \cup OutOfWindow(age)
    PROVE  d \in Directives /\ Free(d, age)
BY DEF OverDelivered, OutOfWindow

LEMMA TypeClaim ==
    ASSUME TypeOK, NEW w \in Workers, Claim(w)
    PROVE  TypeOK'
<1> DEFINE age == asked[w]
<1>1. age \in 0..MaxDelay
  BY AgeBounded DEF Claim
<1>2. ASSUME NEW d \in Batch(age)
      PROVE  FreshHandle(d) \in 1..MaxAttempts /\ d \in Directives
  <2>1. /\ d \in Directives /\ ~(claimCount[d] >= MaxAttempts)
    BY BatchMembers
  <2>2. claimCount[d] \in 0..MaxAttempts
    BY <2>1 DEF TypeOK
  <2>3. QED
    BY <2>1, <2>2, Limits DEF FreshHandle
<1>3. status' \in [Directives -> {"absent", "staged"} \cup Terminal]
  BY DEF Claim, TypeOK, Terminal
<1>4. lastError' \in [Directives -> {"none", "refused", "ttl", "attempts"}]
  BY DEF Claim, TypeOK, Cause
<1>5. leaseLeft' \in [Directives -> Unleased..Lease]
  <2>1. Lease - age \in Unleased..Lease
    BY <1>1, Limits
  <2>2. QED
    BY <2>1 DEF Claim, TypeOK
<1>6. claimCount' \in [Directives -> 0..MaxAttempts]
  <2>1. \A d \in Batch(age) : claimCount[d] + 1 \in 0..MaxAttempts
    BY <1>2, Limits DEF FreshHandle
  <2>2. QED
    BY <2>1 DEF Claim, TypeOK
<1>7. handle' \in [Directives -> 0..MaxAttempts]
  <2>1. \A d \in Batch(age) : FreshHandle(d) \in 0..MaxAttempts
    BY <1>2, Limits
  <2>2. QED
    BY <2>1 DEF Claim, TypeOK
<1>8. held' \in [Workers -> SUBSET Claims]
  <2>1. {[dir |-> d, handle |-> FreshHandle(d)] : d \in Batch(age)} \subseteq Claims
    BY <1>2 DEF Claims
  <2>2. QED
    BY <2>1 DEF Claim, TypeOK
<1>9. asked' \in [Workers -> NotAsked..MaxDelay]
  BY Limits DEF Claim, TypeOK
<1>10. ttlLeft' = ttlLeft /\ verdict' = verdict
  BY DEF Claim
<1>11. QED
  BY <1>3, <1>4, <1>5, <1>6, <1>7, <1>8, <1>9, <1>10 DEF TypeOK

\* What ack and nack do to the table, whoever calls them.
LEMMA TypeRows ==
    ASSUME TypeOK, NEW c \in Claims, WorkerAckOutbox(c) \/ NackOutbox(c)
    PROVE  /\ status' \in [Directives -> {"absent", "staged"} \cup Terminal]
           /\ leaseLeft' \in [Directives -> Unleased..Lease]
           /\ lastError' \in [Directives -> {"none", "refused", "ttl", "attempts"}]
           /\ ttlLeft' = ttlLeft /\ claimCount' = claimCount /\ handle' = handle
<1>1. Unleased \in Unleased..Lease
  BY Limits
<1>2. CASE WorkerAckOutbox(c)
  BY <1>2 DEF WorkerAckOutbox, TypeOK, Terminal, rows
<1>3. CASE NackOutbox(c)
  BY <1>1, <1>3 DEF NackOutbox, TypeOK, rows
<1>4. QED
  BY <1>2, <1>3

LEMMA TypeStep == TypeOK /\ [Next]_vars => TypeOK'
<1> SUFFICES ASSUME TypeOK, [Next]_vars PROVE TypeOK'
  OBVIOUS
<1>1. ASSUME NEW d \in Directives, Stage(d) PROVE TypeOK'
  BY <1>1, Limits DEF Stage, TypeOK, Terminal
<1>2. ASSUME NEW d \in Directives, AckOutbox(d) PROVE TypeOK'
  BY <1>2 DEF AckOutbox, TypeOK, Terminal
<1>3. ASSUME NEW w \in Workers, Ask(w) PROVE TypeOK'
  BY <1>3, Limits DEF Ask, TypeOK, rows
<1>4. ASSUME NEW w \in Workers, Claim(w) PROVE TypeOK'
  BY <1>4, TypeClaim
<1>5. ASSUME NEW w \in Workers, Abandon(w) PROVE TypeOK'
  BY <1>5, Limits DEF Abandon, TypeOK, rows
<1>6. ASSUME NEW w \in Remotes, RemoteCall(w) PROVE TypeOK'
  <2>1. PICK c \in held[w] : \/ RemoteHeartbeat(w, c)
                             \/ RemoteAck(w, c)
                             \/ RemoteNack(w, c)
    BY <1>6 DEF RemoteCall
  <2>2. c \in Claims
    BY <2>1 DEF TypeOK, Workers
  <2>3. CASE RemoteHeartbeat(w, c)
    <3>1. ASSUME NEW age \in 0..MaxDelay PROVE Lease - age \in Unleased..Lease
      BY Limits DEF Unleased
    <3>2. PICK age \in 0..MaxDelay : leaseLeft' = [leaseLeft EXCEPT ![c.dir] = Lease - age]
      BY <2>3 DEF RemoteHeartbeat, HeartbeatOutbox
    <3>3. leaseLeft' \in [Directives -> Unleased..Lease]
      <4>1. leaseLeft \in [Directives -> Unleased..Lease]
        BY DEF TypeOK
      <4>2. Lease - age \in Unleased..Lease
        BY <3>1
      <4>3. QED
        BY <3>2, <4>1, <4>2
    <3>4. QED
      BY <2>3, <3>3 DEF RemoteHeartbeat, HeartbeatOutbox, TypeOK
  <2>4. CASE RemoteAck(w, c) \/ RemoteNack(w, c)
    BY <2>2, <2>4, TypeRows DEF RemoteAck, RemoteNack, TypeOK
  <2>5. QED
    BY <2>1, <2>3, <2>4
<1>7. ASSUME NEW l \in Loops, Judge(l) PROVE TypeOK'
  BY <1>7 DEF Judge, TypeOK, rows
<1>8. ASSUME NEW l \in Loops, NEW c \in held[l], Report(l, c) PROVE TypeOK'
  <2>1. c \in Claims
    BY DEF TypeOK, Workers
  <2>2. held' \in [Workers -> SUBSET Claims] /\ verdict' \in [Loops -> {"none", "executed", "refused"}]
    BY <1>8 DEF Report, TypeOK, Workers
  <2>3. QED
    BY <1>8, <2>1, <2>2, TypeRows DEF Report, TypeOK
<1>9. ASSUME Tick PROVE TypeOK'
  <2>1. leaseLeft' \in [Directives -> Unleased..Lease]
    BY <1>9, Limits DEF Tick, TypeOK
  <2>2. ttlLeft' \in [Directives -> -MaxDelay..Ttl]
    BY <1>9, Limits DEF Tick, TypeOK
  <2>3. asked' \in [Workers -> NotAsked..MaxDelay]
    BY <1>9, Limits DEF Tick, TypeOK
  <2>4. QED
    BY <1>9, <2>1, <2>2, <2>3 DEF Tick, TypeOK
<1>10. ASSUME UNCHANGED vars PROVE TypeOK'
  BY <1>10 DEF vars, rows, TypeOK
<1>11. QED
  BY <1>1, <1>2, <1>3, <1>4, <1>5, <1>6, <1>7, <1>8, <1>9, <1>10 DEF Next, LoopStep

\* The tables and the workers' memories keep their shape, no directive is
\* claimed more often than the ceiling allows, and no claim call runs later
\* than MaxDelay after it read the clock.
THEOREM OutboxTypeCorrect == Spec => []TypeOK
BY TypeInit, TypeStep, PTL DEF Spec

(***************************************************************************)
(* The inductive invariant behind OneLiveHandle: the handle of a row is    *)
(* that of its latest claim, every remembered claim was issued, and no     *)
(* claim is in the memory of two workers, superseded claims included.      *)
(***************************************************************************)
LatestHandle ==
    \A d \in Directives : handle[d] = claimCount[d]

HandlesIssued ==
    \A w \in Workers : \A c \in held[w] : c.handle <= claimCount[c.dir]

OneClaimOneWorker ==
    \A w1, w2 \in Workers : held[w1] \cap held[w2] # {} => w1 = w2

HandleInv == TypeOK /\ LatestHandle /\ HandlesIssued /\ OneClaimOneWorker

LEMMA HandleInit == Init => HandleInv
BY TypeInit DEF Init, HandleInv, LatestHandle, HandlesIssued, OneClaimOneWorker

\* A step that issues nothing and at most forgets keeps the handles apart.
LEMMA HandlesForgotten ==
    ASSUME HandleInv, handle' = handle, claimCount' = claimCount,
           \A w \in Workers : held'[w] \subseteq held[w]
    PROVE  (LatestHandle /\ HandlesIssued /\ OneClaimOneWorker)'
BY DEF HandleInv, LatestHandle, HandlesIssued, OneClaimOneWorker

\* A batch carries handles that nobody remembers.
LEMMA HandlesClaimed ==
    ASSUME HandleInv, NEW w \in Workers, Claim(w)
    PROVE  (LatestHandle /\ HandlesIssued /\ OneClaimOneWorker)'
<1>1. PICK B \in SUBSET Directives :
        /\ claimCount' = [d \in Directives |->
                           IF d \in B THEN claimCount[d] + 1 ELSE claimCount[d]]
        /\ handle' = [d \in Directives |->
                       IF d \in B THEN claimCount[d] + 1 ELSE handle[d]]
        /\ held' = [held EXCEPT ![w] =
                     @ \cup {[dir |-> d, handle |-> claimCount[d] + 1] : d \in B}]
  <2>1. Batch(asked[w]) \in SUBSET Directives
    BY BatchMembers
  <2>2. QED
    BY <2>1 DEF Claim, FreshHandle
<1>2. /\ claimCount \in [Directives -> Nat]
      /\ held \in [Workers -> SUBSET Claims]
  BY Limits DEF HandleInv, TypeOK
<1>3. LatestHandle'
  BY <1>1, <1>2 DEF HandleInv, LatestHandle
<1>4. ASSUME NEW v \in Workers, NEW c \in held'[v], c \notin held[v]
      PROVE  /\ v = w /\ c.dir \in Directives
             /\ c.handle = claimCount[c.dir] + 1
             /\ c.handle = claimCount'[c.dir]
  <2>1. v = w
    BY <1>1, <1>2, <1>4
  <2>2. PICK d \in B : c = [dir |-> d, handle |-> claimCount[d] + 1]
    BY <1>1, <1>2, <1>4, <2>1
  <2>3. QED
    BY <1>1, <2>1, <2>2
<1>5. ASSUME NEW v \in Workers, NEW c \in held[v]
      PROVE  /\ c.dir \in Directives /\ c.handle \in Nat
             /\ c.handle <= claimCount[c.dir]
  <2>1. c \in Claims
    BY <1>2
  <2>2. QED
    BY <2>1, Limits DEF Claims, HandleInv, HandlesIssued
<1>6. HandlesIssued'
  <2>1. SUFFICES ASSUME NEW v \in Workers, NEW c \in held'[v]
                 PROVE  c.handle <= claimCount'[c.dir]
    BY DEF HandlesIssued
  <2>2. CASE c \in held[v]
    <3>1. c.dir \in Directives /\ c.handle \in Nat /\ c.handle <= claimCount[c.dir]
      BY <1>5, <2>2
    <3>2. QED
      BY <1>1, <1>2, <3>1
  <2>3. CASE c \notin held[v]
    <3>1. c.handle = claimCount'[c.dir] /\ c.handle = claimCount[c.dir] + 1
          /\ c.dir \in Directives
      BY <1>4, <2>3
    <3>2. QED
      BY <1>2, <3>1
  <2>4. QED
    BY <2>2, <2>3
<1>7. OneClaimOneWorker'
  <2>1. SUFFICES ASSUME NEW v1 \in Workers, NEW v2 \in Workers,
                        NEW c, c \in held'[v1], c \in held'[v2]
                 PROVE  v1 = v2
    BY DEF OneClaimOneWorker
  <2>2. CASE c \in held[v1] /\ c \in held[v2]
    BY <2>2 DEF HandleInv, OneClaimOneWorker
  <2>3. CASE c \notin held[v1] /\ c \notin held[v2]
    BY <1>4, <2>1, <2>3
  <2>4. ASSUME NEW u \in Workers, NEW v \in Workers,
               c \in held[u], c \in held'[v], c \notin held[v]
        PROVE  FALSE
    <3>1. c.handle <= claimCount[c.dir] /\ c.dir \in Directives
      BY <1>5, <2>4
    <3>2. c.handle = claimCount[c.dir] + 1
      BY <1>4, <2>4
    <3>3. QED
      BY <1>2, <3>1, <3>2
  <2>5. QED
    BY <2>1, <2>2, <2>3, <2>4
<1>8. QED
  BY <1>3, <1>6, <1>7

LEMMA HandleStep == HandleInv /\ [Next]_vars => HandleInv'
<1> SUFFICES ASSUME HandleInv, [Next]_vars PROVE HandleInv'
  OBVIOUS
<1>1. TypeOK'
  BY TypeStep DEF HandleInv
<1>2. ASSUME handle' = handle, claimCount' = claimCount, held' = held
      PROVE  HandleInv'
  BY <1>1, <1>2, HandlesForgotten DEF HandleInv
<1>3. ASSUME NEW d \in Directives, Stage(d) \/ AckOutbox(d) PROVE HandleInv'
  BY <1>2, <1>3 DEF Stage, AckOutbox
<1>4. ASSUME NEW w \in Workers, Ask(w) PROVE HandleInv'
  BY <1>2, <1>4 DEF Ask, rows
<1>5. ASSUME NEW w \in Workers, Claim(w) PROVE HandleInv'
  BY <1>1, <1>5, HandlesClaimed DEF HandleInv
<1>6. ASSUME NEW w \in Workers, Abandon(w) PROVE HandleInv'
  <2>1. \A v \in Workers : held'[v] \subseteq held[v]
    BY <1>6 DEF Abandon, HandleInv, TypeOK
  <2>2. QED
    BY <1>1, <1>6, <2>1, HandlesForgotten DEF Abandon, rows, HandleInv
<1>7. ASSUME NEW w \in Remotes, RemoteCall(w) PROVE HandleInv'
  BY <1>2, <1>7 DEF RemoteCall, RemoteHeartbeat, HeartbeatOutbox, RemoteAck,
                    WorkerAckOutbox, RemoteNack, NackOutbox, rows
<1>8. ASSUME NEW l \in Loops, Judge(l) PROVE HandleInv'
  BY <1>2, <1>8 DEF Judge, rows
<1>9. ASSUME NEW l \in Loops, NEW c \in held[l], Report(l, c) PROVE HandleInv'
  <2>1. \A v \in Workers : held'[v] \subseteq held[v]
    BY <1>9 DEF Report, HandleInv, TypeOK, Workers
  <2>2. handle' = handle /\ claimCount' = claimCount
    BY <1>9 DEF Report, WorkerAckOutbox, NackOutbox, rows
  <2>3. QED
    BY <1>1, <2>1, <2>2, HandlesForgotten DEF HandleInv
<1>10. ASSUME Tick PROVE HandleInv'
  BY <1>2, <1>10 DEF Tick
<1>11. ASSUME UNCHANGED vars PROVE HandleInv'
  BY <1>2, <1>11 DEF vars, rows
<1>12. QED
  BY <1>3, <1>4, <1>5, <1>6, <1>7, <1>8, <1>9, <1>10, <1>11 DEF Next, LoopStep

\* One worker at most can act on a directive, however many claims of it
\* lapsed, were nacked or were lost before.
THEOREM OneActor == Spec => []OneLiveHandle
<1>1. HandleInv => OneLiveHandle
  <2>1. SUFFICES ASSUME HandleInv,
                        NEW w1 \in Workers, NEW w2 \in Workers,
                        NEW c1 \in held[w1], NEW c2 \in held[w2],
                        c1.dir = c2.dir, HandleMatches(c1), HandleMatches(c2)
                 PROVE  w1 = w2
    BY DEF OneLiveHandle
  <2>2. c1 \in Claims /\ c2 \in Claims
    BY <2>1 DEF HandleInv, TypeOK
  <2>3. c1 = c2
    BY <2>1, <2>2 DEF HandleMatches, Claims
  <2>4. QED
    BY <2>1, <2>3 DEF HandleInv, OneClaimOneWorker
<1>2. QED
  BY <1>1, HandleInit, HandleStep, PTL DEF Spec

(***************************************************************************)
(* What one step does to one directive.  The step properties all follow    *)
(* from this case distinction and the types.                               *)
(***************************************************************************)
Unmoved(d) ==
    /\ status'[d] = status[d]
    /\ claimCount'[d] = claimCount[d]
    /\ handle'[d] = handle[d]
    /\ lastError'[d] = lastError[d]
    /\ leaseLeft'[d] <= leaseLeft[d]

Staged(d) ==
    /\ status[d] = "absent" /\ status'[d] \in {"staged", "dismissed"}
    /\ leaseLeft'[d] = leaseLeft[d] /\ handle'[d] = handle[d]
    /\ claimCount'[d] = claimCount[d] /\ lastError'[d] = lastError[d]

HandedOut(d) ==
    /\ status[d] = "staged" /\ status'[d] = "staged"
    /\ leaseLeft[d] < 0
    /\ claimCount[d] < MaxAttempts
    /\ ttlLeft[d] > -MaxDelay
    /\ lastError'[d] = lastError[d]

Swept(d) ==
    /\ status[d] = "staged" /\ status'[d] = "expired"
    /\ leaseLeft[d] < 0
    /\ handle'[d] = handle[d] /\ claimCount'[d] = claimCount[d]
    /\ IF claimCount[d] >= MaxAttempts
       THEN lastError'[d] = "attempts"
       ELSE lastError'[d] \in {"ttl", lastError[d]}

Reported(d) ==
    /\ status[d] = "staged" /\ status'[d] \in {"staged", "acked"}
    /\ handle'[d] = handle[d] /\ claimCount'[d] = claimCount[d]
    /\ lastError'[d] \in {"refused", lastError[d]}

Fate(d) == Unmoved(d) \/ Staged(d) \/ HandedOut(d) \/ Swept(d) \/ Reported(d)

LEMMA ClaimFate ==
    ASSUME TypeOK, NEW w \in Workers, Claim(w), NEW d \in Directives
    PROVE  Fate(d)
<1> DEFINE age == asked[w]
           swept == OverDelivered(age) \cup OutOfWindow(age)
<1>1. age \in 0..MaxDelay
  BY AgeBounded DEF Claim
<1>2. /\ leaseLeft[d] \in Int /\ ttlLeft[d] \in Int /\ claimCount[d] \in Nat
      /\ MaxDelay \in Nat /\ MaxAttempts \in Nat
  BY Limits DEF TypeOK
<1>3. Free(d, age) => status[d] = "staged" /\ leaseLeft[d] < 0
  BY <1>1, <1>2 DEF Free
<1>4. CASE d \in Batch(age)
  <2>1. /\ Free(d, age) /\ d \notin swept
        /\ ~(claimCount[d] >= MaxAttempts) /\ ~(ttlLeft[d] + age <= 0)
    BY <1>4, BatchMembers
  <2>2. status'[d] = status[d] /\ lastError'[d] = lastError[d]
    BY <2>1 DEF Claim
  <2>3. HandedOut(d)
    BY <1>1, <1>2, <1>3, <2>1, <2>2 DEF HandedOut
  <2>4. QED
    BY <2>3 DEF Fate
<1>5. CASE d \in swept
  <2>1. Free(d, age)
    BY <1>5, SweptMembers
  <2>2. d \notin Batch(age)
    BY <1>5, BatchMembers
  <2>3. /\ status'[d] = "expired" /\ lastError'[d] = Cause(d, age)
        /\ handle'[d] = handle[d] /\ claimCount'[d] = claimCount[d]
    BY <1>5, <2>2 DEF Claim
  <2>4. d \in OverDelivered(age) <=> claimCount[d] >= MaxAttempts
    BY <2>1 DEF OverDelivered
  <2>5. Swept(d)
    BY <1>3, <2>1, <2>3, <2>4 DEF Swept, Cause
  <2>6. QED
    BY <2>5 DEF Fate
<1>6. CASE d \notin Batch(age) /\ d \notin swept
  <2>1. Unmoved(d)
    BY <1>2, <1>6 DEF Claim, Unmoved
  <2>2. QED
    BY <2>1 DEF Fate
<1>7. QED
  BY <1>4, <1>5, <1>6

\* The row operations behind acks and nacks.
LEMMA ReportFate ==
    ASSUME TypeOK, NEW c \in Claims, NEW d \in Directives,
           WorkerAckOutbox(c) \/ NackOutbox(c)
    PROVE  Fate(d)
<1>1. leaseLeft[d] \in Int
  BY Limits DEF TypeOK
<1>2. CASE Actionable(c) /\ c.dir = d
  <2>1. Reported(d)
    BY <1>2 DEF WorkerAckOutbox, NackOutbox, Actionable, Reported, TypeOK
  <2>2. QED
    BY <2>1 DEF Fate
<1>3. CASE Actionable(c) /\ c.dir # d
  <2>1. Unmoved(d)
    BY <1>1, <1>3 DEF WorkerAckOutbox, NackOutbox, Unmoved, TypeOK
  <2>2. QED
    BY <2>1 DEF Fate
<1>4. CASE ~Actionable(c)
  <2>1. Unmoved(d)
    BY <1>1, <1>4 DEF WorkerAckOutbox, NackOutbox, Unmoved, rows
  <2>2. QED
    BY <2>1 DEF Fate
<1>5. QED
  BY <1>2, <1>3, <1>4

LEMMA StepFate ==
    ASSUME TypeOK, [Next]_vars, NEW d \in Directives
    PROVE  Fate(d)
<1>1. leaseLeft[d] \in Int /\ Unleased \in Int /\ leaseLeft[d] >= Unleased
  BY Limits DEF TypeOK
<1>2. ASSUME UNCHANGED rows PROVE Fate(d)
  BY <1>1, <1>2 DEF rows, Fate, Unmoved
<1>3. ASSUME NEW f \in Directives, Stage(f) PROVE Fate(d)
  <2>1. IF f = d THEN Staged(d) ELSE Unmoved(d)
    BY <1>1, <1>3 DEF Stage, Staged, Unmoved, TypeOK
  <2>2. QED
    BY <2>1 DEF Fate
<1>4. ASSUME NEW f \in Directives, AckOutbox(f) PROVE Fate(d)
  <2>1. IF f = d THEN Reported(d) ELSE Unmoved(d)
    BY <1>1, <1>4 DEF AckOutbox, Reported, Unmoved, TypeOK
  <2>2. QED
    BY <2>1 DEF Fate
<1>5. ASSUME NEW w \in Workers, Ask(w) \/ Claim(w) \/ Abandon(w) PROVE Fate(d)
  BY <1>2, <1>5, ClaimFate DEF Ask, Abandon
<1>6. ASSUME NEW w \in Remotes, RemoteCall(w) PROVE Fate(d)
  <2>1. PICK c \in held[w] : \/ RemoteHeartbeat(w, c)
                             \/ RemoteAck(w, c)
                             \/ RemoteNack(w, c)
    BY <1>6 DEF RemoteCall
  <2>2. c \in Claims
    BY <2>1 DEF TypeOK, Workers
  <2>3. CASE RemoteHeartbeat(w, c)
    <3>1. IF c.dir = d THEN Reported(d) ELSE Unmoved(d)
      BY <1>1, <2>3 DEF RemoteHeartbeat, HeartbeatOutbox, Actionable, Reported,
                        Unmoved, TypeOK
    <3>2. QED
      BY <3>1 DEF Fate
  <2>4. CASE RemoteAck(w, c) \/ RemoteNack(w, c)
    BY <2>2, <2>4, ReportFate DEF RemoteAck, RemoteNack
  <2>5. QED
    BY <2>1, <2>3, <2>4
<1>7. ASSUME NEW l \in Loops, Judge(l) PROVE Fate(d)
  BY <1>2, <1>7 DEF Judge
<1>8. ASSUME NEW l \in Loops, NEW c \in held[l], Report(l, c) PROVE Fate(d)
  <2>1. c \in Claims
    BY DEF TypeOK, Workers
  <2>2. QED
    BY <1>8, <2>1, ReportFate DEF Report
<1>9. ASSUME Tick PROVE Fate(d)
  <2>1. leaseLeft'[d] <= leaseLeft[d]
    BY <1>1, <1>9 DEF Tick
  <2>2. Unmoved(d)
    BY <1>9, <2>1 DEF Tick, Unmoved
  <2>3. QED
    BY <2>2 DEF Fate
<1>10. ASSUME UNCHANGED vars PROVE Fate(d)
  BY <1>2, <1>10 DEF vars
<1>11. QED
  BY <1>3, <1>4, <1>5, <1>6, <1>7, <1>8, <1>9, <1>10 DEF Next, LoopStep

\* No late ack, nack, heartbeat or sweep touches a directive that has ended.
THEOREM EndsAreFinal == Spec => EndedForGood
<1>1. TypeOK /\ [Next]_vars =>
        [\A d \in Directives :
          status[d] \in Terminal =>
             /\ status'[d] = status[d]
             /\ lastError'[d] = lastError[d]
             /\ handle'[d] = handle[d]
             /\ leaseLeft'[d] <= leaseLeft[d]]_vars
  BY StepFate DEF Fate, Unmoved, Staged, HandedOut, Swept, Reported, Terminal
<1>2. QED
  BY <1>1, OutboxTypeCorrect, PTL DEF Spec, EndedForGood

\* A running lease keeps every other worker and both sweeps away.
THEOREM LeasesHold == Spec => LeaseHonoured
<1>1. ASSUME TypeOK, [Next]_vars, NEW d \in Directives,
             status[d] = "staged", leaseLeft[d] >= 0
      PROVE  handle'[d] = handle[d] /\ status'[d] \in {"staged", "acked"}
  <2>1. leaseLeft[d] \in Int
    BY <1>1, Limits DEF TypeOK
  <2>2. Unmoved(d) \/ Reported(d)
    BY <1>1, <2>1, StepFate DEF Fate, Staged, HandedOut, Swept
  <2>3. QED
    BY <1>1, <2>2 DEF Unmoved, Reported
<1>2. TypeOK /\ [Next]_vars =>
        [\A d \in Directives :
          status[d] = "staged" /\ leaseLeft[d] >= 0 =>
             /\ handle'[d] = handle[d]
             /\ status'[d] \in {"staged", "acked"}]_vars
  BY <1>1
<1>3. QED
  BY <1>2, OutboxTypeCorrect, PTL DEF Spec, LeaseHonoured

\* No hand-out beyond the ceiling, or later after the window than the delay.
THEOREM DispatchIsFenced == Spec => DispatchFenced
<1>1. TypeOK /\ [Next]_vars =>
        [\A d \in Directives :
          handle'[d] # handle[d] =>
             /\ status[d] = "staged" /\ status'[d] = "staged"
             /\ claimCount[d] < MaxAttempts
             /\ ttlLeft[d] > -MaxDelay]_vars
  BY StepFate DEF Fate, Unmoved, Staged, HandedOut, Swept, Reported
<1>2. QED
  BY <1>1, OutboxTypeCorrect, PTL DEF Spec, DispatchFenced

\* DeathAttribution is inductive once it is known that only the sweep of the
\* delivery ceiling ever writes its reason.
OnlyTheDeadBlame ==
    \A d \in Directives : status[d] # "expired" => lastError[d] # "attempts"

CauseInv == TypeOK /\ OnlyTheDeadBlame /\ DeathAttribution

\* An expired row blames its attempts exactly when it had used them all.
THEOREM DeathsAttributed == Spec => []DeathAttribution
<1>1. Init => CauseInv
  BY TypeInit DEF Init, CauseInv, OnlyTheDeadBlame, DeathAttribution
<1>2. CauseInv /\ [Next]_vars => CauseInv'
  <2> SUFFICES ASSUME CauseInv, [Next]_vars PROVE CauseInv'
    OBVIOUS
  <2>1. TypeOK'
    BY TypeStep DEF CauseInv
  <2>2. ASSUME NEW d \in Directives
        PROVE  /\ status'[d] # "expired" => lastError'[d] # "attempts"
               /\ status'[d] = "expired" =>
                     (lastError'[d] = "attempts" <=> claimCount'[d] = MaxAttempts)
    <3>1. /\ claimCount[d] \in Nat /\ claimCount[d] <= MaxAttempts
          /\ MaxAttempts \in Nat
      BY Limits DEF CauseInv, TypeOK
    <3>2. /\ status[d] # "expired" => lastError[d] # "attempts"
          /\ status[d] = "expired" =>
                (lastError[d] = "attempts" <=> claimCount[d] = MaxAttempts)
      BY DEF CauseInv, OnlyTheDeadBlame, DeathAttribution
    <3>3. Fate(d)
      BY StepFate DEF CauseInv
    <3>4. CASE Unmoved(d)
      BY <3>2, <3>4 DEF Unmoved
    <3>5. CASE Staged(d) \/ HandedOut(d) \/ Reported(d)
      BY <3>2, <3>5 DEF Staged, HandedOut, Reported
    <3>6. CASE Swept(d)
      BY <3>1, <3>2, <3>6 DEF Swept
    <3>7. QED
      BY <3>3, <3>4, <3>5, <3>6 DEF Fate
  <2>3. QED
    BY <2>1, <2>2 DEF CauseInv, OnlyTheDeadBlame, DeathAttribution
<1>3. QED
  BY <1>1, <1>2, PTL DEF Spec, CauseInv

(***************************************************************************)
(* The table as recovery knows it.                                         *)
(***************************************************************************)
LEMMA OnlyStageStages ==
    ASSUME TypeOK, [Next]_vars, ~ \E f \in Directives : Stage(f),
           NEW d \in Directives, status[d] = "absent"
    PROVE  status'[d] = "absent"
<1>1. ASSUME NEW c \in Claims, WorkerAckOutbox(c) \/ NackOutbox(c)
      PROVE  status'[d] = "absent"
  BY <1>1 DEF WorkerAckOutbox, NackOutbox, Actionable, TypeOK, rows
<1>2. ASSUME NEW w \in Workers, Claim(w) PROVE status'[d] = "absent"
  BY <1>2 DEF Claim, OverDelivered, OutOfWindow, Free
<1>3. ASSUME NEW w \in Remotes, RemoteCall(w) PROVE status'[d] = "absent"
  <2>1. PICK c \in held[w] : \/ RemoteHeartbeat(w, c)
                             \/ RemoteAck(w, c)
                             \/ RemoteNack(w, c)
    BY <1>3 DEF RemoteCall
  <2>2. c \in Claims
    BY <2>1 DEF TypeOK, Workers
  <2>3. QED
    BY <1>1, <2>1, <2>2 DEF RemoteHeartbeat, HeartbeatOutbox, RemoteAck, RemoteNack
<1>4. ASSUME NEW l \in Loops, NEW c \in held[l], Report(l, c) PROVE status'[d] = "absent"
  <2>1. c \in Claims
    BY DEF TypeOK, Workers
  <2>2. QED
    BY <1>1, <1>4, <2>1 DEF Report
<1>5. ASSUME NEW f \in Directives, AckOutbox(f) PROVE status'[d] = "absent"
  BY <1>5 DEF AckOutbox, TypeOK
<1>6. QED
  BY <1>2, <1>3, <1>4, <1>5
  DEF Next, vars, rows, Ask, Abandon, LoopStep, Judge, Tick

StandingOf(d) == IF status[d] \in Terminal THEN "ended" ELSE status[d]
StampOf(d) == IF status[d] = "absent" THEN 0 ELSE CreatedAt[d]

LEMMA DirectivesInit == Init => OutboxTable!Init
BY DEF Init, OutboxTable!Init, Terminal

LEMMA StageFiles ==
    ASSUME TypeOK, NEW d \in Directives, Stage(d)
    PROVE  OutboxTable!File(d)
<1>1. PICK s \in {"staged", "dismissed"} : status' = [status EXCEPT ![d] = s]
  BY DEF Stage
<1>2. /\ status[d] = "absent" /\ status'[d] = s
      /\ \A f \in Directives \ {d} : status'[f] = status[f]
  BY <1>1 DEF Stage, TypeOK
<1>3. /\ StandingOf(d) = "absent" /\ StandingOf(d)' \in {"staged", "ended"}
      /\ \A f \in Directives \ {d} : StandingOf(f)' = StandingOf(f)
  BY <1>2 DEF StandingOf, Terminal
<1>4. /\ StampOf(d)' = CreatedAt[d]
      /\ \A f \in Directives \ {d} : StampOf(f)' = StampOf(f)
  BY <1>2 DEF StampOf
<1>5. \A f \in OutboxTable!OnFile : f \in Directives /\ StampOf(f) < StampOf(d)'
  <2>1. \A f \in OutboxTable!OnFile : f \in Directives /\ status[f] # "absent"
    BY DEF OutboxTable!OnFile, Terminal
  <2>2. QED
    BY <1>4, <2>1 DEF Stage, StampOf
<1>6. QED
  BY <1>3, <1>4, <1>5 DEF OutboxTable!File, StandingOf, StampOf

\* Any other step ends what it ends, all of it staged.
LEMMA OthersEnd ==
    ASSUME TypeOK, [Next]_vars, ~ \E f \in Directives : Stage(f)
    PROVE  \E S \in SUBSET Directives : OutboxTable!End(S)
<1>1. PICK S \in SUBSET Directives :
         S = {d \in Directives : status[d] = "staged" /\ status'[d] # "staged"}
  OBVIOUS
<1>2. ASSUME NEW d \in Directives
      PROVE  StandingOf(d)' = IF d \in S THEN "ended" ELSE StandingOf(d)
  <2>1. CASE status[d] = "absent"
    BY <1>1, <2>1, OnlyStageStages DEF StandingOf
  <2>2. CASE status[d] # "absent"
    <3>1. \/ status'[d] = status[d]
          \/ status[d] = "staged" /\ status'[d] \in {"staged", "acked", "expired"}
      BY <2>2, StepFate DEF Fate, Unmoved, Staged, HandedOut, Swept, Reported
    <3>2. QED
      BY <1>1, <3>1 DEF StandingOf, Terminal
  <2>3. QED
    BY <2>1, <2>2
<1>3. ASSUME NEW d \in Directives PROVE StampOf(d)' = StampOf(d)
  <2>1. status'[d] = "absent" <=> status[d] = "absent"
    BY OnlyStageStages, StepFate DEF Fate, Unmoved, Staged, HandedOut, Swept, Reported
  <2>2. QED
    BY <2>1 DEF StampOf
<1>4. \A d \in S : StandingOf(d) = "staged"
  BY <1>1 DEF StandingOf, Terminal
<1>5. OutboxTable!End(S)
  BY <1>1, <1>2, <1>3, <1>4 DEF OutboxTable!End, StandingOf, StampOf
<1>6. QED
  BY <1>5

\* What recovery relies on: a directive it filed ends once and by itself, whatever
\* claims, lapsed leases, late calls and sweeps come to it (outbox_store.rs).
THEOREM DirectiveRefinement == Spec => DirectivesAreKept
<1>1. TypeOK /\ [Next]_vars => [OutboxTable!Next]_(OutboxTable!vars)
  <2>1. ASSUME TypeOK, [Next]_vars PROVE OutboxTable!Next
    BY <2>1, StageFiles, OthersEnd DEF OutboxTable!Next
  <2>2. QED
    BY <2>1
<1>2. QED
  BY <1>1, OutboxTypeCorrect, DirectivesInit, PTL
  DEF Spec, DirectivesAreKept, OutboxTable!Spec
=============================================================================
