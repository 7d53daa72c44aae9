----------------------- MODULE EscalationClaimsProofs -----------------------
(***************************************************************************)
(* Proofs about EscalationClaims, for every set of rows, dispatchers and   *)
(* days and every estimate, cap and cost: the ledger, and the fencing      *)
(* tokens, by which a row has at most one writer, a late answer is never   *)
(* stored, a row is settled once, and ClaimFencing is implemented.         *)
(***************************************************************************)
EXTENDS EscalationClaims, FiniteSetTheorems, TLAPS

(***************************************************************************)
(* Type correctness.                                                       *)
(***************************************************************************)
\* Backing an amount out of one day of a ledger leaves a ledger.
LEMMA ReleaseType ==
    ASSUME NEW ledger \in [Days -> Nat], NEW b \in Days, NEW amount \in Nat
    PROVE  Release(ledger, b, amount) \in [Days -> Nat]
BY DEF Release

\* The ledger a claim reserves in is a ledger.
LEMMA AfterReclaimType ==
    ASSUME TypeOK, NEW e \in Escalations
    PROVE  AfterReclaim(e) \in [Days -> Nat]
<1>1. CASE status[e] = "claimed" /\ stamp[e] # NoDay
  <2>1. stamp[e] \in Days
    BY <1>1 DEF TypeOK
  <2>2. QED
    BY <1>1, <2>1, ReleaseType, MoneyAssumption DEF AfterReclaim, TypeOK
<1>2. CASE ~(status[e] = "claimed" /\ stamp[e] # NoDay)
  BY <1>2 DEF AfterReclaim, TypeOK
<1>3. QED
  BY <1>1, <1>2

\* What a settle charges is an amount of money.
LEMMA ChargeType ==
    ASSUME NEW c \in Costs \cup {NoCost}
    PROVE  Charge(c) \in Nat
BY MoneyAssumption DEF Charge, NoCost

\* A cost, valid or rejected, is a number.
LEMMA CostType ==
    ASSUME NEW c \in Costs \cup {NoCost}
    PROVE  c \in Int
<1>1. NoCost \in Int
  BY DEF NoCost
<1>2. QED
  BY <1>1, MoneyAssumption

\* A loop at work has a row.
BusyHasJob ==
    \A d \in Dispatchers : loop[d].phase # "idle" => loop[d].job \in Escalations

TypeInv == TypeOK /\ BusyHasJob

LEMMA IdleType ==
    Idle \in Memory
BY DEF Idle, Phases, Memory

\* The typing invariant holds initially and is kept by every action.
LEMMA TypeInit == Init => TypeInv
<1> SUFFICES ASSUME Init PROVE TypeInv
  OBVIOUS
<1>1. 1 \in Days
  BY TimeAssumption DEF Days
<1>2. TypeOK
  BY <1>1, IdleType DEF Init, TypeOK, Statuses, Expired, NoRetry, NoCost, NoDay
<1>3. BusyHasJob
  BY DEF Init, BusyHasJob, Idle
<1>4. QED
  BY <1>2, <1>3 DEF TypeInv

LEMMA TypeStep == TypeInv /\ [Next]_vars => TypeInv'
<1> SUFFICES ASSUME TypeInv, [Next]_vars PROVE TypeInv'
  OBVIOUS
<1> USE DEF TypeInv, rowVars, ledgerVars, historyVars
<1>1. ASSUME NEW e \in Escalations, Enqueue(e) PROVE TypeInv'
  BY <1>1 DEF Enqueue, TypeOK, BusyHasJob, Memory, Statuses, NonTerminal
<1>2. ASSUME NEW d \in Dispatchers, Claim(d) PROVE TypeInv'
  <2>1. PICK e \in Selectable(d) :
          /\ reserved' = [AfterReclaim(e) EXCEPT ![today] = @ + Estimate]
          /\ status' = [status EXCEPT ![e] = "claimed"]
          /\ claimToken' = [claimToken EXCEPT ![e] = FreshToken(e)]
          /\ leaseLeft' = [leaseLeft EXCEPT ![e] = Lease]
          /\ stamp' = [stamp EXCEPT ![e] = today]
          /\ loop' = [loop EXCEPT ![d] = [phase |-> "calling", job |-> e,
                                          token |-> FreshToken(e), fence |-> Deadline,
                                          answer |-> NoCost]]
    BY <1>2 DEF Claim
  <2>2. e \in Escalations
    BY <2>1 DEF Selectable
  <2>3. FreshToken(e) \in Nat
    BY <2>2 DEF FreshToken, TypeOK
  <2>4. reserved' \in [Days -> Nat]
    BY <2>1, <2>2, AfterReclaimType, MoneyAssumption DEF TypeOK
  <2>5. [phase |-> "calling", job |-> e, token |-> FreshToken(e), fence |-> Deadline,
         answer |-> NoCost] \in
          Memory
    BY <2>2, <2>3, TimeAssumption DEF Phases, Memory
  <2>6. peakCap' \in [Days -> Nat]
    BY <1>2, MoneyAssumption DEF Claim, TypeOK, Higher, SpendCap, Lower
  <2>7. leaseLeft' \in [Escalations -> Int]
    BY <2>1, <2>2, TimeAssumption DEF TypeOK
  <2>8. TypeOK'
    BY <1>2, <2>1, <2>2, <2>3, <2>4, <2>5, <2>6, <2>7
       DEF Claim, TypeOK, Statuses, NonTerminal
  <2>9. BusyHasJob'
    BY <2>1, <2>2 DEF TypeOK, BusyHasJob, Memory
  <2>10. QED
    BY <2>8, <2>9
<1>3. ASSUME NEW d \in Dispatchers, CouncilAnswers(d) PROVE TypeInv'
  <2>1. PICK c \in Costs \cup {NoCost} :
          loop' = [loop EXCEPT ![d].phase = "answered", ![d].answer = c]
    BY <1>3 DEF CouncilAnswers
  <2>2. loop[d] \in Memory
    BY DEF TypeOK, Memory
  <2>3. loop' = [loop EXCEPT ![d] = [loop[d] EXCEPT !.phase = "answered", !.answer = c]]
    BY <2>1, <2>2 DEF TypeOK, Memory
  <2>4. [loop[d] EXCEPT !.phase = "answered", !.answer = c] \in
          Memory
    BY <2>1, <2>2 DEF Phases, Memory
  <2>5. loop[d].job \in Escalations
    BY <1>3 DEF CouncilAnswers, BusyHasJob
  <2>6. TypeOK'
    BY <1>3, <2>3, <2>4 DEF CouncilAnswers, TypeOK
  <2>7. BusyHasJob'
    BY <2>2, <2>3, <2>5 DEF TypeOK, BusyHasJob, Memory
  <2>8. QED
    BY <2>6, <2>7
<1>4. ASSUME NEW d \in Dispatchers, CouncilFails(d) PROVE TypeInv'
  BY <1>4 DEF CouncilFails, TypeOK, BusyHasJob, Memory, Phases
<1>5. ASSUME NEW d \in Dispatchers, Renew(d) PROVE TypeInv'
  BY <1>5, TimeAssumption DEF Renew, TypeOK, BusyHasJob, Memory
<1>6. ASSUME NEW d \in Dispatchers,
             loop' = [loop EXCEPT ![d] = Idle],
             UNCHANGED <<rowVars, ledgerVars, today, armCap, historyVars>>
      PROVE TypeInv'
  BY <1>6, IdleType DEF TypeOK, BusyHasJob, Memory, Idle
<1>7. ASSUME NEW d \in Dispatchers, StoreAndStage(d) PROVE TypeInv'
  <2> DEFINE e == loop[d].job
             b == stamp[e]
             cost == loop[d].answer
  <2>1. e \in Escalations /\ cost \in Costs \cup {NoCost} /\ b \in Days \cup {NoDay}
    BY <1>7 DEF StoreAndStage, TypeOK, BusyHasJob, Memory
  <2>2. Charge(cost) \in Nat
    BY <2>1, ChargeType
  <2>3. Higher(Charge(cost) - Estimate, 0) \in Nat
    BY <2>2, MoneyAssumption DEF Higher
  <2>4. /\ reserved' \in [Days -> Nat]
        /\ settled' \in [Days -> Nat]
        /\ overshoot' \in [Days -> Nat]
    <3>1. CASE b = NoDay
      BY <1>7, <3>1 DEF StoreAndStage, TypeOK
    <3>2. CASE b # NoDay
      <4>1. b \in Days
        BY <2>1, <3>2
      <4>2. reserved' = Release(reserved, b, Estimate)
        BY <1>7, <3>2 DEF StoreAndStage
      <4>3. reserved' \in [Days -> Nat]
        BY <4>1, <4>2, ReleaseType, MoneyAssumption DEF TypeOK
      <4>4. settled' = [settled EXCEPT ![b] = @ + Charge(cost)]
        BY <1>7, <3>2 DEF StoreAndStage
      <4>5. overshoot' = [overshoot EXCEPT ![b] = @ + Higher(Charge(cost) - Estimate, 0)]
        BY <1>7, <3>2 DEF StoreAndStage
      <4>6. settled' \in [Days -> Nat] /\ overshoot' \in [Days -> Nat]
        BY <4>1, <4>4, <4>5, <2>2, <2>3 DEF TypeOK
      <4>7. QED
        BY <4>3, <4>6
    <3>3. QED
      BY <3>1, <3>2
  <2>5. loop[d].token \in Nat /\ cost \in Int
    BY <2>1, CostType DEF TypeOK, Memory
  <2>6. TypeOK'
    BY <1>7, <2>1, <2>2, <2>4, <2>5, IdleType
       DEF StoreAndStage, TypeOK, Statuses, NonTerminal, NoDay
  <2>7. BusyHasJob'
    BY <1>7 DEF StoreAndStage, TypeOK, BusyHasJob, Memory, Idle
  <2>8. QED
    BY <2>6, <2>7
<1>8. ASSUME NEW d \in Dispatchers, MarkFailed(d) PROVE TypeInv'
  <2> DEFINE e == loop[d].job
             b == stamp[e]
  <2>1. e \in Escalations /\ b \in Days \cup {NoDay}
    BY <1>8 DEF MarkFailed, TypeOK, BusyHasJob, Memory
  <2>2. reserved' \in [Days -> Nat]
    BY <1>8, <2>1, ReleaseType, MoneyAssumption DEF MarkFailed, TypeOK
  <2>3. TypeOK'
    BY <1>8, <2>1, <2>2, IdleType, TimeAssumption
       DEF MarkFailed, TypeOK, Statuses, NonTerminal, NoDay
  <2>4. BusyHasJob'
    BY <1>8 DEF MarkFailed, TypeOK, BusyHasJob, Memory, Idle
  <2>5. QED
    BY <2>3, <2>4
<1>9. ASSUME PhantomSweep PROVE TypeInv'
  <2> DEFINE lapsed == {e \in Escalations : LeaseOver(e)}
             owed(b) == Estimate * Cardinality({e \in lapsed : stamp[e] = b})
  <2>1. ASSUME NEW b \in Days PROVE Release(reserved, b, owed(b))[b] \in Nat
    <3>1. IsFiniteSet({e \in lapsed : stamp[e] = b})
      BY EscalationsAssumption, FS_Subset
    <3>2. Cardinality({e \in lapsed : stamp[e] = b}) \in Nat
      BY <3>1, FS_CardinalityType
    <3>3. owed(b) \in Nat
      BY <3>2, MoneyAssumption
    <3>4. Release(reserved, b, owed(b)) \in [Days -> Nat]
      BY <3>3, ReleaseType DEF TypeOK
    <3>5. QED
      BY <3>4
  <2>2. reserved' = [b \in Days |-> Release(reserved, b, owed(b))[b]]
    BY <1>9 DEF PhantomSweep
  <2>3. reserved' \in [Days -> Nat]
    BY <2>1, <2>2
  <2>4. TypeOK'
    BY <1>9, <2>3 DEF PhantomSweep, TypeOK, Statuses, NonTerminal, NoDay
  <2>5. BusyHasJob'
    BY <1>9 DEF PhantomSweep, BusyHasJob
  <2>6. QED
    BY <2>4, <2>5
<1>10. ASSUME Tick PROVE TypeInv'
  <2>1. leaseLeft' \in [Escalations -> Int] /\ retryLeft' \in [Escalations -> Int]
    BY <1>10 DEF Tick, TypeOK, Higher, Expired
  <2>2. \A d \in Dispatchers :
          /\ loop'[d] \in Memory
          /\ loop'[d].phase = loop[d].phase
          /\ loop'[d].job = loop[d].job
    BY <1>10 DEF Tick, TypeOK, Memory
  <2>3. loop' \in [Dispatchers ->
                     Memory]
    BY <1>10, <2>2 DEF Tick
  <2>4. TypeOK'
    BY <1>10, <2>1, <2>3 DEF Tick, TypeOK
  <2>5. BusyHasJob'
    BY <2>2 DEF BusyHasJob
  <2>6. QED
    BY <2>4, <2>5
<1>11. ASSUME Midnight PROVE TypeInv'
  <2>1. today' \in Days
    BY <1>11, TimeAssumption DEF Midnight, TypeOK, Days
  <2>2. TypeOK'
    BY <1>11, <2>1 DEF Midnight, TypeOK
  <2>3. BusyHasJob'
    BY <1>11 DEF Midnight, BusyHasJob
  <2>4. QED
    BY <2>2, <2>3
<1>12. ASSUME NEW c \in Caps, Arm(c) PROVE TypeInv'
  BY <1>12 DEF Arm, TypeOK, BusyHasJob, Memory
<1>13. ASSUME LoseArm PROVE TypeInv'
  BY <1>13 DEF LoseArm, TypeOK, BusyHasJob, Memory
<1>14. ASSUME UNCHANGED vars PROVE TypeInv'
  BY <1>14 DEF vars, TypeOK, BusyHasJob, Memory
<1>15. QED
  BY <1>1, <1>2, <1>3, <1>4, <1>5, <1>6, <1>7, <1>8, <1>9, <1>10, <1>11, <1>12,
     <1>13, <1>14
     DEF Next, DispatcherStep, Fence, LoseLease, Crash

\* Every reachable state has the declared types, whatever the constants.
THEOREM TypeCorrect == Spec => []TypeOK
<1>1. TypeInv => TypeOK
  BY DEF TypeInv
<1>2. QED
  BY <1>1, TypeInit, TypeStep, PTL DEF Spec

(***************************************************************************)
(* The spend ledger.  LedgerMatchesStamps is inductive together with the   *)
(* fact that exactly the claimed rows carry a stamp: without it the claim  *)
(* of a failed row could overwrite a stamp that nobody backs out.          *)
(***************************************************************************)
\* A stamp is carried by the claimed rows and by no other.
StampsTrackClaims ==
    \A e \in Escalations : stamp[e] # NoDay <=> status[e] = "claimed"

LedgerInv == TypeInv /\ StampsTrackClaims /\ LedgerMatchesStamps

\* How moving one stamp changes the number of rows booked on a day.
LEMMA BookedMove ==
    ASSUME NEW s \in [Escalations -> Days \cup {NoDay}], NEW e \in Escalations,
           NEW x \in Days \cup {NoDay}, NEW b \in Days
    PROVE  LET before == {f \in Escalations : s[f] = b}
               after == {f \in Escalations : [s EXCEPT ![e] = x][f] = b}
           IN  /\ Cardinality(before) \in Nat
               /\ s[e] = b /\ x # b =>
                    /\ Cardinality(before) >= 1
                    /\ Cardinality(after) = Cardinality(before) - 1
               /\ s[e] # b /\ x = b => Cardinality(after) = Cardinality(before) + 1
               /\ (s[e] = b <=> x = b) => Cardinality(after) = Cardinality(before)
<1> DEFINE before == {f \in Escalations : s[f] = b}
           after == {f \in Escalations : [s EXCEPT ![e] = x][f] = b}
<1>1. IsFiniteSet(before)
  BY EscalationsAssumption, FS_Subset
<1>2. Cardinality(before) \in Nat
  BY <1>1, FS_CardinalityType
<1>3. ASSUME s[e] = b, x # b
      PROVE  /\ Cardinality(before) >= 1
             /\ Cardinality(after) = Cardinality(before) - 1
  <2>1. e \in before /\ after = before \ {e}
    BY <1>3
  <2>2. Cardinality(before \ {e}) = Cardinality(before) - 1
    BY <1>1, <2>1, FS_RemoveElement
  <2>3. Cardinality(before) # 0
    BY <1>1, <2>1, FS_EmptySet
  <2>4. QED
    BY <1>2, <2>1, <2>2, <2>3
<1>4. ASSUME s[e] # b, x = b PROVE Cardinality(after) = Cardinality(before) + 1
  <2>1. e \notin before /\ after = before \cup {e}
    BY <1>4
  <2>2. QED
    BY <1>1, <2>1, FS_AddElement
<1>5. ASSUME s[e] = b <=> x = b PROVE Cardinality(after) = Cardinality(before)
  <2>1. after = before
    BY <1>5
  <2>2. QED
    BY <2>1
<1>6. QED
  BY <1>2, <1>3, <1>4, <1>5

\* One more or one fewer reservation.
LEMMA TimesEstimate ==
    ASSUME NEW n \in Nat
    PROVE  /\ Estimate * n \in Nat
           /\ Estimate * (n + 1) = Estimate * n + Estimate
           /\ n >= 1 => /\ Estimate * n >= Estimate
                        /\ Estimate * (n - 1) = Estimate * n - Estimate
<1>1. Estimate \in Nat
  BY MoneyAssumption
<1>2. Estimate * n \in Nat /\ Estimate * (n + 1) = Estimate * n + Estimate
  BY <1>1
<1>3. ASSUME n >= 1
      PROVE  /\ Estimate * n >= Estimate
             /\ Estimate * (n - 1) = Estimate * n - Estimate
  <2>1. Estimate * (n - 1) = Estimate * n - Estimate
    BY <1>1
  <2>2. n - 1 \in Nat
    BY <1>3
  <2>3. Estimate * (n - 1) \in Nat
    BY <1>1, <2>2
  <2>4. QED
    BY <1>1, <1>2, <2>1, <2>3
<1>4. QED
  BY <1>2, <1>3

\* Backing one stamp out leaves a ledger that matches the remaining stamps,
\* and never reaches the MAX(0, ...) floor.
LEMMA BackOut ==
    ASSUME LedgerInv, NEW e \in Escalations, stamp[e] # NoDay, NEW b \in Days
    PROVE  /\ Release(reserved, stamp[e], Estimate)[b] =
                Estimate * Cardinality({f \in Escalations :
                                          [stamp EXCEPT ![e] = NoDay][f] = b})
           /\ Release(reserved, stamp[e], Estimate)[b] <= reserved[b]
           /\ stamp[e] = b =>
                Release(reserved, stamp[e], Estimate)[b] = reserved[b] - Estimate
<1> DEFINE n == Cardinality(Booked(b))
           after == Cardinality({f \in Escalations : [stamp EXCEPT ![e] = NoDay][f] = b})
<1>1. /\ reserved[b] = Estimate * n
      /\ reserved \in [Days -> Nat]
      /\ stamp \in [Escalations -> Days \cup {NoDay}]
      /\ stamp[e] \in Days
      /\ Estimate \in Nat
  BY MoneyAssumption DEF LedgerInv, LedgerMatchesStamps, TypeInv, TypeOK
<1>2. b # NoDay
  BY DEF Days, NoDay
<1>3. /\ n \in Nat
      /\ stamp[e] = b => n >= 1 /\ after = n - 1
      /\ stamp[e] # b => after = n
  BY <1>1, <1>2, BookedMove DEF Booked
<1>4. CASE stamp[e] = b
  BY <1>1, <1>3, <1>4, TimesEstimate DEF Release
<1>5. CASE stamp[e] # b
  BY <1>1, <1>3, <1>5 DEF Release
<1>6. QED
  BY <1>4, <1>5

LEMMA LedgerInit == Init => LedgerInv
<1> SUFFICES ASSUME Init PROVE LedgerInv
  OBVIOUS
<1>1. StampsTrackClaims
  BY DEF Init, StampsTrackClaims
<1>2. ASSUME NEW b \in Days PROVE reserved[b] = Estimate * Cardinality(Booked(b))
  <2>1. Booked(b) = {}
    BY DEF Init, Booked, Days, NoDay
  <2>2. Cardinality(Booked(b)) = 0
    BY <2>1, FS_EmptySet
  <2>3. QED
    BY <2>2, MoneyAssumption DEF Init
<1>3. QED
  BY <1>1, <1>2, TypeInit DEF LedgerInv, LedgerMatchesStamps

\* The ledger a claim reserves in matches the stamps without the claimed row's.
LEMMA AfterReclaimMatches ==
    ASSUME LedgerInv, NEW e \in Escalations, NEW b \in Days
    PROVE  /\ AfterReclaim(e)[b] =
                Estimate * Cardinality({f \in Escalations :
                                          [stamp EXCEPT ![e] = NoDay][f] = b})
           /\ AfterReclaim(e)[b] <= reserved[b]
<1>1. CASE stamp[e] # NoDay
  <2>1. AfterReclaim(e) = Release(reserved, stamp[e], Estimate)
    BY <1>1 DEF AfterReclaim, LedgerInv, StampsTrackClaims
  <2>2. QED
    BY <1>1, <2>1, BackOut
<1>2. CASE stamp[e] = NoDay
  <2>1. AfterReclaim(e) = reserved
    BY <1>2 DEF AfterReclaim
  <2>2. [stamp EXCEPT ![e] = NoDay] = stamp
    BY <1>2 DEF LedgerInv, TypeInv, TypeOK
  <2>3. Booked(b) = {f \in Escalations : [stamp EXCEPT ![e] = NoDay][f] = b}
    BY <2>2 DEF Booked
  <2>4. reserved[b] = Estimate * Cardinality(Booked(b)) /\ reserved[b] \in Nat
    BY DEF LedgerInv, LedgerMatchesStamps, TypeInv, TypeOK
  <2>5. QED
    BY <2>1, <2>3, <2>4
<1>3. QED
  BY <1>1, <1>2

\* A claim books exactly one more reservation, on today.
LEMMA LedgerClaim ==
    ASSUME LedgerInv, NEW d \in Dispatchers, Claim(d)
    PROVE  StampsTrackClaims' /\ LedgerMatchesStamps'
<1>1. PICK e \in Escalations :
        /\ reserved' = [AfterReclaim(e) EXCEPT ![today] = @ + Estimate]
        /\ status' = [status EXCEPT ![e] = "claimed"]
        /\ stamp' = [stamp EXCEPT ![e] = today]
  BY DEF Claim, Selectable
<1>2. /\ stamp \in [Escalations -> Days \cup {NoDay}]
      /\ status \in [Escalations -> Statuses]
      /\ today \in Days
      /\ AfterReclaim(e) \in [Days -> Nat]
      /\ Estimate \in Nat
  BY AfterReclaimType, MoneyAssumption DEF LedgerInv, TypeInv, TypeOK
<1>3. StampsTrackClaims'
  BY <1>1, <1>2 DEF LedgerInv, StampsTrackClaims, Days, NoDay
<1>4. ASSUME NEW b \in Days PROVE reserved'[b] = Estimate * Cardinality(Booked(b)')
  <2> DEFINE bare == [stamp EXCEPT ![e] = NoDay]
             n == Cardinality({f \in Escalations : bare[f] = b})
             after == Cardinality({f \in Escalations : [bare EXCEPT ![e] = today][f] = b})
  <2>1. /\ bare \in [Escalations -> Days \cup {NoDay}]
        /\ bare[e] # b
        /\ [bare EXCEPT ![e] = today] = stamp'
    BY <1>1, <1>2 DEF Days, NoDay
  <2>2. /\ n \in Nat
        /\ today = b => after = n + 1
        /\ today # b => after = n
    BY <1>2, <2>1, BookedMove
  <2>3. AfterReclaim(e)[b] = Estimate * n
    BY AfterReclaimMatches
  <2>4. Cardinality(Booked(b)') = after
    BY <2>1 DEF Booked
  <2>5. CASE today = b
    BY <1>1, <1>2, <2>2, <2>3, <2>4, <2>5, TimesEstimate
  <2>6. CASE today # b
    BY <1>1, <1>2, <2>2, <2>3, <2>4, <2>6
  <2>7. QED
    BY <2>5, <2>6
<1>5. QED
  BY <1>3, <1>4 DEF LedgerMatchesStamps

\* A holder that stages its answer or fails backs out its own stamp, once.
LEMMA LedgerHolderEnds ==
    ASSUME LedgerInv, NEW d \in Dispatchers, StoreAndStage(d) \/ MarkFailed(d)
    PROVE  StampsTrackClaims' /\ LedgerMatchesStamps'
<1> DEFINE e == loop[d].job
<1>1. e \in Escalations /\ status[e] = "claimed" /\ stamp[e] # NoDay
  BY DEF StoreAndStage, MarkFailed, Holds, LedgerInv, TypeInv, BusyHasJob,
         StampsTrackClaims
<1>2. /\ stamp' = [stamp EXCEPT ![e] = NoDay]
      /\ reserved' = Release(reserved, stamp[e], Estimate)
  BY <1>1 DEF StoreAndStage, MarkFailed
<1>3. status' \in {[status EXCEPT ![e] = "council_response_staged"],
                   [status EXCEPT ![e] = "failed"]}
  BY DEF StoreAndStage, MarkFailed
<1>4. StampsTrackClaims'
  BY <1>1, <1>2, <1>3 DEF LedgerInv, StampsTrackClaims, TypeInv, TypeOK
<1>5. ASSUME NEW b \in Days PROVE reserved'[b] = Estimate * Cardinality(Booked(b)')
  BY <1>1, <1>2, BackOut DEF Booked
<1>6. QED
  BY <1>4, <1>5 DEF LedgerMatchesStamps

\* A sweep backs out the stamps of the lapsed claims together, and no other.
LEMMA LedgerSweep ==
    ASSUME LedgerInv, PhantomSweep
    PROVE  StampsTrackClaims' /\ LedgerMatchesStamps'
<1> DEFINE lapsed == {e \in Escalations : LeaseOver(e)}
           gone(b) == {e \in lapsed : stamp[e] = b}
           owed(b) == Estimate * Cardinality(gone(b))
<1>1. /\ reserved' = [b \in Days |-> Release(reserved, b, owed(b))[b]]
      /\ status' = [e \in Escalations |-> IF e \in lapsed THEN "failed" ELSE status[e]]
      /\ stamp' = [e \in Escalations |-> IF e \in lapsed THEN NoDay ELSE stamp[e]]
  BY DEF PhantomSweep
<1>2. StampsTrackClaims'
  BY <1>1 DEF LedgerInv, StampsTrackClaims
<1>3. ASSUME NEW b \in Days PROVE reserved'[b] = Estimate * Cardinality(Booked(b)')
  <2> DEFINE n == Cardinality(Booked(b))
             m == Cardinality(gone(b))
  <2>1. IsFiniteSet(Booked(b)) /\ IsFiniteSet(gone(b))
    BY EscalationsAssumption, FS_Subset DEF Booked
  <2>2. Booked(b)' = Booked(b) \ gone(b) /\ gone(b) \subseteq Booked(b)
    BY <1>1 DEF Booked, Days, NoDay
  <2>3. Booked(b) \cap gone(b) = gone(b)
    BY <2>2
  <2>4. Cardinality(Booked(b)') = n - m
    BY <2>1, <2>2, <2>3, FS_Difference
  <2>5. m \in Nat /\ n \in Nat /\ m <= n
    BY <2>1, <2>2, FS_CardinalityType, FS_Subset
  <2>6. Estimate \in Nat /\ reserved \in [Days -> Nat] /\ reserved[b] = Estimate * n
    BY MoneyAssumption DEF LedgerInv, TypeInv, TypeOK, LedgerMatchesStamps
  <2>7. reserved'[b] = IF Estimate * n >= Estimate * m
                       THEN Estimate * n - Estimate * m ELSE 0
    BY <1>1, <2>6 DEF Release
  <2>8. Estimate * n >= Estimate * m
    BY <2>5, <2>6
  <2>9. Estimate * n - Estimate * m = Estimate * (n - m)
    BY <2>5, <2>6
  <2>10. QED
    BY <2>4, <2>7, <2>8, <2>9
<1>4. QED
  BY <1>2, <1>3 DEF LedgerMatchesStamps

LEMMA LedgerStep == LedgerInv /\ [Next]_vars => LedgerInv'
<1> SUFFICES ASSUME LedgerInv, [Next]_vars PROVE StampsTrackClaims' /\ LedgerMatchesStamps'
  BY TypeStep DEF LedgerInv
<1>1. ASSUME NEW e \in Escalations, Enqueue(e)
      PROVE  StampsTrackClaims' /\ LedgerMatchesStamps'
  BY <1>1 DEF Enqueue, ledgerVars, LedgerInv, TypeInv, TypeOK, StampsTrackClaims,
              LedgerMatchesStamps, Booked
<1>2. ASSUME NEW d \in Dispatchers, Claim(d)
      PROVE  StampsTrackClaims' /\ LedgerMatchesStamps'
  BY <1>2, LedgerClaim
<1>3. ASSUME NEW d \in Dispatchers, StoreAndStage(d) \/ MarkFailed(d)
      PROVE  StampsTrackClaims' /\ LedgerMatchesStamps'
  BY <1>3, LedgerHolderEnds
<1>4. CASE PhantomSweep
  BY <1>4, LedgerSweep
<1>5. ASSUME UNCHANGED <<status, stamp, reserved>>
      PROVE  StampsTrackClaims' /\ LedgerMatchesStamps'
  BY <1>5 DEF LedgerInv, StampsTrackClaims, LedgerMatchesStamps, Booked
<1>6. QED
  BY <1>1, <1>2, <1>3, <1>4, <1>5
     DEF Next, DispatcherStep, Renew, Fence, LoseLease, CouncilAnswers, CouncilFails,
         Crash, Tick, Midnight, Arm, LoseArm, vars, rowVars, ledgerVars

\* On every day reserved_usd equals the reservations stamped on live claims:
\* no reservation leaks and none is released twice.
THEOREM LedgerExact == Spec => []LedgerMatchesStamps
<1>1. LedgerInv => LedgerMatchesStamps
  BY DEF LedgerInv
<1>2. QED
  BY <1>1, LedgerInit, LedgerStep, PTL DEF Spec

(***************************************************************************)
(* Exposure.  It rests on the ledger invariant: only because no release    *)
(* reaches the MAX(0, ...) floor does a settle give back a whole           *)
(* reservation before it charges the realised cost.                        *)
(***************************************************************************)
ExposureInv == LedgerInv /\ ExposureWithinCap

LEMMA ExposureInit == Init => ExposureInv
BY LedgerInit DEF ExposureInv, ExposureWithinCap, Init

LEMMA ExposureClaim ==
    ASSUME ExposureInv, NEW d \in Dispatchers, Claim(d)
    PROVE  ExposureWithinCap'
<1>1. PICK e \in Escalations :
        /\ FitsCap(e)
        /\ reserved' = [AfterReclaim(e) EXCEPT ![today] = @ + Estimate]
  BY DEF Claim, Selectable
<1>2. /\ peakCap' = [peakCap EXCEPT ![today] = Higher(@, SpendCap)]
      /\ settled' = settled
      /\ overshoot' = overshoot
  BY DEF Claim
<1>3. /\ today \in Days
      /\ settled \in [Days -> Nat] /\ reserved \in [Days -> Nat]
      /\ peakCap \in [Days -> Nat] /\ overshoot \in [Days -> Nat]
      /\ AfterReclaim(e) \in [Days -> Nat]
      /\ Estimate \in Nat /\ SpendCap \in Nat
  BY AfterReclaimType, MoneyAssumption
     DEF ExposureInv, LedgerInv, TypeInv, TypeOK, SpendCap, Lower
<1>4. ASSUME NEW b \in Days
      PROVE  reserved'[b] + settled'[b] <= peakCap'[b] + overshoot'[b]
  <2>1. CASE b = today
    <3>1. reserved'[b] = AfterReclaim(e)[today] + Estimate
      BY <1>1, <1>3, <2>1
    <3>2. reserved'[b] + settled[b] <= SpendCap
      BY <1>1, <1>3, <2>1, <3>1 DEF FitsCap
    <3>3. peakCap'[b] >= SpendCap /\ peakCap'[b] \in Nat
      BY <1>2, <1>3, <2>1 DEF Higher
    <3>4. QED
      BY <1>2, <1>3, <3>1, <3>2, <3>3
  <2>2. CASE b # today
    <3>1. reserved'[b] = AfterReclaim(e)[b] /\ peakCap'[b] = peakCap[b]
      BY <1>1, <1>2, <1>3, <2>2
    <3>2. AfterReclaim(e)[b] <= reserved[b]
      BY AfterReclaimMatches DEF ExposureInv
    <3>3. reserved[b] + settled[b] <= peakCap[b] + overshoot[b]
      BY DEF ExposureInv, ExposureWithinCap
    <3>4. QED
      BY <1>2, <1>3, <3>1, <3>2, <3>3
  <2>3. QED
    BY <2>1, <2>2
<1>5. QED
  BY <1>4 DEF ExposureWithinCap

LEMMA ExposureStore ==
    ASSUME ExposureInv, NEW d \in Dispatchers, StoreAndStage(d)
    PROVE  ExposureWithinCap'
<1> DEFINE e == loop[d].job
           cost == Charge(loop[d].answer)
<1>1. e \in Escalations /\ stamp[e] # NoDay /\ stamp[e] \in Days
  BY DEF StoreAndStage, Holds, ExposureInv, LedgerInv, TypeInv, TypeOK, BusyHasJob,
         StampsTrackClaims
<1>2. /\ reserved' = Release(reserved, stamp[e], Estimate)
      /\ settled' = [settled EXCEPT ![stamp[e]] = @ + cost]
      /\ overshoot' = [overshoot EXCEPT ![stamp[e]] = @ + Higher(cost - Estimate, 0)]
      /\ peakCap' = peakCap
  BY <1>1 DEF StoreAndStage
<1>3. /\ settled \in [Days -> Nat] /\ reserved \in [Days -> Nat]
      /\ peakCap \in [Days -> Nat] /\ overshoot \in [Days -> Nat]
      /\ Estimate \in Nat
  BY MoneyAssumption DEF ExposureInv, LedgerInv, TypeInv, TypeOK
<1>4. cost \in Nat
  BY ChargeType DEF ExposureInv, LedgerInv, TypeInv, TypeOK, Memory
<1>5. ASSUME NEW b \in Days
      PROVE  reserved'[b] + settled'[b] <= peakCap'[b] + overshoot'[b]
  <2>1. reserved[b] + settled[b] <= peakCap[b] + overshoot[b]
    BY DEF ExposureInv, ExposureWithinCap
  <2>2. CASE b = stamp[e]
    <3>1. reserved'[b] = reserved[b] - Estimate
      BY <1>1, <1>2, <2>2, BackOut DEF ExposureInv
    <3>2. settled'[b] = settled[b] + cost
      BY <1>2, <1>3, <2>2
    <3>3. overshoot'[b] = overshoot[b] + Higher(cost - Estimate, 0)
      BY <1>2, <1>3, <2>2
    <3>4. Higher(cost - Estimate, 0) >= cost - Estimate
          /\ Higher(cost - Estimate, 0) \in Nat
      BY <1>3, <1>4 DEF Higher
    <3>5. QED
      BY <1>2, <1>3, <1>4, <2>1, <3>1, <3>2, <3>3, <3>4
  <2>3. CASE b # stamp[e]
    BY <1>2, <1>3, <2>1, <2>3 DEF Release
  <2>4. QED
    BY <2>2, <2>3
<1>6. QED
  BY <1>5 DEF ExposureWithinCap

\* A step that only gives reservations back keeps the exposure below the cap.
LEMMA ExposureGivesBack ==
    ASSUME ExposureInv, TypeOK', \A b \in Days : reserved'[b] <= reserved[b],
           UNCHANGED <<settled, historyVars>>
    PROVE  ExposureWithinCap'
BY DEF ExposureInv, ExposureWithinCap, LedgerInv, TypeInv, TypeOK, historyVars

LEMMA ExposureStep == ExposureInv /\ [Next]_vars => ExposureInv'
<1> SUFFICES ASSUME ExposureInv, [Next]_vars PROVE ExposureWithinCap'
  BY LedgerStep DEF ExposureInv
<1>0. TypeOK' /\ TypeOK
  BY TypeStep DEF ExposureInv, LedgerInv, TypeInv
<1>1. ASSUME NEW d \in Dispatchers, Claim(d) PROVE ExposureWithinCap'
  BY <1>1, ExposureClaim
<1>2. ASSUME NEW d \in Dispatchers, StoreAndStage(d) PROVE ExposureWithinCap'
  BY <1>2, ExposureStore
<1>3. ASSUME NEW d \in Dispatchers, MarkFailed(d) PROVE ExposureWithinCap'
  <2> DEFINE e == loop[d].job
  <2>1. e \in Escalations /\ stamp[e] # NoDay
    BY <1>3 DEF MarkFailed, Holds, ExposureInv, LedgerInv, TypeInv, BusyHasJob,
                StampsTrackClaims
  <2>2. reserved' = Release(reserved, stamp[e], Estimate)
    BY <1>3, <2>1 DEF MarkFailed
  <2>3. \A b \in Days : reserved'[b] <= reserved[b]
    BY <2>1, <2>2, BackOut DEF ExposureInv
  <2>4. QED
    BY <1>0, <1>3, <2>3, ExposureGivesBack DEF MarkFailed
<1>4. ASSUME PhantomSweep PROVE ExposureWithinCap'
  <2> DEFINE owed(b) == Estimate * Cardinality({e \in {f \in Escalations : LeaseOver(f)} :
                                                  stamp[e] = b})
  <2>1. ASSUME NEW b \in Days PROVE reserved'[b] <= reserved[b]
    <3>1. reserved'[b] = Release(reserved, b, owed(b))[b]
      BY <1>4 DEF PhantomSweep
    <3>2. IsFiniteSet({e \in {f \in Escalations : LeaseOver(f)} : stamp[e] = b})
      BY EscalationsAssumption, FS_Subset
    <3>3. Cardinality({e \in {f \in Escalations : LeaseOver(f)} : stamp[e] = b}) \in Nat
      BY <3>2, FS_CardinalityType
    <3>4. owed(b) \in Nat
      BY <3>3, MoneyAssumption
    <3>5. QED
      BY <1>0, <3>1, <3>4 DEF Release, TypeOK
  <2>2. QED
    BY <1>0, <1>4, <2>1, ExposureGivesBack DEF PhantomSweep
<1>5. ASSUME UNCHANGED <<reserved, settled, historyVars>> PROVE ExposureWithinCap'
  BY <1>0, <1>5, ExposureGivesBack DEF TypeOK
<1>6. QED
  BY <1>1, <1>2, <1>3, <1>4, <1>5
     DEF Next, DispatcherStep, Enqueue, Renew, Fence, LoseLease, CouncilAnswers,
         CouncilFails, Crash, Tick, Midnight, Arm, LoseArm, vars, rowVars, ledgerVars

\* A day's reserved and settled money stays within the widest ceiling it was
\* reserved under, but for realised costs above their reservation.
THEOREM ExposureBounded == Spec => []ExposureWithinCap
<1>1. ExposureInv => ExposureWithinCap
  BY DEF ExposureInv
<1>2. QED
  BY <1>1, ExposureInit, ExposureStep, PTL DEF Spec

(***************************************************************************)
(* The accounts.  Since no release meets the zero of its MAX, each step of *)
(* the rows is a step of the account of every day it books on.             *)
(***************************************************************************)
HeldOn(b) == [e \in Escalations |-> IF stamp[e] = b THEN Estimate ELSE NoCost]
BalanceOf(b) == reserved[b] + settled[b]

AccountSteps(b) ==
    \/ UNCHANGED <<HeldOn(b), BalanceOf(b)>>
    \/ \E e \in Escalations, a \in {0, Estimate} \cup Costs :
          \/ /\ HeldOn(b)[e] = NoCost
             /\ BalanceOf(b) + a <= AmbientCap
             /\ HeldOn(b)' = [HeldOn(b) EXCEPT ![e] = a]
             /\ BalanceOf(b)' = BalanceOf(b) + a
          \/ /\ HeldOn(b)[e] # NoCost
             /\ HeldOn(b)' = [HeldOn(b) EXCEPT ![e] = NoCost]
             /\ BalanceOf(b)' = BalanceOf(b) - HeldOn(b)[e] + a
    \/ \E S \in SUBSET Escalations, a \in {0, Estimate} \cup Costs :
          /\ \A e \in S : HeldOn(b)[e] = a
          /\ HeldOn(b)' = [e \in Escalations |-> IF e \in S THEN NoCost ELSE HeldOn(b)[e]]
          /\ BalanceOf(b)' = BalanceOf(b) - a * Cardinality(S)

LEMMA AccountStepsMap ==
    ASSUME NEW b \in Days, AccountSteps(b)
    PROVE  [Account(b)!Next]_(Account(b)!vars)
<1>1. ASSUME UNCHANGED <<HeldOn(b), BalanceOf(b)>> PROVE UNCHANGED Account(b)!vars
  BY <1>1 DEF HeldOn, BalanceOf, Account!vars
<1>2. ASSUME NEW e \in Escalations, NEW a \in {0, Estimate} \cup Costs,
             HeldOn(b)[e] = NoCost,
             BalanceOf(b) + a <= AmbientCap,
             HeldOn(b)' = [HeldOn(b) EXCEPT ![e] = a],
             BalanceOf(b)' = BalanceOf(b) + a
      PROVE  Account(b)!Reserve(e, a)
  BY <1>2 DEF HeldOn, BalanceOf, Account!Reserve
<1>3. ASSUME NEW e \in Escalations, NEW a \in {0, Estimate} \cup Costs,
             HeldOn(b)[e] # NoCost,
             HeldOn(b)' = [HeldOn(b) EXCEPT ![e] = NoCost],
             BalanceOf(b)' = BalanceOf(b) - HeldOn(b)[e] + a
      PROVE  Account(b)!Settle(e, a)
  BY <1>3 DEF HeldOn, BalanceOf, Account!Settle
<1>4. ASSUME NEW S \in SUBSET Escalations, NEW a \in {0, Estimate} \cup Costs,
             \A e \in S : HeldOn(b)[e] = a,
             HeldOn(b)' = [e \in Escalations |-> IF e \in S THEN NoCost ELSE HeldOn(b)[e]],
             BalanceOf(b)' = BalanceOf(b) - a * Cardinality(S)
      PROVE  Account(b)!Release(S, a)
  <2>1. Account(b)!Cardinality(S) = Cardinality(S)
    BY DEF Account!Cardinality, Cardinality
  <2>2. QED
    BY <1>4, <2>1 DEF HeldOn, BalanceOf, Account!Release
<1>5. QED
  BY <1>1, <1>2, <1>3, <1>4 DEF AccountSteps, Account!Next

\* A reclaim takes one estimate back from the day of the lapsed claim.
LEMMA AfterReclaimOf ==
    ASSUME LedgerInv, NEW e \in Escalations, NEW b \in Days
    PROVE  AfterReclaim(e)[b] = IF stamp[e] = b THEN reserved[b] - Estimate ELSE reserved[b]
<1>1. b # NoDay /\ reserved \in [Days -> Nat] /\ stamp[e] \in Days \cup {NoDay}
  BY DEF Days, NoDay, LedgerInv, TypeInv, TypeOK
<1>2. CASE stamp[e] # NoDay
  <2>1. AfterReclaim(e) = Release(reserved, stamp[e], Estimate)
    BY <1>2 DEF AfterReclaim, LedgerInv, StampsTrackClaims
  <2>2. stamp[e] # b => Release(reserved, stamp[e], Estimate)[b] = reserved[b]
    BY <1>1, <1>2 DEF Release
  <2>3. QED
    BY <1>2, <2>1, <2>2, BackOut
<1>3. CASE stamp[e] = NoDay
  BY <1>1, <1>3 DEF AfterReclaim
<1>4. QED
  BY <1>2, <1>3

LEMMA MoneyTyped ==
    ASSUME LedgerInv, NEW b \in Days
    PROVE  /\ reserved[b] \in Nat /\ settled[b] \in Nat /\ BalanceOf(b) \in Nat
           /\ Estimate \in Nat /\ Estimate # NoCost /\ NoDay # b
           /\ stamp \in [Escalations -> Days \cup {NoDay}]
<1>1. Estimate \in Nat /\ Estimate # NoCost /\ NoDay # b
  BY MoneyAssumption DEF Days, NoDay, NoCost
<1>2. /\ reserved[b] \in Nat /\ settled[b] \in Nat
      /\ stamp \in [Escalations -> Days \cup {NoDay}]
  BY DEF LedgerInv, TypeInv, TypeOK
<1>3. QED
  BY <1>1, <1>2 DEF BalanceOf

LEMMA ClaimAccount ==
    ASSUME LedgerInv, NEW d \in Dispatchers, Claim(d), NEW b \in Days
    PROVE  AccountSteps(b)
<1>1. PICK e \in Escalations :
        /\ FitsCap(e)
        /\ reserved' = [AfterReclaim(e) EXCEPT ![today] = @ + Estimate]
        /\ stamp' = [stamp EXCEPT ![e] = today]
  BY DEF Claim, Selectable
<1>2. settled' = settled /\ today \in Days /\ AfterReclaim(e) \in [Days -> Nat]
  BY AfterReclaimType DEF Claim, LedgerInv, TypeInv, TypeOK
<1>3. reserved'[b] = AfterReclaim(e)[b] + (IF today = b THEN Estimate ELSE 0)
  BY <1>1, <1>2, MoneyTyped
<1>4. AfterReclaim(e)[b] = IF stamp[e] = b THEN reserved[b] - Estimate ELSE reserved[b]
  BY AfterReclaimOf
<1>5. HeldOn(b)' = [HeldOn(b) EXCEPT ![e] = IF today = b THEN Estimate ELSE NoCost]
  BY <1>1, MoneyTyped DEF HeldOn
<1>6. HeldOn(b)[e] = IF stamp[e] = b THEN Estimate ELSE NoCost
  BY DEF HeldOn
<1>7. BalanceOf(b)' = reserved'[b] + settled[b]
  BY <1>2 DEF BalanceOf
<1>8. HeldOn(b) = [HeldOn(b) EXCEPT ![e] = HeldOn(b)[e]]
  BY DEF HeldOn
<1>9. CASE (today = b) <=> (stamp[e] = b)
  <2>1. BalanceOf(b)' = BalanceOf(b)
    BY <1>3, <1>4, <1>7, <1>9, MoneyTyped DEF BalanceOf
  <2>2. HeldOn(b)' = HeldOn(b)
    BY <1>5, <1>6, <1>8, <1>9
  <2>3. QED
    BY <2>1, <2>2 DEF AccountSteps
<1>10. CASE today = b /\ stamp[e] # b
  <2>1. BalanceOf(b)' = BalanceOf(b) + Estimate /\ BalanceOf(b) + Estimate <= AmbientCap
    <3>1. BalanceOf(b) + Estimate <= SpendCap
      BY <1>1, <1>4, <1>10, MoneyTyped DEF FitsCap, BalanceOf
    <3>2. armCap \in Int /\ AmbientCap \in Int
      BY MoneyAssumption DEF LedgerInv, TypeInv, TypeOK
    <3>3. QED
      BY <1>3, <1>4, <1>7, <1>10, <3>1, <3>2, MoneyTyped DEF SpendCap, Lower, BalanceOf
  <2>2. HeldOn(b)[e] = NoCost /\ HeldOn(b)' = [HeldOn(b) EXCEPT ![e] = Estimate]
    BY <1>5, <1>6, <1>10
  <2>3. QED
    BY <2>1, <2>2 DEF AccountSteps
<1>11. CASE today # b /\ stamp[e] = b
  <2>1. HeldOn(b)[e] = Estimate /\ HeldOn(b)' = [HeldOn(b) EXCEPT ![e] = NoCost]
    BY <1>5, <1>6, <1>11
  <2>2. BalanceOf(b)' = BalanceOf(b) - HeldOn(b)[e] + 0
    BY <1>3, <1>4, <1>7, <1>11, <2>1, MoneyTyped DEF BalanceOf
  <2>3. QED
    BY <2>1, <2>2, MoneyTyped DEF AccountSteps
<1>12. QED
  BY <1>9, <1>10, <1>11

LEMMA HolderEndsAccount ==
    ASSUME LedgerInv, NEW d \in Dispatchers, StoreAndStage(d) \/ MarkFailed(d),
           NEW b \in Days
    PROVE  AccountSteps(b)
<1> DEFINE e == loop[d].job
<1>1. e \in Escalations /\ stamp[e] # NoDay /\ stamp[e] \in Days
  BY DEF StoreAndStage, MarkFailed, Holds, LedgerInv, TypeInv, TypeOK, BusyHasJob,
         StampsTrackClaims
<1>2. /\ stamp' = [stamp EXCEPT ![e] = NoDay]
      /\ reserved' = Release(reserved, stamp[e], Estimate)
  BY <1>1 DEF StoreAndStage, MarkFailed
<1>3. PICK c \in {0, Estimate} \cup Costs :
        settled'[b] = settled[b] + (IF stamp[e] = b THEN c ELSE 0)
  <2>1. CASE StoreAndStage(d)
    <3>1. loop[d].answer \in Costs \cup {NoCost}
      BY DEF LedgerInv, TypeInv, TypeOK, Memory
    <3>2. Charge(loop[d].answer) \in {0, Estimate} \cup Costs
      BY <3>1 DEF Charge
    <3>3. settled' = [settled EXCEPT ![stamp[e]] = @ + Charge(loop[d].answer)]
      BY <1>1, <2>1 DEF StoreAndStage
    <3>4. settled'[b] = settled[b] + (IF stamp[e] = b THEN Charge(loop[d].answer) ELSE 0)
      BY <1>1, <3>3, MoneyTyped DEF LedgerInv, TypeInv, TypeOK
    <3>5. QED
      BY <3>2, <3>4
  <2>2. CASE MarkFailed(d)
    BY <2>2, MoneyTyped DEF MarkFailed
  <2>3. QED
    BY <2>1, <2>2
<1>4. reserved'[b] = IF stamp[e] = b THEN reserved[b] - Estimate ELSE reserved[b]
  <2>1. stamp[e] # b => Release(reserved, stamp[e], Estimate)[b] = reserved[b]
    BY <1>1 DEF Release, LedgerInv, TypeInv, TypeOK
  <2>2. QED
    BY <1>1, <1>2, <2>1, BackOut
<1>5. BalanceOf(b)' = reserved'[b] + settled'[b]
  BY DEF BalanceOf
<1>6. HeldOn(b)' = [HeldOn(b) EXCEPT ![e] = NoCost]
  BY <1>2, MoneyTyped DEF HeldOn
<1>7. HeldOn(b)[e] = IF stamp[e] = b THEN Estimate ELSE NoCost
  BY <1>1 DEF HeldOn
<1>8. c \in Int
  BY MoneyAssumption
<1>9. CASE stamp[e] = b
  <2>1. BalanceOf(b)' = BalanceOf(b) - HeldOn(b)[e] + c
    BY <1>3, <1>4, <1>5, <1>7, <1>8, <1>9, MoneyTyped DEF BalanceOf
  <2>2. QED
    BY <1>1, <1>6, <1>7, <1>9, <2>1, MoneyTyped DEF AccountSteps
<1>10. CASE stamp[e] # b
  <2>1. BalanceOf(b)' = BalanceOf(b)
    BY <1>3, <1>4, <1>5, <1>10, MoneyTyped DEF BalanceOf
  <2>2. HeldOn(b)' = HeldOn(b)
    BY <1>1, <1>6, <1>7, <1>10 DEF HeldOn
  <2>3. QED
    BY <2>1, <2>2 DEF AccountSteps
<1>11. QED
  BY <1>9, <1>10

LEMMA SweepAccount ==
    ASSUME LedgerInv, PhantomSweep, NEW b \in Days
    PROVE  AccountSteps(b)
<1> DEFINE lapsed == {e \in Escalations : LeaseOver(e)}
           gone == {e \in lapsed : stamp[e] = b}
           n == Cardinality(Booked(b))
           m == Cardinality(gone)
<1>1. /\ reserved'[b] = Release(reserved, b, Estimate * m)[b]
      /\ stamp' = [e \in Escalations |-> IF e \in lapsed THEN NoDay ELSE stamp[e]]
      /\ settled' = settled
  BY DEF PhantomSweep
<1>2. IsFiniteSet(Booked(b)) /\ gone \in SUBSET Booked(b)
  BY EscalationsAssumption, FS_Subset DEF Booked
<1>3. m \in Nat /\ n \in Nat /\ m <= n
  BY <1>2, FS_CardinalityType, FS_Subset
<1>4. reserved[b] = Estimate * n /\ reserved \in [Days -> Nat] /\ Estimate \in Nat
  BY MoneyTyped DEF LedgerInv, LedgerMatchesStamps, TypeInv, TypeOK
<1> HIDE DEF n, m
<1>5. Estimate * m <= Estimate * n /\ Estimate * m \in Nat
  BY <1>3, <1>4
<1>6. reserved'[b] = reserved[b] - Estimate * m
  BY <1>1, <1>4, <1>5 DEF Release
<1>7. BalanceOf(b)' = BalanceOf(b) - Estimate * m
  BY <1>1, <1>5, <1>6, MoneyTyped DEF BalanceOf
<1>8. \A e \in gone : HeldOn(b)[e] = Estimate
  BY DEF HeldOn
<1>9. HeldOn(b)' = [e \in Escalations |-> IF e \in gone THEN NoCost ELSE HeldOn(b)[e]]
  BY <1>1, MoneyTyped DEF HeldOn
<1>10. gone \in SUBSET Escalations
  OBVIOUS
<1>11. QED
  BY <1>7, <1>8, <1>9, <1>10 DEF AccountSteps, m

LEMMA AccountStep ==
    ASSUME LedgerInv, [Next]_vars, NEW b \in Days
    PROVE  AccountSteps(b)
<1>1. ASSUME UNCHANGED <<stamp, reserved, settled>> PROVE AccountSteps(b)
  BY <1>1 DEF AccountSteps, HeldOn, BalanceOf
<1>2. QED
  BY <1>1, ClaimAccount, HolderEndsAccount, SweepAccount
     DEF Next, DispatcherStep, Enqueue, Renew, Fence, LoseLease, CouncilAnswers,
         CouncilFails, Crash, Tick, Midnight, Arm, LoseArm, vars, rowVars, ledgerVars

LEMMA AccountInit == ASSUME Init, NEW b \in Days PROVE Account(b)!Init
BY DEF Init, Account!Init, Days, NoDay

\* Every UTC day's line of spend_ledger is an account of its reservations: taken
\* within the cap, and given back once, on the day they were taken.
THEOREM AccountRefinement == Spec => DaysAreAccounts
<1>1. Init => \A b \in Days : Account(b)!Init
  BY AccountInit
<1>2. LedgerInv /\ [Next]_vars =>
          [\A b \in Days : [Account(b)!Next]_(Account(b)!vars)]_vars
  BY AccountStep, AccountStepsMap
<1>3. QED
  BY <1>1, <1>2, LedgerInit, LedgerStep, PTL DEF Spec, DaysAreAccounts

(***************************************************************************)
(* Fencing tokens.  OneHolder alone is not inductive: it says nothing of a *)
(* superseded loop, whose stale token could come round again.              *)
(***************************************************************************)
Busy(d) == loop[d].phase # "idle"

\* A token in a loop's memory was issued for its row, by a claim so far.
TokensIssued ==
    \A d \in Dispatchers :
        Busy(d) => loop[d].token >= 1 /\ loop[d].token <= claimToken[loop[d].job]

\* No claim is in the memory of two loops, superseded ones included.
OneClaimOneLoop ==
    \A d1, d2 \in Dispatchers :
        /\ Busy(d1) /\ Busy(d2)
        /\ loop[d1].job = loop[d2].job
        /\ loop[d1].token = loop[d2].token
        => d1 = d2

\* Only staged rows carry an answer.
AnswersAreStaged ==
    \A e \in Escalations : response[e] # 0 => status[e] = "council_response_staged"

TokenInv == TokensIssued /\ OneClaimOneLoop
AnswerInv == AnswersAreStaged /\ StagedFromLatestClaim
FenceInv == TypeInv /\ TokenInv /\ AnswerInv

LEMMA FenceInit == Init => FenceInv
<1> SUFFICES ASSUME Init PROVE FenceInv
  OBVIOUS
<1>1. TokenInv
  BY DEF Init, TokenInv, TokensIssued, OneClaimOneLoop, Busy, Idle
<1>2. AnswerInv
  BY DEF Init, AnswerInv, AnswersAreStaged, StagedFromLatestClaim
<1>3. QED
  BY <1>1, <1>2, TypeInit DEF FenceInv

\* A step in which every loop keeps its row and token keeps the tokens apart.
LEMMA TokensKept ==
    ASSUME TokenInv, claimToken' = claimToken,
           \A d \in Dispatchers : /\ Busy(d)' <=> Busy(d)
                                  /\ loop'[d].job = loop[d].job
                                  /\ loop'[d].token = loop[d].token
    PROVE  TokenInv'
BY DEF TokenInv, TokensIssued, OneClaimOneLoop

\* So does a step in which one loop forgets its claim.
LEMMA TokensDropped ==
    ASSUME TypeOK, TokenInv, claimToken' = claimToken,
           NEW d \in Dispatchers, loop' = [loop EXCEPT ![d] = Idle]
    PROVE  TokenInv'
<1>1. ASSUME NEW c \in Dispatchers, Busy(c)'
      PROVE  Busy(c) /\ loop'[c] = loop[c]
  BY <1>1 DEF Busy, Idle, TypeOK
<1>2. QED
  BY <1>1 DEF TokenInv, TokensIssued, OneClaimOneLoop

\* A claim issues a token that no loop has in memory.
LEMMA TokensClaim ==
    ASSUME FenceInv, NEW d \in Dispatchers, Claim(d)
    PROVE  TokenInv'
<1>1. PICK e \in Escalations :
        /\ claimToken' = [claimToken EXCEPT ![e] = FreshToken(e)]
        /\ loop' = [loop EXCEPT ![d] = [phase |-> "calling", job |-> e,
                                        token |-> FreshToken(e), fence |-> Deadline,
                                        answer |-> NoCost]]
  BY DEF Claim, Selectable
<1>2. /\ claimToken \in [Escalations -> Nat]
      /\ loop \in [Dispatchers -> Memory]
      /\ FreshToken(e) = claimToken[e] + 1
  BY DEF FenceInv, TypeInv, TypeOK, FreshToken
<1>3. /\ Busy(d)'
      /\ loop'[d].job = e
      /\ loop'[d].token = claimToken[e] + 1
      /\ claimToken'[e] = claimToken[e] + 1
  BY <1>1, <1>2 DEF Busy
<1>4. ASSUME NEW c \in Dispatchers, c # d, Busy(c)'
      PROVE  /\ Busy(c) /\ loop'[c] = loop[c]
             /\ loop[c].job \in Escalations /\ loop[c].token \in Nat
             /\ loop[c].token >= 1 /\ loop[c].token <= claimToken[loop[c].job]
  <2>1. loop'[c] = loop[c] /\ Busy(c)
    BY <1>1, <1>2, <1>4 DEF Busy
  <2>2. loop[c].job \in Escalations /\ loop[c].token \in Nat
    BY <1>2, <2>1 DEF FenceInv, TypeInv, BusyHasJob, Busy, Memory
  <2>3. QED
    BY <2>1, <2>2 DEF FenceInv, TokenInv, TokensIssued
<1>5. ASSUME NEW f \in Escalations
      PROVE  /\ claimToken[f] \in Nat
             /\ claimToken'[f] >= claimToken[f]
  BY <1>1, <1>2
<1>6. TokensIssued'
  <2> SUFFICES ASSUME NEW c \in Dispatchers, Busy(c)'
               PROVE  loop'[c].token >= 1 /\ loop'[c].token <= claimToken'[loop'[c].job]
    BY DEF TokensIssued
  <2>1. CASE c = d
    BY <1>2, <1>3, <2>1
  <2>2. CASE c # d
    <3>1. /\ loop'[c] = loop[c]
          /\ loop[c].job \in Escalations /\ loop[c].token \in Nat
          /\ loop[c].token >= 1 /\ loop[c].token <= claimToken[loop[c].job]
      BY <1>4, <2>2
    <3>2. /\ claimToken[loop[c].job] \in Nat
          /\ claimToken'[loop[c].job] >= claimToken[loop[c].job]
      BY <1>5, <3>1
    <3>3. claimToken'[loop[c].job] \in Nat
      BY <1>1, <1>2, <3>1
    <3>4. QED
      BY <3>1, <3>2, <3>3
  <2>3. QED
    BY <2>1, <2>2
<1>7. OneClaimOneLoop'
  <2>1. ASSUME NEW c \in Dispatchers, c # d, Busy(c)', loop'[c].job = e
        PROVE  loop'[c].token # claimToken[e] + 1
    BY <1>2, <1>4, <2>1
  <2>2. ASSUME NEW c1 \in Dispatchers, NEW c2 \in Dispatchers, c1 # d, c2 # d,
               Busy(c1)', Busy(c2)',
               loop'[c1].job = loop'[c2].job, loop'[c1].token = loop'[c2].token
        PROVE  c1 = c2
    BY <1>4, <2>2 DEF FenceInv, TokenInv, OneClaimOneLoop
  <2>3. QED
    BY <1>3, <2>1, <2>2 DEF OneClaimOneLoop
<1>8. QED
  BY <1>6, <1>7 DEF TokenInv

LEMMA TokensStep == FenceInv /\ [Next]_vars => TokenInv'
<1> SUFFICES ASSUME FenceInv, [Next]_vars PROVE TokenInv'
  OBVIOUS
<1>0. TypeOK /\ TokenInv /\ loop \in [Dispatchers -> Memory]
  BY DEF FenceInv, TypeInv, TypeOK
<1>1. ASSUME NEW d \in Dispatchers, Claim(d) PROVE TokenInv'
  BY <1>1, TokensClaim
<1>2. ASSUME NEW d \in Dispatchers, claimToken' = claimToken,
             loop' = [loop EXCEPT ![d] = Idle]
      PROVE  TokenInv'
  BY <1>0, <1>2, TokensDropped
<1>3. ASSUME NEW d \in Dispatchers, CouncilAnswers(d) PROVE TokenInv'
  BY <1>0, <1>3, TokensKept DEF CouncilAnswers, rowVars, Busy, Memory
<1>4. ASSUME NEW d \in Dispatchers, CouncilFails(d) PROVE TokenInv'
  BY <1>0, <1>4, TokensKept DEF CouncilFails, rowVars, Busy, Memory
<1>5. ASSUME Tick PROVE TokenInv'
  BY <1>0, <1>5, TokensKept DEF Tick, Busy, Memory
<1>6. ASSUME UNCHANGED <<claimToken, loop>> PROVE TokenInv'
  BY <1>0, <1>6, TokensKept DEF Busy
<1>7. QED
  BY <1>1, <1>2, <1>3, <1>4, <1>5, <1>6
     DEF Next, DispatcherStep, Enqueue, Renew, StoreAndStage, MarkFailed, Fence,
         LoseLease, PhantomSweep, Crash, Midnight, Arm, LoseArm, vars, rowVars

LEMMA AnswersStep == FenceInv /\ [Next]_vars => AnswerInv'
<1> SUFFICES ASSUME FenceInv, [Next]_vars PROVE AnswerInv'
  OBVIOUS
<1> USE DEF AnswerInv, AnswersAreStaged, StagedFromLatestClaim
<1>0. TypeOK /\ AnswerInv /\ BusyHasJob
  BY DEF FenceInv, TypeInv
<1>1. ASSUME NEW e \in Escalations, Enqueue(e) PROVE AnswerInv'
  BY <1>0, <1>1 DEF Enqueue, TypeOK
<1>2. ASSUME NEW d \in Dispatchers, Claim(d) PROVE AnswerInv'
  <2>1. PICK e \in Escalations :
          /\ Eligible(d, e)
          /\ status' = [status EXCEPT ![e] = "claimed"]
          /\ claimToken' = [claimToken EXCEPT ![e] = FreshToken(e)]
    BY <1>2 DEF Claim, Selectable
  <2>2. response' = response /\ status[e] # "council_response_staged"
    BY <1>2, <2>1 DEF Claim, Eligible, LeaseOver
  <2>3. QED
    BY <1>0, <2>1, <2>2 DEF TypeOK
<1>3. ASSUME NEW d \in Dispatchers, StoreAndStage(d) PROVE AnswerInv'
  BY <1>0, <1>3 DEF StoreAndStage, Holds, TypeOK, BusyHasJob
<1>4. ASSUME NEW d \in Dispatchers, MarkFailed(d) PROVE AnswerInv'
  BY <1>0, <1>4 DEF MarkFailed, Holds, TypeOK, BusyHasJob
<1>5. ASSUME PhantomSweep PROVE AnswerInv'
  BY <1>0, <1>5 DEF PhantomSweep, LeaseOver, TypeOK
<1>6. ASSUME UNCHANGED <<status, claimToken, response>> PROVE AnswerInv'
  BY <1>0, <1>6
<1>7. QED
  BY <1>1, <1>2, <1>3, <1>4, <1>5, <1>6
     DEF Next, DispatcherStep, Renew, Fence, LoseLease, CouncilAnswers, CouncilFails,
         Crash, Tick, Midnight, Arm, LoseArm, vars, rowVars

LEMMA FenceStep == FenceInv /\ [Next]_vars => FenceInv'
BY TypeStep, TokensStep, AnswersStep DEF FenceInv

LEMMA FenceAlways == Spec => []FenceInv
BY FenceInit, FenceStep, PTL DEF Spec

(***************************************************************************)
(* The properties.                                                         *)
(***************************************************************************)
\* At most one loop can write a row, whatever was reclaimed, swept or crashed.
THEOREM SingleHolder == Spec => []OneHolder
<1>1. FenceInv => OneHolder
  BY DEF FenceInv, TokenInv, OneClaimOneLoop, OneHolder, Holds, Busy
<1>2. QED
  BY <1>1, FenceAlways, PTL

\* A staged row carries the answer of its latest claim, never a late one.
THEOREM NoLateAnswer == Spec => []StagedFromLatestClaim
<1>1. FenceInv => StagedFromLatestClaim
  BY DEF FenceInv, AnswerInv
<1>2. QED
  BY <1>1, FenceAlways, PTL

\* Once a row carries an answer, no step replaces the answer or its price.
LEMMA AnswerStays ==
    ASSUME FenceInv, [Next]_vars, NEW e \in Escalations, response[e] # 0
    PROVE  response'[e] = response[e] /\ realized'[e] = realized[e]
<1>1. /\ status[e] = "council_response_staged"
      /\ response \in [Escalations -> Nat] /\ realized \in [Escalations -> Int]
  BY DEF FenceInv, AnswerInv, AnswersAreStaged, TypeInv, TypeOK
<1>2. ASSUME NEW d \in Dispatchers, StoreAndStage(d)
      PROVE  response'[e] = response[e] /\ realized'[e] = realized[e]
  <2>1. loop[d].job # e
    BY <1>1, <1>2 DEF StoreAndStage, Holds
  <2>2. QED
    BY <1>1, <1>2, <2>1 DEF StoreAndStage
<1>3. ASSUME UNCHANGED <<response, realized>>
      PROVE  response'[e] = response[e] /\ realized'[e] = realized[e]
  BY <1>3
<1>4. QED
  BY <1>2, <1>3
     DEF Next, DispatcherStep, Enqueue, Claim, Renew, MarkFailed, Fence, LoseLease,
         PhantomSweep, CouncilAnswers, CouncilFails, Crash, Tick, Midnight, Arm,
         LoseArm, vars, rowVars

\* A row is settled once: its answer and its price are never replaced.
THEOREM SettledForGood == Spec => SettledOnce
<1>1. FenceInv /\ [Next]_vars =>
        [\A e \in Escalations :
            response[e] # 0 => /\ response'[e] = response[e]
                               /\ realized'[e] = realized[e]]_vars
  BY AnswerStays
<1>2. QED
  BY <1>1, FenceAlways, PTL DEF Spec, SettledOnce

\* While a lease runs no other loop takes the row, and only its holder moves it.
THEOREM LeaseRespected == Spec => LeaseHonoured
<1> DEFINE Honoured ==
      \A e \in Escalations :
          status[e] = "claimed" /\ leaseLeft[e] >= 0 =>
             /\ claimToken'[e] = claimToken[e]
             /\ status'[e] # "claimed" =>
                   \E d \in Dispatchers : Holds(d) /\ loop[d].job = e
<1>1. FenceInv /\ [Next]_vars => [Honoured]_vars
  <2> SUFFICES ASSUME FenceInv, Next, NEW e \in Escalations,
                      status[e] = "claimed", leaseLeft[e] >= 0
               PROVE  /\ claimToken'[e] = claimToken[e]
                      /\ status'[e] # "claimed" =>
                           \E d \in Dispatchers : Holds(d) /\ loop[d].job = e
    OBVIOUS
  <2>0. TypeOK /\ ~LeaseOver(e)
    BY DEF FenceInv, TypeInv, TypeOK, LeaseOver
  <2>1. ASSUME NEW f \in Escalations, Enqueue(f)
        PROVE  claimToken'[e] = claimToken[e] /\ status'[e] = "claimed"
    BY <2>0, <2>1 DEF Enqueue, TypeOK
  <2>2. ASSUME NEW d \in Dispatchers, Claim(d)
        PROVE  claimToken'[e] = claimToken[e] /\ status'[e] = "claimed"
    <3>1. PICK f \in Escalations :
            /\ Eligible(d, f)
            /\ status' = [status EXCEPT ![f] = "claimed"]
            /\ claimToken' = [claimToken EXCEPT ![f] = FreshToken(f)]
      BY <2>2 DEF Claim, Selectable
    <3>2. f # e
      BY <2>0, <3>1 DEF Eligible
    <3>3. QED
      BY <2>0, <3>1, <3>2 DEF TypeOK
  <2>3. ASSUME NEW d \in Dispatchers, StoreAndStage(d) \/ MarkFailed(d)
        PROVE  /\ claimToken'[e] = claimToken[e]
               /\ status'[e] # "claimed" => Holds(d) /\ loop[d].job = e
    BY <2>0, <2>3 DEF StoreAndStage, MarkFailed, TypeOK
  <2>4. ASSUME PhantomSweep
        PROVE  claimToken'[e] = claimToken[e] /\ status'[e] = "claimed"
    BY <2>0, <2>4 DEF PhantomSweep
  <2>5. ASSUME UNCHANGED <<status, claimToken>>
        PROVE  claimToken'[e] = claimToken[e] /\ status'[e] = "claimed"
    BY <2>5
  <2>6. QED
    BY <2>1, <2>2, <2>3, <2>4, <2>5
       DEF Next, DispatcherStep, Renew, Fence, LoseLease, CouncilAnswers,
           CouncilFails, Crash, Tick, Midnight, Arm, LoseArm, rowVars
<1>2. QED
  BY <1>1, FenceAlways, PTL DEF Spec, LeaseHonoured

(***************************************************************************)
(* EscalationClaims implements ClaimFencing.                               *)
(***************************************************************************)
\* The holder of a row is well defined.
LEMMA HolderDefined ==
    ASSUME FenceInv, NEW e \in Escalations
    PROVE  /\ Holders(e) = {} => HolderOf(e) = Nobody
           /\ \A d \in Dispatchers : Holds(d) /\ loop[d].job = e <=> HolderOf(e) = d
           /\ \A d \in Holders(e) : Holders(e) = {d}
<1>1. \A d1, d2 \in Holders(e) : d1 = d2
  BY DEF FenceInv, TokenInv, OneClaimOneLoop, Holds, Busy, Holders
<1>2. CASE Holders(e) = {}
  BY <1>2, EscalationsAssumption DEF HolderOf, Holders
<1>3. CASE Holders(e) # {}
  <2>1. PICK h \in Dispatchers : Holders(e) = {h}
    BY <1>1, <1>3 DEF Holders
  <2>2. HolderOf(e) = h
    BY <2>1 DEF HolderOf
  <2>3. QED
    BY <2>1, <2>2 DEF Holders
<1>4. QED
  BY <1>2, <1>3

\* The same set of holders is the same holder.
LEMMA HolderKept ==
    ASSUME NEW e \in Escalations, Holders(e)' = Holders(e)
    PROVE  HolderOf(e)' = HolderOf(e)
BY DEF HolderOf

Owner == [e \in Escalations |-> HolderOf(e)]
Finished == [e \in Escalations |-> status[e] = "council_response_staged"]

\* Steps that touch neither a holder nor a staged row are stuttering steps.
LEMMA MapsToStutter ==
    ASSUME \A e \in Escalations : Holders(e)' = Holders(e), Finished' = Finished
    PROVE  [Fencing!Next]_<<Owner, Finished>>
<1>1. Owner' = Owner
  BY HolderKept DEF Owner
<1>2. QED
  BY <1>1

\* A step in which one loop drops its claim loses whatever row it held.
LEMMA MapsToLose ==
    ASSUME FenceInv, FenceInv', NEW d \in Dispatchers,
           \A e \in Escalations : Holders(e)' = Holders(e) \ {d}, Finished' = Finished
    PROVE  [Fencing!Next]_<<Owner, Finished>>
<1> DEFINE S == {e \in Escalations : d \in Holders(e)}
<1>1. ASSUME NEW e \in Escalations
      PROVE  HolderOf(e)' = IF e \in S THEN Nobody ELSE HolderOf(e)
  <2>1. CASE e \in S
    <3>1. Holders(e) = {d}
      BY <2>1, HolderDefined
    <3>2. Holders(e)' = {}
      BY <3>1
    <3>3. QED
      BY <2>1, <3>2 DEF HolderOf
  <2>2. CASE e \notin S
    <3>1. Holders(e)' = Holders(e)
      BY <2>2
    <3>2. QED
      BY <2>2, <3>1, HolderKept
  <2>3. QED
    BY <2>1, <2>2
<1>2. Fencing!Lose(S)
  BY <1>1 DEF Fencing!Lose, Owner, Finished
<1>3. QED
  BY <1>2 DEF Fencing!Next

\* A claim takes the row for a loop that held none.
LEMMA MapsToTake ==
    ASSUME FenceInv, FenceInv', NEW d \in Dispatchers, Claim(d)
    PROVE  [Fencing!Next]_<<Owner, Finished>>
<1>1. PICK e \in Escalations :
        /\ Eligible(d, e)
        /\ status' = [status EXCEPT ![e] = "claimed"]
        /\ claimToken' = [claimToken EXCEPT ![e] = FreshToken(e)]
        /\ loop' = [loop EXCEPT ![d] = [phase |-> "calling", job |-> e,
                                        token |-> FreshToken(e), fence |-> Deadline,
                                        answer |-> NoCost]]
  BY DEF Claim, Selectable
<1>2. /\ TypeOK
      /\ loop[d].phase = "idle"
      /\ status[e] # "council_response_staged"
      /\ FreshToken(e) = claimToken[e] + 1
  BY <1>1 DEF FenceInv, TypeInv, Claim, Eligible, LeaseOver, FreshToken
<1>3. \A f \in Escalations : HolderOf(f) # d
  <2>1. ~Holds(d)
    BY <1>2 DEF Holds
  <2>2. QED
    BY <2>1, HolderDefined
<1>4. Holds(d)' /\ loop'[d].job = e
  BY <1>1, <1>2 DEF Holds, TypeOK
<1>5. HolderOf(e)' = d
  BY <1>4, HolderDefined DEF Holders, HolderOf
<1>6. ASSUME NEW f \in Escalations, f # e PROVE HolderOf(f)' = HolderOf(f)
  <2>1. Holders(f)' = Holders(f)
    BY <1>1, <1>2, <1>4, <1>6 DEF Holders, Holds, TypeOK
  <2>2. QED
    BY <2>1, HolderKept
<1>7. Fencing!Take(d, e)
  <2>1. Owner' = [Owner EXCEPT ![e] = d]
    BY <1>5, <1>6 DEF Owner
  <2>2. Finished' = Finished /\ ~Finished[e]
    BY <1>1, <1>2 DEF Finished, TypeOK
  <2>3. \A f \in Escalations : Owner[f] # d
    BY <1>3 DEF Owner
  <2>4. QED
    BY <2>1, <2>2, <2>3 DEF Fencing!Take, Owner, Finished
<1>8. QED
  BY <1>7 DEF Fencing!Next

\* Only the owner finishes a row.
LEMMA MapsToFinish ==
    ASSUME FenceInv, FenceInv', NEW d \in Dispatchers, StoreAndStage(d)
    PROVE  [Fencing!Next]_<<Owner, Finished>>
<1>0. PICK e \in Escalations : e = loop[d].job
  BY DEF FenceInv, TypeInv, BusyHasJob, StoreAndStage
<1>1. /\ TypeOK
      /\ loop[d].job = e
      /\ Holds(d)
      /\ status' = [status EXCEPT ![e] = "council_response_staged"]
      /\ claimToken' = claimToken
      /\ loop' = [loop EXCEPT ![d] = Idle]
  BY <1>0 DEF FenceInv, TypeInv, StoreAndStage
<1>2. HolderOf(e) = d
  BY <1>1, HolderDefined
<1>3. HolderOf(e)' = Nobody
  <2>1. Holders(e)' = {}
    BY <1>1 DEF Holders, Holds, TypeOK
  <2>2. QED
    BY <2>1 DEF HolderOf
<1>4. ASSUME NEW f \in Escalations, f # e PROVE HolderOf(f)' = HolderOf(f)
  <2>1. Holders(f)' = Holders(f)
    BY <1>1, <1>4 DEF Holders, Holds, TypeOK, Idle
  <2>2. QED
    BY <2>1, HolderKept
<1>5. Fencing!Finish(d, e)
  <2>1. Owner' = [Owner EXCEPT ![e] = Nobody] /\ Owner[e] = d
    BY <1>1, <1>2, <1>3, <1>4 DEF Owner
  <2>2. Finished' = [Finished EXCEPT ![e] = TRUE]
    BY <1>1 DEF Finished, TypeOK
  <2>3. QED
    BY <2>1, <2>2 DEF Fencing!Finish, Owner, Finished
<1>6. QED
  BY <1>1, <1>5 DEF Fencing!Next

\* A sweep loses every lapsed row at once.
LEMMA MapsSweep ==
    ASSUME FenceInv, FenceInv', PhantomSweep
    PROVE  [Fencing!Next]_<<Owner, Finished>>
<1> DEFINE S == {e \in Escalations : LeaseOver(e)}
<1>1. /\ status' = [e \in Escalations |-> IF e \in S THEN "failed" ELSE status[e]]
      /\ claimToken' = claimToken
      /\ loop' = loop
  BY DEF PhantomSweep
<1>2. ASSUME NEW e \in Escalations
      PROVE  HolderOf(e)' = IF e \in S THEN Nobody ELSE HolderOf(e)
  <2>1. CASE e \in S
    <3>1. Holders(e)' = {}
      BY <1>1, <2>1 DEF Holders, Holds
    <3>2. QED
      BY <2>1, <3>1 DEF HolderOf
  <2>2. CASE e \notin S
    <3>1. Holders(e)' = Holders(e)
      BY <1>1, <2>2 DEF Holders, Holds
    <3>2. QED
      BY <2>2, <3>1, HolderKept
  <2>3. QED
    BY <2>1, <2>2
<1>3. Finished' = Finished
  BY <1>1 DEF Finished, LeaseOver
<1>4. Fencing!Lose(S)
  BY <1>2, <1>3 DEF Fencing!Lose, Owner, Finished
<1>5. QED
  BY <1>4 DEF Fencing!Next

LEMMA FencingStep ==
    ASSUME FenceInv, FenceInv', [Next]_vars
    PROVE  [Fencing!Next]_<<Owner, Finished>>
<1>0. TypeOK /\ loop \in [Dispatchers -> Memory]
  BY DEF FenceInv, TypeInv, TypeOK
<1>1. ASSUME NEW e \in Escalations, Enqueue(e)
      PROVE  [Fencing!Next]_<<Owner, Finished>>
  <2>1. \A f \in Escalations : Holders(f)' = Holders(f)
    BY <1>0, <1>1 DEF Enqueue, Holders, Holds, TypeOK
  <2>2. Finished' = Finished
    BY <1>0, <1>1 DEF Enqueue, Finished, TypeOK
  <2>3. QED
    BY <2>1, <2>2, MapsToStutter
<1>2. ASSUME NEW d \in Dispatchers, Claim(d)
      PROVE  [Fencing!Next]_<<Owner, Finished>>
  BY <1>2, MapsToTake
<1>3. ASSUME NEW d \in Dispatchers, StoreAndStage(d)
      PROVE  [Fencing!Next]_<<Owner, Finished>>
  BY <1>3, MapsToFinish
<1>4. ASSUME NEW d \in Dispatchers, MarkFailed(d)
      PROVE  [Fencing!Next]_<<Owner, Finished>>
  <2>0. PICK e \in Escalations : e = loop[d].job
    BY <1>4 DEF FenceInv, TypeInv, BusyHasJob, MarkFailed
  <2>1. /\ Holds(d) /\ loop[d].job = e /\ claimToken' = claimToken
        /\ status' = [status EXCEPT ![e] = "failed"]
        /\ loop' = [loop EXCEPT ![d] = Idle]
    BY <1>4, <2>0 DEF MarkFailed
  <2>2. Holders(e) = {d} /\ Holders(e)' = {}
    <3>1. d \in Holders(e)
      BY <2>1 DEF Holders
    <3>2. Holders(e)' = {}
      BY <1>0, <2>1 DEF Holders, Holds, TypeOK
    <3>3. QED
      BY <2>1, <3>1, <3>2, HolderDefined
  <2>3. ASSUME NEW f \in Escalations, f # e PROVE Holders(f)' = Holders(f) /\ d \notin Holders(f)
    BY <1>0, <2>1, <2>3 DEF Holders, Holds, TypeOK, Idle
  <2>4. \A f \in Escalations : Holders(f)' = Holders(f) \ {d}
    BY <2>2, <2>3
  <2>5. Finished' = Finished
    BY <1>0, <2>1 DEF Finished, Holds, TypeOK
  <2>6. QED
    BY <2>4, <2>5, MapsToLose
<1>5. ASSUME PhantomSweep PROVE [Fencing!Next]_<<Owner, Finished>>
  BY <1>5, MapsSweep
<1>6. ASSUME NEW d \in Dispatchers, loop' = [loop EXCEPT ![d] = Idle],
             UNCHANGED <<status, claimToken>>
      PROVE  [Fencing!Next]_<<Owner, Finished>>
  <2>1. \A f \in Escalations : Holders(f)' = Holders(f) \ {d}
    BY <1>0, <1>6 DEF Holders, Holds, Idle
  <2>2. Finished' = Finished
    BY <1>6 DEF Finished
  <2>3. QED
    BY <2>1, <2>2, MapsToLose
<1>7. ASSUME UNCHANGED <<status, claimToken>>,
             \A d \in Dispatchers : /\ loop'[d].phase = "idle" <=> loop[d].phase = "idle"
                                    /\ loop'[d].job = loop[d].job
                                    /\ loop'[d].token = loop[d].token
      PROVE  [Fencing!Next]_<<Owner, Finished>>
  <2>1. \A f \in Escalations : Holders(f)' = Holders(f)
    BY <1>7 DEF Holders, Holds
  <2>2. Finished' = Finished
    BY <1>7 DEF Finished
  <2>3. QED
    BY <2>1, <2>2, MapsToStutter
<1>8. ASSUME NEW d \in Dispatchers, CouncilAnswers(d) \/ CouncilFails(d)
      PROVE  [Fencing!Next]_<<Owner, Finished>>
  <2>1. \A c \in Dispatchers : /\ loop'[c].phase = "idle" <=> loop[c].phase = "idle"
                               /\ loop'[c].job = loop[c].job
                               /\ loop'[c].token = loop[c].token
    BY <1>0, <1>8 DEF CouncilAnswers, CouncilFails, Memory
  <2>2. UNCHANGED <<status, claimToken>>
    BY <1>8 DEF CouncilAnswers, CouncilFails, rowVars
  <2>3. QED
    BY <1>7, <2>1, <2>2
<1>9. ASSUME Tick PROVE [Fencing!Next]_<<Owner, Finished>>
  <2>1. \A c \in Dispatchers : /\ loop'[c].phase = "idle" <=> loop[c].phase = "idle"
                               /\ loop'[c].job = loop[c].job
                               /\ loop'[c].token = loop[c].token
    BY <1>0, <1>9 DEF Tick, Memory
  <2>2. QED
    BY <1>7, <1>9, <2>1 DEF Tick
<1>10. ASSUME UNCHANGED <<status, claimToken, loop>>
       PROVE  [Fencing!Next]_<<Owner, Finished>>
  BY <1>7, <1>10
<1>11. QED
  BY <1>1, <1>2, <1>3, <1>4, <1>5, <1>6, <1>8, <1>9, <1>10
     DEF Next, DispatcherStep, Renew, Fence, LoseLease, Crash, Midnight, Arm, LoseArm,
         vars, rowVars

LEMMA FencingInit ==
    ASSUME Init
    PROVE  Fencing!Init
<1>1. ASSUME NEW e \in Escalations PROVE HolderOf(e) = Nobody
  BY DEF Init, HolderOf, Holders, Holds, Idle
<1>2. QED
  BY <1>1 DEF Fencing!Init, Init

\* The token protocol implements exclusive ownership with preemption: rows
\* are finished once and by their owner, and a loop owns one row at a time.
THEOREM Refinement == Spec => ClaimsAreFenced
<1>1. Init => Fencing!Init
  BY FencingInit
<1>2. FenceInv /\ FenceInv' /\ [Next]_vars => [Fencing!Next]_<<Owner, Finished>>
  BY FencingStep
<1>3. QED
  BY <1>1, <1>2, FenceAlways, PTL
     DEF Spec, ClaimsAreFenced, Fencing!Spec, Owner, Finished

(***************************************************************************)
(* The rows as recovery knows them.                                        *)
(***************************************************************************)
RowStanding(e) ==
    IF status[e] = "absent" THEN "absent"
    ELSE IF status[e] = "council_response_staged" THEN "staged" ELSE "open"

LEMMA RowsInit == Init => PendingEscalations!Init
BY DEF Init, PendingEscalations!Init

\* A step that keeps the answers and neither files nor stages a row.
LEMMA RowsStutter ==
    ASSUME response' = response,
           \A e \in Escalations : RowStanding(e)' = RowStanding(e)
    PROVE  UNCHANGED PendingEscalations!vars
BY DEF PendingEscalations!vars, RowStanding

LEMMA EnqueueOpens ==
    ASSUME TypeOK, NEW e \in Escalations, Enqueue(e)
    PROVE  PendingEscalations!Enqueue(e)
<1>1. /\ RowStanding(e) = "absent" /\ RowStanding(e)' = "open"
      /\ \A f \in Escalations \ {e} : RowStanding(f)' = RowStanding(f)
  BY DEF Enqueue, TypeOK, RowStanding
<1>2. QED
  BY <1>1 DEF Enqueue, PendingEscalations!Enqueue, RowStanding

\* The one step that stores an answer is the one that stages its row.
LEMMA StoreStages ==
    ASSUME FenceInv, NEW d \in Dispatchers, StoreAndStage(d)
    PROVE  \E e \in Escalations : PendingEscalations!Stage(e)
<1>1. PICK e \in Escalations : e = loop[d].job
  BY DEF StoreAndStage, FenceInv, TypeInv, BusyHasJob
<1>2. PICK n \in Nat \ {0} : n = loop[d].token
  <2>1. loop[d].token \in Nat /\ loop[d].token >= 1
    BY DEF StoreAndStage, FenceInv, TokenInv, TokensIssued, Busy, TypeInv, TypeOK, Memory
  <2>2. QED
    BY <2>1
<1>3. /\ status[e] = "claimed"
      /\ status' = [status EXCEPT ![e] = "council_response_staged"]
      /\ response' = [response EXCEPT ![e] = n]
  BY <1>1, <1>2 DEF StoreAndStage, Holds
<1>4. /\ RowStanding(e) = "open" /\ RowStanding(e)' = "staged"
      /\ \A f \in Escalations \ {e} : RowStanding(f)' = RowStanding(f)
  BY <1>3 DEF FenceInv, TypeInv, TypeOK, RowStanding
<1>5. response'[e] = n
  BY <1>3 DEF FenceInv, TypeInv, TypeOK
<1>6. PendingEscalations!Stage(e)
  BY <1>2, <1>3, <1>4, <1>5 DEF PendingEscalations!Stage, RowStanding
<1>7. QED
  BY <1>6

LEMMA RowsStep ==
    ASSUME FenceInv, [Next]_vars
    PROVE  [PendingEscalations!Next]_(PendingEscalations!vars)
<1>0. TypeOK
  BY DEF FenceInv, TypeInv
<1>1. ASSUME NEW e \in Escalations, Enqueue(e) PROVE PendingEscalations!Next
  BY <1>0, <1>1, EnqueueOpens DEF PendingEscalations!Next
<1>2. ASSUME NEW d \in Dispatchers, StoreAndStage(d) PROVE PendingEscalations!Next
  BY <1>2, StoreStages DEF PendingEscalations!Next
<1>3. ASSUME NEW d \in Dispatchers, Claim(d) PROVE UNCHANGED PendingEscalations!vars
  <2>1. PICK e \in Escalations :
          /\ Eligible(d, e)
          /\ status' = [status EXCEPT ![e] = "claimed"]
          /\ response' = response
    BY <1>3 DEF Claim, Selectable
  <2>2. status[e] \in {"queued", "failed", "claimed"}
    BY <2>1 DEF Eligible, LeaseOver
  <2>3. QED
    BY <1>0, <2>1, <2>2, RowsStutter DEF RowStanding, TypeOK
<1>4. ASSUME NEW d \in Dispatchers, MarkFailed(d)
      PROVE  UNCHANGED PendingEscalations!vars
  <2>1. PICK e \in Escalations : e = loop[d].job
    BY <1>4 DEF MarkFailed, FenceInv, TypeInv, BusyHasJob
  <2>2. /\ status[e] = "claimed" /\ status' = [status EXCEPT ![e] = "failed"]
        /\ response' = response
    BY <1>4, <2>1 DEF MarkFailed, Holds
  <2>3. QED
    BY <1>0, <2>2, RowsStutter DEF RowStanding, TypeOK
<1>5. ASSUME PhantomSweep PROVE UNCHANGED PendingEscalations!vars
  BY <1>5, RowsStutter DEF PhantomSweep, LeaseOver, RowStanding
<1>6. ASSUME UNCHANGED <<status, response>> PROVE UNCHANGED PendingEscalations!vars
  BY <1>6, RowsStutter DEF RowStanding
<1>7. QED
  BY <1>1, <1>2, <1>3, <1>4, <1>5, <1>6
     DEF Next, DispatcherStep, Renew, Fence, LoseLease, CouncilAnswers, CouncilFails,
         Crash, Tick, Midnight, Arm, LoseArm, vars, rowVars

\* What recovery may assume of a row it finds staged: the answer came with the turn
\* to staged, and no claim, sweep or late call of the dispatcher moves it again.
THEOREM RowRefinement == Spec => AnswersAreKept
<1>1. FenceInv /\ [Next]_vars => [PendingEscalations!Next]_(PendingEscalations!vars)
  BY RowsStep
<1>2. QED
  BY <1>1, RowsInit, FenceAlways, PTL DEF Spec, AnswersAreKept, PendingEscalations!Spec
=============================================================================
