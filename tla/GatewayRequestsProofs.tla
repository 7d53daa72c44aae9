------------------------ MODULE GatewayRequestsProofs ------------------------
(***************************************************************************)
(* Proofs about GatewayRequests, for any number of requests and faults:    *)
(* types, no dispatch without a reservation, one terminator per chain, and *)
(* the budget, which sums over all requests.                               *)
(***************************************************************************)
EXTENDS GatewayRequests, FiniteSetTheorems, TLAPS

(***************************************************************************)
(* Sums over finite sets                                                   *)
(***************************************************************************)
\* Induction over the natural numbers, for a set of them.
LEMMA SetInduction ==
    ASSUME NEW P \in SUBSET Nat, 0 \in P, \A n \in P : n + 1 \in P
    PROVE  P = Nat
<1> DEFINE Rest == Nat \ P
           Less == OpToRel(<, Nat)
<1>1. SUFFICES ASSUME Rest # {} PROVE FALSE
    OBVIOUS
<1>2. PICK m \in Rest : \A n \in Rest : <<n, m>> \notin Less
  <2> HIDE DEF Less
  <2> QED
    BY <1>1, NatLessThanWellFounded, WFMin DEF Less
<1>3. m - 1 \in Nat
    OBVIOUS
<1>4. <<m - 1, m>> \in Less
    BY <1>3 DEF OpToRel
<1>5. m - 1 \in P
    BY <1>2, <1>3, <1>4
<1> QED
    BY <1>3, <1>5

\* A sum over a subset is the sum without one element, and that element.
Chosen(T) == CHOOSE x \in T : TRUE
Adds(f, g, T) == IF T = {} THEN 0 ELSE f[Chosen(T)] + g[T \ {Chosen(T)}]
Sums(f, S) == CHOOSE g : g = [T \in SUBSET S |-> Adds(f, g, T)]

LEMMA ChosenIn == ASSUME NEW T, T # {} PROVE Chosen(T) \in T
BY DEF Chosen

LEMMA SumIsSums ==
    ASSUME NEW f
    PROVE  SumFunction(f) = Sums(f, DOMAIN f)[DOMAIN f]
BY DEF SumFunction, SumFunctionOnSet, FoldFunctionOnSet, MapThenFoldSet, Sums, Adds, Chosen

LEMMA AddsInt ==
    ASSUME NEW S, NEW f \in [S -> Int], NEW g \in [SUBSET S -> Int], NEW T \in SUBSET S
    PROVE  Adds(f, g, T) \in Int
<1>1. CASE T = {}
    BY <1>1 DEF Adds
<1>2. CASE T # {}
  <2>1. Chosen(T) \in S /\ T \ {Chosen(T)} \in SUBSET S
    BY <1>2, ChosenIn
  <2>2. f[Chosen(T)] \in Int /\ g[T \ {Chosen(T)}] \in Int
    BY <2>1
  <2> QED
    BY <1>2, <2>2 DEF Adds
<1> QED
    BY <1>1, <1>2

Smaller(S, n) == {T \in SUBSET S : Cardinality(T) <= n}

LEMMA Without ==
    ASSUME NEW S, IsFiniteSet(S), NEW n \in Nat, NEW T \in Smaller(S, n + 1), T # {}
    PROVE  T \ {Chosen(T)} \in Smaller(S, n)
<1>1. IsFiniteSet(T) /\ Chosen(T) \in T
    BY FS_Subset, ChosenIn DEF Smaller
<1>2. Cardinality(T \ {Chosen(T)}) = Cardinality(T) - 1 /\ Cardinality(T) \in Nat
    BY <1>1, FS_RemoveElement, FS_CardinalityType
<1> QED
    BY <1>2 DEF Smaller

LEMMA NoneSmaller ==
    ASSUME NEW S, IsFiniteSet(S), NEW T \in Smaller(S, 0)
    PROVE  T = {}
<1>1. IsFiniteSet(T) /\ Cardinality(T) \in Nat
    BY FS_Subset, FS_CardinalityType DEF Smaller
<1> QED
    BY <1>1, FS_EmptySet DEF Smaller

LEMMA AllSmaller ==
    ASSUME NEW S, IsFiniteSet(S)
    PROVE  Cardinality(S) \in Nat /\ Smaller(S, Cardinality(S)) = SUBSET S
BY FS_Subset, FS_CardinalityType DEF Smaller

LEMMA SumsExist ==
    ASSUME NEW S, IsFiniteSet(S), NEW f \in [S -> Int]
    PROVE  \E g \in [SUBSET S -> Int] : \A T \in SUBSET S : g[T] = Adds(f, g, T)
<1> DEFINE Solves(n, g) == \A T \in Smaller(S, n) : g[T] = Adds(f, g, T)
           P == {n \in Nat : \E g \in [SUBSET S -> Int] : Solves(n, g)}
<1>1. 0 \in P
  <2> DEFINE g == [T \in SUBSET S |-> 0]
  <2>1. g \in [SUBSET S -> Int]
    OBVIOUS
  <2>2. Solves(0, g)
    BY NoneSmaller DEF Adds, Smaller
  <2> QED
    BY <2>1, <2>2
<1>2. ASSUME NEW n \in P PROVE n + 1 \in P
  <2>1. PICK g \in [SUBSET S -> Int] : Solves(n, g)
    OBVIOUS
  <2> DEFINE h == [T \in SUBSET S |-> Adds(f, g, T)]
  <2>2. h \in [SUBSET S -> Int]
    BY AddsInt
  <2>3. ASSUME NEW T \in Smaller(S, n + 1) PROVE h[T] = Adds(f, h, T)
    <3>1. h[T] = Adds(f, g, T)
        BY DEF Smaller
    <3>2. CASE T = {}
        BY <3>1, <3>2 DEF Adds
    <3>3. CASE T # {}
      <4>1. T \ {Chosen(T)} \in Smaller(S, n)
          BY <3>3, Without
      <4>2. g[T \ {Chosen(T)}] = h[T \ {Chosen(T)}]
          BY <4>1, <2>1 DEF Smaller
      <4> QED
          BY <3>1, <3>3, <4>2 DEF Adds
    <3> QED
        BY <3>2, <3>3
  <2>4. n + 1 \in Nat
    OBVIOUS
  <2> HIDE DEF h
  <2> QED
    BY <2>2, <2>3, <2>4
<1>3. P \in SUBSET Nat
    OBVIOUS
<1> HIDE DEF P
<1>4. P = Nat
    BY <1>1, <1>2, <1>3, SetInduction
<1>5. Cardinality(S) \in P
    BY <1>4, AllSmaller
<1> QED
    BY <1>5, AllSmaller DEF P

LEMMA SubsetInduction ==
    ASSUME NEW S, IsFiniteSet(S), NEW P \in SUBSET (SUBSET S), {} \in P,
           \A T \in SUBSET S : T # {} /\ T \ {Chosen(T)} \in P => T \in P
    PROVE  P = SUBSET S
<1> DEFINE N == {n \in Nat : Smaller(S, n) \subseteq P}
<1>1. 0 \in N
    BY NoneSmaller
<1>2. ASSUME NEW n \in N PROVE n + 1 \in N
  <2>1. ASSUME NEW T \in Smaller(S, n + 1) PROVE T \in P
    <3>1. T \in SUBSET S
        BY DEF Smaller
    <3>2. CASE T # {}
        BY <3>1, <3>2, Without
    <3> QED
        BY <3>2
  <2> QED
    BY <2>1
<1>3. N \in SUBSET Nat
    OBVIOUS
<1> HIDE DEF N
<1>4. N = Nat
    BY <1>1, <1>2, <1>3, SetInduction
<1>5. Cardinality(S) \in N
    BY <1>4, AllSmaller
<1> QED
    BY <1>5, AllSmaller DEF N

LEMMA SumsAdd ==
    ASSUME NEW S, IsFiniteSet(S), NEW f \in [S -> Int]
    PROVE  \A T \in SUBSET S : /\ Sums(f, S)[T] \in Int
                               /\ Sums(f, S)[T] = Adds(f, Sums(f, S), T)
<1>1. PICK g \in [SUBSET S -> Int] : \A T \in SUBSET S : g[T] = Adds(f, g, T)
    BY SumsExist
<1>2. g = [T \in SUBSET S |-> Adds(f, g, T)]
    BY <1>1
<1>3. Sums(f, S) = [T \in SUBSET S |-> Adds(f, Sums(f, S), T)]
    BY <1>2 DEF Sums
<1> DEFINE s == Sums(f, S)
           P == {T \in SUBSET S : s[T] = g[T]}
<1>4. \A T \in SUBSET S : s[T] = Adds(f, s, T)
    BY <1>3
<1> HIDE DEF s
<1>5. {} \in P
    BY <1>1, <1>4 DEF Adds
<1>6. ASSUME NEW T \in SUBSET S, T # {}, T \ {Chosen(T)} \in P PROVE T \in P
    BY <1>1, <1>4, <1>6 DEF Adds
<1>7. P \in SUBSET (SUBSET S)
    OBVIOUS
<1> HIDE DEF P
<1>8. P = SUBSET S
    BY <1>5, <1>6, <1>7, SubsetInduction
<1> QED
    BY <1>4, <1>8 DEF P, s

\* The sum of a function over a finite set, and what an update does to it.
LEMMA SumOfUpdate ==
    ASSUME NEW S, IsFiniteSet(S), NEW f \in [S -> Int], NEW h \in [S -> Int],
           NEW r \in S, \A x \in S \ {r} : h[x] = f[x]
    PROVE  SumFunction(h) = SumFunction(f) - f[r] + h[r]
<1> DEFINE s == Sums(f, S)
           u == Sums(h, S)
           P == {T \in SUBSET S : u[T] = IF r \in T THEN s[T] - f[r] + h[r] ELSE s[T]}
<1>2. \A T \in SUBSET S : s[T] \in Int /\ s[T] = Adds(f, s, T)
    BY SumsAdd
<1>3. \A T \in SUBSET S : u[T] \in Int /\ u[T] = Adds(h, u, T)
    BY SumsAdd
<1>4. SumFunction(f) = s[S] /\ SumFunction(h) = u[S]
    BY SumIsSums
<1> HIDE DEF s, u
<1>6. {} \in P
    BY <1>2, <1>3 DEF Adds
<1>7. ASSUME NEW T \in SUBSET S, T # {}, T \ {Chosen(T)} \in P PROVE T \in P
  <2> DEFINE x == Chosen(T)
             T1 == T \ {x}
  <2>1. x \in T /\ T1 \in SUBSET S
    BY <1>7, ChosenIn
  <2>2. s[T] = f[x] + s[T1] /\ u[T] = h[x] + u[T1]
    BY <1>7, <1>2, <1>3 DEF Adds
  <2>3. s[T1] \in Int /\ f[x] \in Int /\ f[r] \in Int /\ h[r] \in Int
    BY <2>1, <1>2
  <2>4. u[T1] = IF r \in T1 THEN s[T1] - f[r] + h[r] ELSE s[T1]
    BY <1>7
  <2> HIDE DEF x
  <2>5. CASE x = r
    BY <2>1, <2>2, <2>3, <2>4, <2>5
  <2>6. CASE x # r
    <3>1. h[x] = f[x] /\ (r \in T1 <=> r \in T)
        BY <2>1, <2>6
    <3> QED
        BY <2>2, <2>3, <2>4, <3>1
  <2> QED
    BY <2>5, <2>6
<1>8. P \in SUBSET (SUBSET S)
    OBVIOUS
<1> HIDE DEF P
<1>9. S \in P
    BY <1>6, <1>7, <1>8, SubsetInduction
<1> QED
    BY <1>4, <1>9 DEF P

LEMMA SumOfZeros ==
    ASSUME NEW S, IsFiniteSet(S)
    PROVE  SumFunction([x \in S |-> 0]) = 0
<1> DEFINE f == [x \in S |-> 0]
           s == Sums(f, S)
           P == {T \in SUBSET S : s[T] = 0}
<1>1. \A T \in SUBSET S : s[T] \in Int /\ s[T] = Adds(f, s, T)
    BY SumsAdd
<1>2. SumFunction(f) = s[S]
    BY SumIsSums
<1> HIDE DEF s
<1>3. {} \in P
    BY <1>1 DEF Adds
<1>4. ASSUME NEW T \in SUBSET S, T # {}, T \ {Chosen(T)} \in P PROVE T \in P
  <2>1. f[Chosen(T)] = 0
    BY <1>4, ChosenIn
  <2> QED
    BY <2>1, <1>4, <1>1 DEF Adds
<1>5. P \in SUBSET (SUBSET S)
    OBVIOUS
<1> HIDE DEF P
<1>6. S \in P
    BY <1>3, <1>4, <1>5, SubsetInduction
<1> QED
    BY <1>2, <1>6 DEF P

LEMMA SumOfNats ==
    ASSUME NEW S, IsFiniteSet(S), NEW f \in [S -> Nat]
    PROVE  SumFunction(f) \in Nat
<1> DEFINE s == Sums(f, S)
           P == {T \in SUBSET S : s[T] \in Nat}
<1>0. f \in [S -> Int]
    OBVIOUS
<1>1. \A T \in SUBSET S : s[T] \in Int /\ s[T] = Adds(f, s, T)
    BY <1>0, SumsAdd
<1>2. SumFunction(f) = s[S]
    BY SumIsSums
<1> HIDE DEF s
<1>3. {} \in P
    BY <1>1 DEF Adds
<1>4. ASSUME NEW T \in SUBSET S, T # {}, T \ {Chosen(T)} \in P PROVE T \in P
  <2>1. f[Chosen(T)] \in Nat
    BY <1>4, ChosenIn
  <2>2. s[T] = f[Chosen(T)] + s[T \ {Chosen(T)}]
    BY <1>4, <1>1 DEF Adds
  <2> QED
    BY <2>1, <2>2, <1>4
<1>5. P \in SUBSET (SUBSET S)
    OBVIOUS
<1> HIDE DEF P
<1>6. S \in P
    BY <1>3, <1>4, <1>5, SubsetInduction
<1> QED
    BY <1>2, <1>6 DEF P

LEMMA SumAtLeastOne ==
    ASSUME NEW S, IsFiniteSet(S), NEW f \in [S -> Nat], NEW r \in S
    PROVE  SumFunction(f) >= f[r]
<1> DEFINE h == [f EXCEPT ![r] = 0]
<1>1. f \in [S -> Int] /\ h \in [S -> Int] /\ h \in [S -> Nat]
    OBVIOUS
<1>2. h[r] = 0 /\ \A x \in S \ {r} : h[x] = f[x]
    OBVIOUS
<1> HIDE DEF h
<1>3. SumFunction(h) = SumFunction(f) - f[r] + h[r]
    BY <1>1, <1>2, SumOfUpdate
<1>4. SumFunction(h) \in Nat /\ SumFunction(f) \in Nat
    BY <1>1, SumOfNats
<1> QED
    BY <1>2, <1>3, <1>4

(***************************************************************************)
(* Types                                                                   *)
(***************************************************************************)
Types ==
    /\ pc \in [Requests -> Steps]
    /\ kind \in [Requests -> {"none", "chat", "council", "batch"}]
    /\ provider \in [Requests -> BOOLEAN]
    /\ estimate \in [Requests -> {None, 0, Estimate}]
    /\ terminated \in [Requests -> BOOLEAN]
    /\ replay \in [Requests -> BOOLEAN]
    /\ check \in [Requests -> {"none", "sent", "reserved", "denied"}]
    /\ spent \in Nat
    /\ charged \in [Requests -> {None, 0} \cup Costs]
    /\ job \in [Requests -> [Jobs -> {"none", "queued", "running", "over"}]]
    /\ tries \in [Requests -> [Jobs -> 0 .. Attempts - 1]]
    /\ rows \in [Requests -> Nat]
    /\ spoiled \in [Requests -> BOOLEAN]
    /\ faults \in 0..MaxFaults

LEMMA InitTypes == Init => Types
    BY GatewayAssumption DEF Init, Types, Steps, None

LEMMA FaultTypes ==
    ASSUME Types, NEW r \in Requests, Fault(r)
    PROVE  spoiled' \in [Requests -> BOOLEAN] /\ faults' \in 0..MaxFaults
<1>1. MaxFaults \in Nat /\ faults \in 0..MaxFaults
    BY GatewayAssumption DEF Types
<1>2. faults' \in 0..MaxFaults
    BY <1>1 DEF Fault
<1>3. spoiled' \in [Requests -> BOOLEAN]
    BY DEF Fault, Types
<1> QED
    BY <1>2, <1>3

\* Scheduling keeps the types of what it writes.
LEMMA ScheduleTypes ==
    ASSUME Types, NEW r \in Requests, NEW new, NEW taken, Schedule(r, new, taken)
    PROVE  /\ job' \in [Requests -> [Jobs -> {"none", "queued", "running", "over"}]]
           /\ tries' \in [Requests -> [Jobs -> 0 .. Attempts - 1]]
           /\ rows' \in [Requests -> Nat]
           /\ spoiled' \in [Requests -> BOOLEAN]
           /\ faults' \in 0..MaxFaults
<1>1. job' \in [Requests -> [Jobs -> {"none", "queued", "running", "over"}]]
    BY DEF Schedule, Types
<1>2. NoFault \/ Fault(r)
    BY Zenon DEF Schedule
<1>3. CASE NoFault
    BY <1>1, <1>3 DEF Schedule, Types, NoFault
<1>4. CASE Fault(r)
    BY <1>1, <1>4, FaultTypes DEF Schedule, Types
<1> QED
    BY <1>2, <1>3, <1>4

LEMMA TerminateTypes ==
    ASSUME Types, NEW r \in Requests, Terminate(r)
    PROVE  Types'
<1> PICK taken \in SUBSET {"ending"} :
        Schedule(r, {"ending"}, taken) /\ Marked(r, taken)
    BY DEF Terminate
<1>1. pc' \in [Requests -> Steps] /\ terminated' \in [Requests -> BOOLEAN]
    BY DEF Terminate, Goto, Marked, Types, Steps
<1> QED
    BY <1>1, ScheduleTypes DEF Terminate, Types, budget

LEMMA ContinueTypes ==
    ASSUME Types, NEW r \in Requests, NEW step \in Steps, Continue(r, step)
    PROVE  Types'
    BY DEF Continue, Goto, NoFault, Types, record, budget, timers

LEMMA ReceiveTypes ==
    ASSUME Types, NEW r \in Requests, Receive(r) \/ ReceiveBatch(r)
    PROVE  Types'
<1>1. pc' \in [Requests -> Steps]
  <2>1. pc \in [Requests -> Steps] /\ "guard" \in Steps /\ "budget" \in Steps
      BY DEF Types, Steps
  <2>2. Goto(r, "guard") \/ Goto(r, "budget")
      BY DEF Receive, ReceiveBatch
  <2> QED
      BY <2>1, <2>2 DEF Goto
<1>2. kind' \in [Requests -> {"none", "chat", "council", "batch"}]
    BY DEF Receive, ReceiveBatch, Types
<1>3. provider' \in [Requests -> BOOLEAN]
    BY DEF Receive, ReceiveBatch, Types
<1>4. UNCHANGED <<estimate, terminated, replay, budget, timers, faults, spoiled>>
    BY DEF Receive, ReceiveBatch, NoFault
<1> QED
    BY <1>1, <1>2, <1>3, <1>4 DEF Types, budget, timers

LEMMA HandlerTypes ==
    ASSUME Types, NEW r \in Requests, Handler(r)
    PROVE  Types'
<1>1. CASE EnforceInputGuard(r) \/ TryServeCached(r) \/ ResolveRoute(r) \/ CheckPolicy(r)
    BY <1>1, TerminateTypes, ContinueTypes
    DEF EnforceInputGuard, TryServeCached, ResolveRoute, CheckPolicy, Steps
<1>2. CASE Respond(r)
    BY <1>2, ContinueTypes DEF Respond, Steps
<1>3. CASE CheckBudget(r)
  <2>1. CASE Continue(r, AfterBudget(r))
      BY <2>1, ContinueTypes DEF AfterBudget, Steps
  <2>2. CASE ~Continue(r, AfterBudget(r))
      BY <1>3, <2>2 DEF CheckBudget, Goto, NoFault, Types, Steps, record, timers
  <2> QED
      BY <2>1, <2>2
<1>4. CASE Admitted(r)
    BY <1>4 DEF Admitted, Goto, NoFault, Types, Steps, AfterBudget, EstimateOf, budget,
        timers
<1>5. CASE Blocked(r)
  <2>1. CASE Terminate(r)
      BY <2>1, TerminateTypes
  <2>2. CASE ~Terminate(r)
    <3>1. PICK taken \in SUBSET {"ending"} : Schedule(r, {"ending"}, taken)
        BY <1>5, <2>2 DEF Blocked, Block
    <3>2. pc' \in [Requests -> Steps] /\ UNCHANGED <<record, budget>>
        BY <1>5, <2>2 DEF Blocked, Block, Goto, Types, Steps
    <3> QED
        BY <3>1, <3>2, ScheduleTypes DEF Types, record, budget
  <2> QED
      BY <2>1, <2>2
<1>6. CASE TimedOut(r)
  <2>1. PICK taken \in SUBSET {"ending"} :
            job' = [job EXCEPT ![r]["ending"] = IF taken = {} THEN @ ELSE "queued"]
      BY <1>6 DEF TimedOut, FailClosed
  <2>2. job' \in [Requests -> [Jobs -> {"none", "queued", "running", "over"}]]
      BY <2>1 DEF Types, Jobs
  <2>3. terminated' \in [Requests -> BOOLEAN]
      BY <1>6 DEF TimedOut, FailClosed, Marked, Types
  <2>4. pc' \in [Requests -> Steps]
      BY <1>6 DEF TimedOut, FailClosed, Goto, Types, Steps
  <2> QED
      BY <1>6, <2>2, <2>3, <2>4, FaultTypes DEF TimedOut, FailClosed, Types, budget
<1>7. CASE CouncilGate(r)
  <2>1. CASE Continue(r, "log") \/ Continue(r, "dispatch")
      BY <2>1, ContinueTypes DEF Steps
  <2>2. CASE ~(Continue(r, "log") \/ Continue(r, "dispatch"))
    <3>1. PICK taken \in SUBSET {"ending"} : Schedule(r, {"ending"}, taken)
        BY <1>7, <2>2 DEF CouncilGate
    <3>2. /\ pc' \in [Requests -> Steps]
          /\ provider' \in [Requests -> BOOLEAN]
          /\ replay' \in [Requests -> BOOLEAN]
          /\ UNCHANGED <<kind, estimate, terminated, budget>>
        BY <1>7, <2>2 DEF CouncilGate, Goto, Types, Steps
    <3> QED
        BY <3>1, <3>2, ScheduleTypes DEF Types, budget
  <2> QED
      BY <2>1, <2>2
<1>8. CASE DispatchUpstream(r)
    BY <1>8, ContinueTypes
    DEF DispatchUpstream, Goto, NoFault, Types, Steps, budget, timers
<1>9. CASE Account(r)
  <2>1. PICK taken \in SUBSET ClosingTimers(r) :
            /\ Schedule(r, ClosingTimers(r), taken)
            /\ terminated' = [terminated EXCEPT ![r] =
                                  @ \/ (~provider[r] /\ "closing" \in taken)]
      BY <1>9 DEF Account
  <2>2. pc' \in [Requests -> Steps] /\ terminated' \in [Requests -> BOOLEAN]
      BY <1>9, <2>1 DEF Account, Goto, Types, Steps
  <2> QED
      BY <1>9, <2>1, <2>2, ScheduleTypes DEF Account, Types, budget
<1> QED
    BY <1>1, <1>2, <1>3, <1>4, <1>5, <1>6, <1>7, <1>8, <1>9 DEF Handler

LEMMA SidecarTypes ==
    ASSUME Types, NEW r \in Requests, Reserve(r) \/ Deny(r)
    PROVE  Types'
    BY GatewayAssumption
    DEF Reserve, Deny, Types, EstimateOf, record, timers

LEMMA TimerTypes ==
    ASSUME Types, NEW r \in Requests, NEW j \in Jobs, Timer(r, j) \/ Premature(r, j)
    PROVE  Types'
<1> USE GatewayAssumption
<1>1. CASE Settle(r, j)
  <2>1. PICK c \in IF j = "release" THEN {0} ELSE Costs :
            spent' = SpendAfter(r, c) /\ charged' = [charged EXCEPT ![r] = c]
      BY <1>1 DEF Settle
  <2>2. c \in Nat /\ charged' \in [Requests -> {None, 0} \cup Costs]
      BY <2>1 DEF Types
  <2>3. spent' \in Nat
      BY <2>1, <2>2 DEF SpendAfter, Types, None
  <2> QED
      BY <1>1, <2>2, <2>3 DEF Settle, AfterSettle, Types, record
<1>2. CASE SettleLost(r, j)
    BY <1>2, FaultTypes DEF SettleLost, AfterSettle, Types, record, budget
<1>3. CASE Write(r, j)
    BY <1>3 DEF Write, Types, record, budget
<1>4. CASE WriteFails(r, j)
  <2>1. rows' \in [Requests -> Nat]
      BY <1>4 DEF WriteFails, Types
  <2>2. /\ job \in [Requests -> [Jobs -> {"none", "queued", "running", "over"}]]
        /\ tries \in [Requests -> [Jobs -> 0 .. Attempts - 1]]
        /\ Attempts \in Nat \ {0}
      BY DEF Types
  <2>3. PICK s \in {"running", "over"}, n \in 0 .. Attempts - 1 :
            /\ job' = [job EXCEPT ![r][j] = s]
            /\ tries' = [tries EXCEPT ![r][j] = n]
    <3>1. CASE tries[r][j] + 1 < Attempts
      <4>1. /\ job' = [job EXCEPT ![r][j] = "running"]
            /\ tries' = [tries EXCEPT ![r][j] = tries[r][j] + 1]
          BY <1>4, <2>2, <3>1 DEF WriteFails
      <4>2. tries[r][j] + 1 \in 0 .. Attempts - 1
          BY <2>2, <3>1
      <4> QED
          BY <4>1, <4>2
    <3>2. CASE ~(tries[r][j] + 1 < Attempts)
        BY <1>4, <2>2, <3>2 DEF WriteFails
    <3> QED
        BY <3>1, <3>2
  <2>4. /\ job' \in [Requests -> [Jobs -> {"none", "queued", "running", "over"}]]
        /\ tries' \in [Requests -> [Jobs -> 0 .. Attempts - 1]]
      BY <2>2, <2>3
  <2> QED
      BY <1>4, <2>1, <2>4, FaultTypes DEF WriteFails, Types, record, budget
<1>5. CASE Premature(r, j)
    BY <1>5, FaultTypes DEF Premature, Types, record, budget
<1> QED
    BY <1>1, <1>2, <1>3, <1>4, <1>5 DEF Timer

LEMMA TypesKept == Types /\ [Next]_vars => Types'
<1> SUFFICES ASSUME Types, [Next]_vars PROVE Types'
    OBVIOUS
<1>1. ASSUME NEW r \in Requests, Abort(r) PROVE Types'
    BY <1>1, ContinueTypes DEF Abort, Steps
<1>2. CASE UNCHANGED vars
    BY <1>2 DEF vars, record, budget, timers, Types
<1> QED
    BY <1>1, <1>2, ReceiveTypes, HandlerTypes, SidecarTypes, TimerTypes DEF Next, Step

(***************************************************************************)
(* What the record of a request says at each point of its way              *)
(***************************************************************************)
Unchecked == {"new", "guard", "cache", "route", "budget"}
Cleared == {"policy", "gate", "dispatch", "upstream"}

\* The estimate on the record is a reservation the sidecar made.
Reserved(r) ==
    /\ estimate[r] # None => check[r] = "reserved" /\ estimate[r] = EstimateOf(r)
    /\ pc[r] \in Unchecked => check[r] = "none"
    /\ pc[r] \in Cleared => check[r] = "none" \/ estimate[r] # None

\* The log phase comes last, and only what it schedules releases or settles.
Accounted(r) ==
    /\ job[r]["release"] # "none" => ~provider[r] /\ estimate[r] # None /\ pc[r] = "done"
    /\ job[r]["closing"] # "none" => pc[r] = "done"
    /\ charged[r] # None => estimate[r] # None /\ pc[r] = "done"

\* Until it is proxied or replayed a chat has no provider; a terminator of the
\* access phase is visible to the log phase on the record.
Closable(r) ==
    /\ pc[r] \notin {"upstream", "log", "done"} => ~provider[r]
    /\ pc[r] \notin {"log", "done"} => job[r]["ending"] = "none"
    /\ job[r]["ending"] # "none" => replay[r] \/ (terminated[r] /\ ~provider[r])
    /\ job[r]["ending"] = "none" \/ job[r]["closing"] = "none"

Chain(r) ==
    /\ pc[r] = "new" <=> kind[r] = "none"
    /\ Reserved(r)
    /\ Accounted(r)
    /\ kind[r] # "batch" => Closable(r)

Chains == \A r \in Requests : Chain(r)

LEMMA InitChains == Init => Chains
    BY DEF Init, Chains, Chain, Reserved, Accounted, Closable, Unchecked, Cleared, Jobs

\* A step that touches nothing of a request keeps its chain as it is.
LEMMA OtherChain ==
    ASSUME NEW s \in Requests, Chain(s),
           UNCHANGED <<pc[s], kind[s], provider[s], estimate[s], terminated[s],
                       replay[s], check[s], charged[s], job[s]>>
    PROVE  Chain(s)'
    BY DEF Chain, Reserved, Accounted, Closable, EstimateOf

\* Where a request's timers and progress stand after its step decide its chain.
LEMMA Frame ==
    ASSUME Types, Chains, NEW r \in Requests, Chain(r)',
           \A s \in Requests \ {r} :
               UNCHANGED <<pc[s], kind[s], provider[s], estimate[s], terminated[s],
                           replay[s], check[s], charged[s], job[s]>>
    PROVE  Chains'
<1> SUFFICES ASSUME NEW s \in Requests PROVE Chain(s)'
    BY DEF Chains
<1>1. CASE s = r
    BY <1>1
<1>2. CASE s # r
    BY <1>2, OtherChain DEF Chains
<1> QED
    BY <1>1, <1>2

\* A scheduled timer of a request is queued; its other timers stay as they are.
LEMMA ScheduleJobs ==
    ASSUME Types, NEW r \in Requests, NEW new \in SUBSET Jobs, NEW taken,
           Schedule(r, new, taken)
    PROVE  /\ taken \subseteq new
           /\ \A j \in Jobs : job'[r][j] = IF j \in taken THEN "queued" ELSE job[r][j]
           /\ \A s \in Requests \ {r} : job'[s] = job[s]
    BY DEF Schedule, Types

LEMMA TerminateChain ==
    ASSUME Types, Chains, NEW r \in Requests, Terminate(r),
           pc[r] \in Steps \ {"new", "upstream", "log", "done"}
    PROVE  Chains'
<1>1. PICK taken \in SUBSET {"ending"} :
          Schedule(r, {"ending"}, taken) /\ Marked(r, taken)
    BY DEF Terminate
<1>2. /\ pc' = [pc EXCEPT ![r] = "log"]
      /\ UNCHANGED <<kind, provider, estimate, replay, check, charged>>
    BY DEF Terminate, Goto, budget
<1>3. /\ \A j \in Jobs : job'[r][j] = IF j \in taken THEN "queued" ELSE job[r][j]
      /\ \A s \in Requests \ {r} : job'[s] = job[s]
    BY <1>1, ScheduleJobs DEF Jobs
<1>4. /\ pc'[r] = "log"
      /\ \A s \in Requests \ {r} : pc'[s] = pc[s] /\ terminated'[s] = terminated[s]
      /\ terminated'[r] = (terminated[r] \/ taken # {})
    BY <1>1, <1>2 DEF Marked, Types
<1>5. Chain(r)
    BY DEF Chains
<1>6. Chain(r)'
  <2>1. /\ job'[r]["release"] = job[r]["release"]
        /\ job'[r]["closing"] = job[r]["closing"]
        /\ job'[r]["ending"] # "none" => job[r]["ending"] # "none" \/ taken # {}
      BY <1>3 DEF Jobs
  <2>2. Reserved(r)' /\ Accounted(r)'
      BY <1>2, <1>4, <1>5, <2>1
      DEF Chain, Reserved, Accounted, EstimateOf, Unchecked, Cleared, Steps
  <2>3. kind[r] # "batch" => Closable(r)'
      BY <1>2, <1>4, <1>5, <2>1 DEF Chain, Closable, Accounted
  <2> QED
      BY <1>2, <1>4, <1>5, <2>2, <2>3 DEF Chain
<1> QED
    BY <1>2, <1>3, <1>4, <1>6, Frame

\* A request that only goes on, from a step before the log phase to a later one.
LEMMA ContinueChain ==
    ASSUME Types, Chains, NEW r \in Requests, NEW step, Continue(r, step),
           pc[r] \in Steps \ {"new", "log", "done"},
           step \in Steps \ {"new", "done"},
           step \in Unchecked => pc[r] \in Unchecked,
           step \in Cleared => pc[r] \in Unchecked \cup Cleared,
           kind[r] # "batch" => (step = "log" \/ pc[r] # "upstream")
    PROVE  Chains'
<1>1. /\ pc'[r] = step
      /\ \A s \in Requests \ {r} : pc'[s] = pc[s]
      /\ UNCHANGED <<kind, provider, estimate, terminated, replay, check, charged, job>>
    BY DEF Continue, Goto, Types, record, budget, timers
<1>2. Chain(r)
    BY DEF Chains
<1>3. Reserved(r)'
    BY <1>1, <1>2 DEF Chain, Reserved, EstimateOf, Unchecked, Cleared
<1>4. Accounted(r)'
    BY <1>1, <1>2 DEF Chain, Accounted
<1>5. kind[r] # "batch" => Closable(r)'
    BY <1>1, <1>2 DEF Chain, Closable
<1>6. Chain(r)'
    BY <1>1, <1>2, <1>3, <1>4, <1>5 DEF Chain
<1> QED
    BY <1>1, <1>6, Frame

LEMMA ReceiveChain ==
    ASSUME Types, Chains, NEW r \in Requests, Receive(r) \/ ReceiveBatch(r)
    PROVE  Chains'
<1>1. Chain(r) /\ pc[r] = "new" /\ kind[r] = "none" /\ check[r] = "none"
    BY DEF Chains, Chain, Reserved, Unchecked, Receive, ReceiveBatch
<1>2. /\ estimate[r] = None /\ charged[r] = None
      /\ job[r]["release"] = "none" /\ job[r]["closing"] = "none"
      /\ job[r]["ending"] = "none" /\ ~provider[r]
    BY <1>1 DEF Chain, Reserved, Accounted, Closable
<1>3. /\ UNCHANGED <<estimate, terminated, replay, check, charged, job>>
      /\ \A s \in Requests \ {r} :
            pc'[s] = pc[s] /\ kind'[s] = kind[s] /\ provider'[s] = provider[s]
    BY DEF Receive, ReceiveBatch, Goto, Types, budget, timers
<1>4. /\ pc'[r] \in {"guard", "budget"}
      /\ kind'[r] \in {"chat", "council", "batch"}
      /\ kind'[r] # "batch" => provider'[r] = provider[r]
    BY DEF Receive, ReceiveBatch, Goto, Types
<1>5. Chain(r)'
    BY <1>1, <1>2, <1>3, <1>4
    DEF Chain, Reserved, Accounted, Closable, Unchecked, Cleared
<1> QED
    BY <1>3, <1>5, Frame

LEMMA BudgetChain ==
    ASSUME Types, Chains, NEW r \in Requests,
           CheckBudget(r) \/ Admitted(r) \/ Blocked(r) \/ TimedOut(r)
    PROVE  Chains'
<1> USE DEF Steps, Unchecked, Cleared
<1>0. Chain(r)
    BY DEF Chains
<1>1. CASE CheckBudget(r)
  <2>1. CASE Continue(r, AfterBudget(r))
      BY <1>1, <2>1, ContinueChain DEF CheckBudget, AfterBudget
  <2>2. CASE ~Continue(r, AfterBudget(r))
    <3>1. /\ pc[r] = "budget" /\ pc'[r] = "checking" /\ check'[r] = "sent"
          /\ \A s \in Requests \ {r} : pc'[s] = pc[s] /\ check'[s] = check[s]
          /\ UNCHANGED <<kind, provider, estimate, terminated, replay, charged, job>>
        BY <1>1, <2>2 DEF CheckBudget, Goto, Types, record, timers
    <3>2. Chain(r)'
        BY <1>0, <3>1 DEF Chain, Reserved, Accounted, Closable
    <3> QED
        BY <3>1, <3>2, Frame
  <2> QED
      BY <2>1, <2>2
<1>2. CASE Admitted(r)
  <2>1. /\ pc[r] = "checking" /\ pc'[r] \in {"upstream", "policy"}
        /\ check[r] = "reserved" /\ estimate'[r] = EstimateOf(r)
        /\ \A s \in Requests \ {r} : pc'[s] = pc[s] /\ estimate'[s] = estimate[s]
        /\ UNCHANGED <<kind, provider, terminated, replay, check, charged, job>>
      BY <1>2 DEF Admitted, AfterBudget, Goto, Types, budget, timers
  <2>2. EstimateOf(r) # None
      BY GatewayAssumption DEF EstimateOf, None
  <2>3. Reserved(r)' /\ Accounted(r)'
      BY <1>0, <2>1, <2>2 DEF Chain, Reserved, Accounted, EstimateOf
  <2>4. kind[r] # "batch" => Closable(r)'
      BY <1>0, <2>1 DEF Chain, Closable
  <2>5. Chain(r)'
      BY <1>0, <2>1, <2>3, <2>4 DEF Chain
  <2> QED
      BY <2>1, <2>5, Frame
<1>3. CASE Blocked(r)
  <2>1. CASE kind[r] # "batch"
      BY <1>3, <2>1, TerminateChain DEF Blocked, Block
  <2>2. CASE kind[r] = "batch"
    <3>1. PICK taken \in SUBSET {"ending"} : Schedule(r, {"ending"}, taken)
        BY <1>3, <2>2 DEF Blocked, Block
    <3>2. /\ \A j \in Jobs : job'[r][j] = IF j \in taken THEN "queued" ELSE job[r][j]
          /\ \A s \in Requests \ {r} : job'[s] = job[s]
        BY <3>1, ScheduleJobs DEF Jobs
    <3>3. /\ pc[r] = "checking" /\ pc'[r] = "log"
          /\ \A s \in Requests \ {r} : pc'[s] = pc[s]
          /\ UNCHANGED <<kind, provider, estimate, terminated, replay, check, charged>>
        BY <1>3, <2>2 DEF Blocked, Block, Goto, Types, record, budget
    <3>4. job'[r]["release"] = job[r]["release"] /\ job'[r]["closing"] = job[r]["closing"]
        BY <3>2 DEF Jobs
    <3>5. Chain(r)'
        BY <1>0, <2>2, <3>3, <3>4 DEF Chain, Reserved, Accounted, EstimateOf
    <3> QED
        BY <3>2, <3>3, <3>5, Frame
  <2> QED
      BY <2>1, <2>2
<1>4. CASE TimedOut(r)
  <2>1. /\ pc[r] = "checking" /\ pc'[r] = "log"
        /\ \A s \in Requests \ {r} : pc'[s] = pc[s] /\ job'[s] = job[s]
        /\ UNCHANGED <<kind, provider, estimate, replay, check, charged>>
      BY <1>4 DEF TimedOut, FailClosed, Goto, Types, budget
  <2>2. /\ job'[r]["release"] = job[r]["release"]
        /\ job'[r]["closing"] = job[r]["closing"]
      BY <1>4 DEF TimedOut, FailClosed, Types, Jobs
  <2>3. /\ kind[r] # "batch" => terminated'[r] \/ job'[r]["ending"] = job[r]["ending"]
        /\ terminated[r] => terminated'[r]
        /\ \A s \in Requests \ {r} : terminated'[s] = terminated[s]
    <3>1. PICK taken \in SUBSET {"ending"} :
              /\ job' = [job EXCEPT ![r]["ending"] = IF taken = {} THEN @ ELSE "queued"]
              /\ IF kind[r] = "batch" THEN UNCHANGED terminated ELSE Marked(r, taken)
        BY <1>4 DEF TimedOut, FailClosed
    <3>2. taken = {} => job'[r]["ending"] = job[r]["ending"]
        BY <3>1 DEF Types, Jobs
    <3> QED
        BY <3>1, <3>2 DEF Marked, Types
  <2>4. Reserved(r)' /\ Accounted(r)'
      BY <1>0, <2>1, <2>2 DEF Chain, Reserved, Accounted, EstimateOf
  <2>5. kind[r] # "batch" => Closable(r)'
      BY <1>0, <2>1, <2>2, <2>3 DEF Chain, Closable, Accounted
  <2>6. Chain(r)'
      BY <1>0, <2>1, <2>4, <2>5 DEF Chain
  <2> QED
      BY <2>1, <2>3, <2>6, Frame
<1> QED
    BY <1>1, <1>2, <1>3, <1>4

LEMMA GateChain ==
    ASSUME Types, Chains, NEW r \in Requests, CouncilGate(r) \/ DispatchUpstream(r)
    PROVE  Chains'
<1> USE DEF Steps, Unchecked, Cleared
<1>0. Chain(r)
    BY DEF Chains
<1>1. CASE Continue(r, "log") \/ Continue(r, "dispatch")
    BY <1>1, ContinueChain DEF CouncilGate, DispatchUpstream
<1>2. CASE CouncilGate(r) /\ ~(Continue(r, "log") \/ Continue(r, "dispatch"))
  <2>1. PICK taken \in SUBSET {"ending"} : Schedule(r, {"ending"}, taken)
      BY <1>2 DEF CouncilGate
  <2>2. /\ \A j \in Jobs : job'[r][j] = IF j \in taken THEN "queued" ELSE job[r][j]
        /\ \A s \in Requests \ {r} : job'[s] = job[s]
      BY <2>1, ScheduleJobs DEF Jobs
  <2>3. /\ pc[r] = "gate" /\ pc'[r] = "log" /\ replay'[r]
        /\ \A s \in Requests \ {r} :
              pc'[s] = pc[s] /\ provider'[s] = provider[s] /\ replay'[s] = replay[s]
        /\ UNCHANGED <<kind, estimate, terminated, check, charged>>
      BY <1>2 DEF CouncilGate, Goto, Types, budget
  <2>4. job'[r]["release"] = job[r]["release"] /\ job'[r]["closing"] = job[r]["closing"]
      BY <2>2 DEF Jobs
  <2>5. Reserved(r)' /\ Accounted(r)'
      BY <1>0, <2>3, <2>4 DEF Chain, Reserved, Accounted, EstimateOf
  <2>6. kind[r] # "batch" => Closable(r)'
      BY <1>0, <2>3, <2>4 DEF Chain, Closable, Accounted
  <2>7. Chain(r)'
      BY <1>0, <2>3, <2>5, <2>6 DEF Chain
  <2> QED
      BY <2>2, <2>3, <2>7, Frame
<1>3. CASE DispatchUpstream(r) /\ ~Continue(r, "log")
  <2>1. /\ pc[r] = "dispatch" /\ pc'[r] = "upstream"
        /\ \A s \in Requests \ {r} : pc'[s] = pc[s] /\ provider'[s] = provider[s]
        /\ UNCHANGED <<kind, estimate, terminated, replay, check, charged, job>>
      BY <1>3 DEF DispatchUpstream, Goto, Types, budget, timers
  <2>2. Reserved(r)' /\ Accounted(r)'
      BY <1>0, <2>1 DEF Chain, Reserved, Accounted, EstimateOf
  <2>3. kind[r] # "batch" => Closable(r)'
      BY <1>0, <2>1 DEF Chain, Closable
  <2>4. Chain(r)'
      BY <1>0, <2>1, <2>2, <2>3 DEF Chain
  <2> QED
      BY <2>1, <2>4, Frame
<1> QED
    BY <1>1, <1>2, <1>3

\* The log phase schedules a terminator only if the access phase did not.
LEMMA AccountChain ==
    ASSUME Types, Chains, NEW r \in Requests, Account(r)
    PROVE  Chains'
<1>0. Chain(r)
    BY DEF Chains
<1>1. PICK taken \in SUBSET ClosingTimers(r) :
          /\ Schedule(r, ClosingTimers(r), taken)
          /\ terminated' = [terminated EXCEPT ![r] =
                                @ \/ (~provider[r] /\ "closing" \in taken)]
    BY DEF Account
<1>2. ClosingTimers(r) \in SUBSET Jobs /\ "ending" \notin ClosingTimers(r)
    BY DEF ClosingTimers, ReleaseOf, RejectedRow, Jobs
<1>3. /\ \A j \in Jobs : job'[r][j] = IF j \in taken THEN "queued" ELSE job[r][j]
      /\ \A s \in Requests \ {r} : job'[s] = job[s]
    BY <1>1, <1>2, ScheduleJobs
<1>4. /\ pc[r] = "log" /\ pc'[r] = "done"
      /\ \A s \in Requests \ {r} : pc'[s] = pc[s] /\ terminated'[s] = terminated[s]
      /\ terminated[r] => terminated'[r]
      /\ UNCHANGED <<kind, provider, estimate, replay, check, charged>>
    BY <1>1 DEF Account, Goto, Types, budget
<1>5. /\ job'[r]["ending"] = job[r]["ending"]
      /\ job'[r]["release"] # "none" => ~provider[r] /\ estimate[r] # None
      /\ job'[r]["closing"] # "none" => "closing" \in ClosingTimers(r)
  <2>1. job[r]["release"] = "none" /\ job[r]["closing"] = "none"
      BY <1>0, <1>4 DEF Chain, Accounted
  <2>2. "release" \in taken => ~provider[r] /\ estimate[r] # None
      BY DEF ClosingTimers, ReleaseOf, RejectedRow
  <2> QED
      BY <1>2, <1>3, <2>1, <2>2 DEF Jobs
<1>6. Reserved(r)' /\ Accounted(r)'
    BY <1>0, <1>4, <1>5
    DEF Chain, Reserved, Accounted, EstimateOf, Unchecked, Cleared
<1>7. ASSUME kind[r] # "batch" PROVE Closable(r)'
  <2>1. "closing" \in ClosingTimers(r) => ~replay[r] /\ (provider[r] \/ ~terminated[r])
      BY DEF ClosingTimers, ReleaseOf, RejectedRow
  <2>2. Closable(r)
      BY <1>0, <1>7 DEF Chain
  <2>3. job'[r]["ending"] = "none" \/ job'[r]["closing"] = "none"
      BY <1>5, <2>1, <2>2 DEF Closable
  <2> QED
      BY <1>4, <1>5, <2>2, <2>3 DEF Closable
<1>8. Chain(r)'
    BY <1>0, <1>4, <1>6, <1>7 DEF Chain
<1> QED
    BY <1>3, <1>4, <1>8, Frame

LEMMA SidecarChain ==
    ASSUME Types, Chains, NEW r \in Requests, Reserve(r) \/ Deny(r)
    PROVE  Chains'
<1>1. /\ check[r] = "sent"
      /\ \A s \in Requests \ {r} : check'[s] = check[s]
      /\ UNCHANGED <<pc, kind, provider, estimate, terminated, replay, charged, job>>
    BY DEF Reserve, Deny, Types, record, timers
<1>2. Chain(r)
    BY DEF Chains
<1>3. Reserved(r)'
    BY <1>1, <1>2 DEF Chain, Reserved, EstimateOf, Unchecked, Cleared
<1>4. Accounted(r)' /\ (kind[r] # "batch" => Closable(r)')
    BY <1>1, <1>2 DEF Chain, Accounted, Closable
<1>5. Chain(r)'
    BY <1>1, <1>2, <1>3, <1>4 DEF Chain
<1> QED
    BY <1>1, <1>5, Frame

\* A timer that runs was scheduled, and settles what the log phase left to it.
LEMMA TimerChain ==
    ASSUME Types, Chains, NEW r \in Requests, NEW j \in Jobs,
           Timer(r, j) \/ Premature(r, j)
    PROVE  Chains'
<1>0. Chain(r)
    BY DEF Chains
<1>1. job[r][j] \in {"queued", "running"}
    BY DEF Timer, Premature, Settle, SettleLost, Write, WriteFails, Writing
<1>2. PICK step \in {"running", "over"} : job' = [job EXCEPT ![r][j] = step]
    BY DEF Timer, Premature, Settle, SettleLost, Write, WriteFails, AfterSettle
<1>3. /\ \A s \in Requests \ {r} : job'[s] = job[s]
      /\ \A k \in Jobs : job'[r][k] # "none" <=> job[r][k] # "none"
    BY <1>1, <1>2 DEF Types
<1>4. UNCHANGED <<pc, kind, provider, estimate, terminated, replay, check>>
    BY DEF Timer, Premature, Settle, SettleLost, Write, WriteFails, record, budget
<1>5. /\ \A s \in Requests \ {r} : charged'[s] = charged[s]
      /\ charged'[r] # None => charged[r] # None \/ Settles(r, j)
  <2>1. CASE Settle(r, j)
      BY <2>1 DEF Settle, Types
  <2>2. CASE ~Settle(r, j)
      BY <2>2 DEF Timer, Premature, SettleLost, Write, WriteFails, budget
  <2> QED
      BY <2>1, <2>2
<1>6. Settles(r, j) => estimate[r] # None /\ pc[r] = "done"
    BY <1>0, <1>1 DEF Settles, Chain, Accounted
<1>7. Reserved(r)' /\ Accounted(r)'
    BY <1>0, <1>3, <1>4, <1>5, <1>6 DEF Chain, Reserved, Accounted, EstimateOf, Jobs
<1>8. kind[r] # "batch" => Closable(r)'
    BY <1>0, <1>3, <1>4 DEF Chain, Closable, Jobs
<1>9. Chain(r)'
    BY <1>0, <1>4, <1>7, <1>8 DEF Chain
<1> QED
    BY <1>3, <1>4, <1>5, <1>9, Frame

LEMMA ChainsKept == Types /\ Chains /\ [Next]_vars => Chains'
<1> SUFFICES ASSUME Types, Chains, [Next]_vars PROVE Chains'
    OBVIOUS
<1>1. ASSUME NEW r \in Requests, Handler(r) PROVE Chains'
  <2> USE DEF Steps, Unchecked, Cleared
  <2>1. CASE EnforceInputGuard(r)
      BY <2>1, TerminateChain, ContinueChain DEF EnforceInputGuard
  <2>2. CASE TryServeCached(r)
      BY <2>2, TerminateChain, ContinueChain DEF TryServeCached
  <2>3. CASE ResolveRoute(r)
      BY <2>3, TerminateChain, ContinueChain DEF ResolveRoute
  <2>4. CASE CheckPolicy(r)
      BY <2>4, TerminateChain, ContinueChain DEF CheckPolicy
  <2>5. CASE Respond(r)
      BY <2>5, ContinueChain DEF Respond
  <2> QED
      BY <1>1, <2>1, <2>2, <2>3, <2>4, <2>5, BudgetChain, GateChain, AccountChain
      DEF Handler
<1>2. ASSUME NEW r \in Requests, Abort(r) PROVE Chains'
    BY <1>2, ContinueChain DEF Abort, Steps, Unchecked, Cleared
<1>3. CASE UNCHANGED vars
  <2>1. ASSUME NEW s \in Requests PROVE Chain(s)'
      BY <1>3, OtherChain DEF Chains, vars, record, budget, timers
  <2> QED
      BY <2>1 DEF Chains
<1> QED
    BY <1>1, <1>2, <1>3, ReceiveChain, SidecarChain, TimerChain DEF Next, Step

(***************************************************************************)
(* Theorems                                                                *)
(***************************************************************************)
LEMMA Invariants == Spec => [](Types /\ Chains)
<1>1. Init => Types /\ Chains
    BY InitTypes, InitChains
<1>2. Types /\ Chains /\ [Next]_vars => (Types /\ Chains)'
    BY TypesKept, ChainsKept
<1> QED
    BY <1>1, <1>2, PTL DEF Spec

\* Every reachable state is well typed; an estimate is on a record only after its
\* reservation (check_budget), and the log phase releases only what a request that
\* reached no provider had reserved.
THEOREM TypeCorrect == Spec => []TypeOK
<1> DEFINE Requested == deserted \in SUBSET Requests
<1>1. Types /\ Chains /\ Requested => TypeOK
    BY DEF Types, Chains, Chain, Reserved, Accounted, TypeOK
<1>2. Init => Requested
    BY DEF Init
<1>3. Requested /\ [Next]_vars => Requested'
    BY DEF Next, Abort, vars
<1> QED
    BY <1>1, <1>2, <1>3, Invariants, PTL DEF Spec

\* No request is proxied between a check that was sent and its answer, nor after
\* one that was denied or timed out.
THEOREM NoUnreservedDispatch == Spec => []DispatchReserved
<1>1. Types /\ Chains => DispatchReserved
    BY DEF Chains, Chain, Reserved, Cleared, DispatchReserved
<1> QED
    BY <1>1, Invariants, PTL

\* schedule_terminator and account never both schedule the terminator of a chat.
THEOREM TerminatorsExclude == Spec => []OneTerminator
<1>1. Types /\ Chains => OneTerminator
    BY DEF Chains, Chain, Closable, OneTerminator
<1> QED
    BY <1>1, Invariants, PTL

(***************************************************************************)
(* The budget                                                              *)
(***************************************************************************)
\* What a request was charged has no second timer to replace it.
Once(r) == charged[r] # None => \A j \in Jobs : Settles(r, j) => job[r][j] # "queued"

BudgetInv ==
    /\ \A r \in Requests : Once(r)
    /\ SpendMatchesRequests
    /\ WithinLimit

LEMMA Amounts ==
    ASSUME Types
    PROVE  /\ Owed \in [Requests -> Nat] /\ Overrun \in [Requests -> Nat]
           /\ \A r \in Requests : EstimateOf(r) \in Nat
           /\ IsFiniteSet(Requests) /\ Limit \in Nat
<1>1. \A r \in Requests : EstimateOf(r) \in Nat
    BY GatewayAssumption DEF EstimateOf
<1>2. ASSUME NEW r \in Requests, charged[r] # None PROVE charged[r] \in Nat
  <2>1. charged[r] \in {None, 0} \cup Costs
      BY DEF Types
  <2> QED
    <3>1. Costs \subseteq Nat /\ 0 \in Nat
        BY GatewayAssumption
    <3> QED
        BY <1>2, <2>1, <3>1, Zenon
<1>3. \A r \in Requests :
        charged[r] # None /\ charged[r] > EstimateOf(r) => charged[r] - EstimateOf(r) \in Nat
    BY <1>1, <1>2
<1> QED
    BY <1>1, <1>2, <1>3, GatewayAssumption DEF Owed, Overrun

\* Only Reserve and Settle touch what requests owe.
LEMMA OwedByOthers ==
    ASSUME Types, Chains, [Next]_vars,
           ~ \E r \in Requests : Reserve(r) \/ \E j \in Jobs : Settle(r, j)
    PROVE  /\ spent' = spent /\ charged' = charged
           /\ \A r \in Requests : /\ check'[r] = "reserved" <=> check[r] = "reserved"
                                  /\ kind'[r] = kind[r] \/ (check[r] = "none" /\ pc[r] = "new")
<1>1. CASE UNCHANGED vars
    BY <1>1 DEF vars, record, budget
<1>2. ASSUME NEW r \in Requests, CheckBudget(r)
      PROVE  /\ UNCHANGED <<spent, charged, kind>>
             /\ check'[r] # "reserved" \/ check' = check
             /\ \A s \in Requests \ {r} : check'[s] = check[s]
             /\ check[r] = "none"
  <2>1. check[r] = "none"
      BY <1>2 DEF CheckBudget, Chains, Chain, Reserved, Unchecked
  <2>2. CASE Continue(r, AfterBudget(r))
      BY <2>1, <2>2 DEF Continue, budget, record
  <2>3. CASE ~Continue(r, AfterBudget(r))
      BY <1>2, <2>1, <2>3 DEF CheckBudget, record, Types
  <2> QED
      BY <2>2, <2>3
<1>3. ASSUME NEW r \in Requests, Handler(r), ~CheckBudget(r)
      PROVE  UNCHANGED <<spent, charged, kind, check>>
    BY <1>3 DEF Handler, EnforceInputGuard, TryServeCached, ResolveRoute, Admitted, Blocked,
       Block, TimedOut, FailClosed, CheckPolicy, CouncilGate, DispatchUpstream, Respond,
       Account, Terminate, Continue, budget, record
<1>4. ASSUME NEW r \in Requests, Receive(r) \/ ReceiveBatch(r)
      PROVE  /\ UNCHANGED <<spent, charged, check>>
             /\ check[r] = "none" /\ pc[r] = "new"
             /\ \A s \in Requests \ {r} : kind'[s] = kind[s]
    BY <1>4 DEF Receive, ReceiveBatch, budget, Types, Chains, Chain, Reserved, Unchecked
<1>5. ASSUME NEW r \in Requests, Abort(r) PROVE UNCHANGED <<spent, charged, kind, check>>
    BY <1>5 DEF Abort, Continue, budget, record
<1>6. ASSUME NEW r \in Requests, Deny(r)
      PROVE  /\ UNCHANGED <<spent, charged, kind>>
             /\ check[r] # "reserved" /\ check'[r] # "reserved"
             /\ \A s \in Requests \ {r} : check'[s] = check[s]
    BY <1>6 DEF Deny, record, Types
<1>7. ASSUME NEW r \in Requests, NEW j \in Jobs, Timer(r, j) \/ Premature(r, j),
             ~Settle(r, j)
      PROVE  UNCHANGED <<spent, charged, kind, check>>
    BY <1>7 DEF Timer, SettleLost, Write, WriteFails, Premature, budget, record
<1>8. CASE \E r \in Requests : CheckBudget(r)
    BY <1>8, <1>2
<1>9. CASE \E r \in Requests : Receive(r) \/ ReceiveBatch(r)
    BY <1>9, <1>4
<1>10. CASE \E r \in Requests : Deny(r)
    BY <1>10, <1>6
<1> QED
    BY <1>1, <1>3, <1>5, <1>7, <1>8, <1>9, <1>10 DEF Next, Step

LEMMA OthersKeepSums ==
    ASSUME Types, Chains, [Next]_vars,
           ~ \E r \in Requests : Reserve(r) \/ \E j \in Jobs : Settle(r, j)
    PROVE  Owed' = Owed /\ Overrun' = Overrun /\ spent' = spent
<1>1. \A r \in Requests : kind'[r] # kind[r] => check[r] = "none" /\ charged[r] = None
    BY OwedByOthers DEF Chains, Chain, Accounted
<1>2. \A r \in Requests : EstimateOf(r)' = EstimateOf(r) \/ (check[r] = "none" /\ charged[r] = None)
    BY <1>1 DEF EstimateOf
<1>3. Owed' = Owed
    BY <1>2, OwedByOthers DEF Owed
<1>4. Overrun' = Overrun
    BY <1>2, OwedByOthers DEF Overrun
<1> QED
    BY <1>3, <1>4, OwedByOthers

\* A request whose check is out owes nothing, and then its estimate.
LEMMA ReserveSums ==
    ASSUME Types, Types', Chains, NEW r \in Requests, Reserve(r)
    PROVE  /\ SumFunction(Owed') = SumFunction(Owed) + EstimateOf(r)
           /\ Overrun' = Overrun
           /\ spent' = spent + EstimateOf(r) /\ spent + EstimateOf(r) <= Limit
<1>1. /\ check[r] = "sent" /\ check'[r] = "reserved"
      /\ \A s \in Requests \ {r} : check'[s] = check[s]
      /\ UNCHANGED <<kind, charged>>
      /\ spent' = spent + EstimateOf(r) /\ spent + EstimateOf(r) <= Limit
    BY DEF Reserve, Fits, record, Types
<1>2. charged[r] = None
    BY <1>1 DEF Chains, Chain, Reserved, Accounted
<1>3. Owed[r] = 0 /\ Owed'[r] = EstimateOf(r) /\ \A s \in Requests \ {r} : Owed'[s] = Owed[s]
    BY <1>1, <1>2 DEF Owed, EstimateOf
<1>4. /\ Owed \in [Requests -> Int] /\ Owed' \in [Requests -> Int]
      /\ IsFiniteSet(Requests) /\ EstimateOf(r) \in Int
  <2>1. Owed \in [Requests -> Nat] /\ EstimateOf(r) \in Nat /\ IsFiniteSet(Requests)
      BY Amounts
  <2>2. Owed' = [s \in Requests |-> IF s = r THEN EstimateOf(r) ELSE Owed[s]]
      BY <1>3 DEF Owed
  <2> QED
      BY <2>1, <2>2
<1>5. SumFunction(Owed') = SumFunction(Owed) - Owed[r] + Owed'[r]
    BY <1>3, <1>4, SumOfUpdate
<1>6. SumFunction(Owed) \in Int
    BY Amounts, SumOfNats
<1>7. Overrun' = Overrun
    BY <1>1 DEF Overrun, EstimateOf
<1> QED
    BY <1>1, <1>3, <1>4, <1>5, <1>6, <1>7

\* A reservation that is settled was made and not settled before, so that the spend
\* is never raised to zero and moves by the cost and the estimate.
LEMMA SettleSums ==
    ASSUME Types, Chains, BudgetInv, NEW r \in Requests, NEW j \in Jobs, Settle(r, j)
    PROVE  \E c \in {0} \cup Costs :
              /\ check[r] = "reserved" /\ charged[r] = None /\ c # None
              /\ charged' = [charged EXCEPT ![r] = c]
              /\ UNCHANGED <<kind, check>>
              /\ spent' = spent - EstimateOf(r) + c
              /\ SumFunction(Owed') = SumFunction(Owed) - EstimateOf(r) + c
              /\ SumFunction(Overrun') = SumFunction(Overrun)
                     + (IF c > EstimateOf(r) THEN c - EstimateOf(r) ELSE 0)
<1>1. PICK c \in {0} \cup Costs :
        spent' = SpendAfter(r, c) /\ charged' = [charged EXCEPT ![r] = c]
    BY DEF Settle
<1>2. job[r][j] = "queued" /\ Settles(r, j) /\ UNCHANGED <<kind, check>>
    BY DEF Settle, record
<1>3. charged[r] = None
    BY <1>2 DEF BudgetInv, Once
<1>4. estimate[r] # None
    BY <1>2 DEF Settles, Chains, Chain, Accounted
<1>5. check[r] = "reserved" /\ estimate[r] = EstimateOf(r)
    BY <1>4 DEF Chains, Chain, Reserved
<1> DEFINE e == EstimateOf(r)
           over == IF c > e THEN c - e ELSE 0
           f == Owed
           g == Owed'
           o == Overrun
           p == Overrun'
<1>6. c \in Nat /\ c # None /\ e \in Nat /\ spent \in Nat
    BY GatewayAssumption, Amounts DEF Types, None
<1>7. /\ f \in [Requests -> Nat] /\ o \in [Requests -> Nat] /\ IsFiniteSet(Requests)
      /\ f[r] = e /\ o[r] = 0
    BY Amounts, <1>3, <1>5 DEF Owed, Overrun
<1>8. /\ charged'[r] = c
      /\ \A s \in Requests \ {r} : charged'[s] = charged[s]
    BY <1>1 DEF Types
<1>9. g = [s \in Requests |-> IF s = r THEN c ELSE f[s]]
    BY <1>2, <1>5, <1>6, <1>8 DEF Owed, EstimateOf
<1>10. p = [s \in Requests |-> IF s = r THEN over ELSE o[s]]
    BY <1>2, <1>6, <1>8 DEF Overrun, EstimateOf
<1>11. over \in Nat
    BY <1>6
<1>12. spent = SumFunction(f)
    BY DEF BudgetInv, SpendMatchesRequests
<1> HIDE DEF e, over, f, g, o, p
<1>13. /\ f \in [Requests -> Int] /\ g \in [Requests -> Int]
       /\ o \in [Requests -> Int] /\ p \in [Requests -> Int]
    BY <1>6, <1>7, <1>9, <1>10, <1>11
<1>14. SumFunction(f) >= e
    BY <1>7, SumAtLeastOne
<1>15. SumFunction(g) = SumFunction(f) - e + c
  <2>1. g[r] = c /\ \A s \in Requests \ {r} : g[s] = f[s]
      BY <1>9
  <2> QED
      BY <1>7, <1>13, <2>1, SumOfUpdate
<1>16. SumFunction(p) = SumFunction(o) - 0 + over
  <2>1. p[r] = over /\ \A s \in Requests \ {r} : p[s] = o[s]
      BY <1>10
  <2> QED
      BY <1>7, <1>13, <2>1, SumOfUpdate
<1>17. SumFunction(o) \in Nat
    BY <1>7, SumOfNats
<1>18. spent' = spent - e + c
    BY <1>1, <1>5, <1>6, <1>12, <1>14 DEF SpendAfter, e
<1>19. SumFunction(p) = SumFunction(o) + over
    BY <1>11, <1>16, <1>17
<1> QED
    BY <1>1, <1>2, <1>3, <1>5, <1>6, <1>15, <1>18, <1>19 DEF e, over, f, g, o, p

\* The handler of a request works on its own record, and no longer once it is done.
LEMMA HandlerOfOne ==
    ASSUME Types, NEW r \in Requests, Handler(r) \/ Abort(r) \/ Receive(r) \/ ReceiveBatch(r)
    PROVE  /\ pc[r] # "done"
           /\ charged' = charged
           /\ \A s \in Requests \ {r} :
                 UNCHANGED <<kind[s], provider[s], estimate[s], job[s]>>
<1> USE DEF Types
<1>1. ASSUME NEW step, Continue(r, step)
      PROVE  UNCHANGED <<kind, provider, estimate, job, charged>>
    BY <1>1 DEF Continue, record, timers, budget
<1>2. ASSUME NEW new \in SUBSET Jobs, NEW taken, Schedule(r, new, taken)
      PROVE  \A s \in Requests \ {r} : job'[s] = job[s]
    BY <1>2 DEF Schedule
<1>3. ASSUME Terminate(r)
      PROVE  /\ UNCHANGED <<kind, provider, estimate, charged>>
             /\ \A s \in Requests \ {r} : job'[s] = job[s]
    BY <1>2, <1>3 DEF Terminate, budget, Jobs
<1>4. CASE EnforceInputGuard(r) \/ TryServeCached(r) \/ ResolveRoute(r) \/ CheckPolicy(r)
           \/ Respond(r) \/ Abort(r)
    BY <1>1, <1>3, <1>4
    DEF EnforceInputGuard, TryServeCached, ResolveRoute, CheckPolicy, Respond, Abort
<1>5. CASE CheckBudget(r)
    BY <1>1, <1>5 DEF CheckBudget, record, timers
<1>6. CASE Admitted(r)
    BY <1>6 DEF Admitted, budget, timers
<1>7. CASE Blocked(r)
  <2>1. CASE Terminate(r)
      BY <1>3, <1>7, <2>1 DEF Blocked
  <2>2. CASE ~Terminate(r)
      BY <1>2, <1>7, <2>2 DEF Blocked, Block, record, budget, Jobs
  <2> QED
      BY <2>1, <2>2
<1>8. CASE TimedOut(r)
    BY <1>8 DEF TimedOut, FailClosed, budget
<1>9. CASE CouncilGate(r)
  <2>1. CASE Continue(r, "log") \/ Continue(r, "dispatch")
      BY <1>1, <1>9, <2>1 DEF CouncilGate
  <2>2. CASE ~(Continue(r, "log") \/ Continue(r, "dispatch"))
      BY <1>2, <1>9, <2>2 DEF CouncilGate, budget, Jobs
  <2> QED
      BY <2>1, <2>2
<1>10. CASE DispatchUpstream(r)
    BY <1>1, <1>10 DEF DispatchUpstream, budget, timers
<1>11. CASE Account(r)
  <2>1. ClosingTimers(r) \in SUBSET Jobs
      BY DEF ClosingTimers, ReleaseOf, RejectedRow, Jobs
  <2> QED
      BY <1>2, <1>11, <2>1 DEF Account, budget
<1>12. CASE Receive(r) \/ ReceiveBatch(r)
    BY <1>12 DEF Receive, ReceiveBatch, budget, timers
<1> QED
    BY <1>4, <1>5, <1>6, <1>7, <1>8, <1>9, <1>10, <1>11, <1>12 DEF Handler

\* Of the two timers that may settle, a provider answered for one and none for the
\* other, and a request that was accounted for gets no new ones.
LEMMA OnceKept ==
    ASSUME Types, Chains, [Next]_vars, \A r \in Requests : Once(r)
    PROVE  \A r \in Requests : Once(r)'
<1> TAKE r \in Requests
<1>0. Once(r)
    OBVIOUS
<1>1. ASSUME UNCHANGED <<kind[r], provider[r], estimate[r]>>, charged'[r] = charged[r],
             charged[r] # None =>
                 \A j \in Jobs : job'[r][j] = "queued" => job[r][j] = "queued"
      PROVE  Once(r)'
    BY <1>0, <1>1 DEF Once, Settles
<1>2. CASE UNCHANGED vars
    BY <1>1, <1>2 DEF vars, record, budget, timers
<1>3. ASSUME NEW s \in Requests, Handler(s) \/ Abort(s) \/ Receive(s) \/ ReceiveBatch(s)
      PROVE  Once(r)'
  <2>1. CASE s = r
    <3>1. charged[r] = None /\ charged' = charged
        BY <1>3, <2>1, HandlerOfOne DEF Chains, Chain, Accounted
    <3> QED
        BY <3>1 DEF Once
  <2>2. CASE s # r
      BY <1>1, <1>3, <2>2, HandlerOfOne
  <2> QED
      BY <2>1, <2>2
<1>4. ASSUME NEW s \in Requests, Reserve(s) \/ Deny(s) PROVE Once(r)'
    BY <1>1, <1>4 DEF Reserve, Deny, record, timers
<1>5. ASSUME NEW s \in Requests, NEW j \in Jobs, Timer(s, j) \/ Premature(s, j)
      PROVE  Once(r)'
  <2>1. UNCHANGED <<kind, provider, estimate>>
      BY <1>5 DEF Timer, Settle, SettleLost, Write, WriteFails, Premature, record
  <2>2. \E step \in {"running", "over"} : job' = [job EXCEPT ![s][j] = step]
      BY <1>5 DEF Timer, Settle, SettleLost, Write, WriteFails, Premature, AfterSettle
  <2>3. job'[s][j] # "queued"
        /\ \A k \in Jobs : job'[r][k] = "queued" => job[r][k] = "queued"
      BY <2>2 DEF Types
  <2>4. CASE ~Settle(s, j)
    <3>1. charged' = charged
        BY <1>5, <2>4 DEF Timer, SettleLost, Write, WriteFails, Premature, budget
    <3> QED
        BY <1>1, <2>1, <2>3, <3>1
  <2>5. CASE Settle(s, j) /\ s # r
    <3>1. charged'[r] = charged[r]
        BY <2>5 DEF Settle, Types
    <3> QED
        BY <1>1, <2>1, <2>3, <3>1
  <2>6. CASE Settle(s, j) /\ s = r
    <3>1. job[r][j] = "queued" /\ Settles(r, j)
        BY <2>6 DEF Settle
    <3>2. Accounted(r)
        BY DEF Chains, Chain
    <3>3. \A k \in Jobs : Settles(r, k) /\ job[r][k] = "queued" => k = j
        BY <3>1, <3>2 DEF Accounted, Settles
    <3> QED
        BY <2>1, <2>3, <2>6, <3>3 DEF Once, Settles
  <2> QED
      BY <2>4, <2>5, <2>6
<1> QED
    BY <1>2, <1>3, <1>4, <1>5 DEF Next, Step

LEMMA InitBudget == Init => BudgetInv
<1> SUFFICES ASSUME Init PROVE BudgetInv
    OBVIOUS
<1> DEFINE zeros == [r \in Requests |-> 0]
<1>1. Owed = zeros /\ Overrun = zeros /\ \A r \in Requests : Once(r)
    BY DEF Init, Owed, Overrun, Once
<1>2. SumFunction(zeros) = 0
    BY GatewayAssumption, SumOfZeros
<1>3. spent = 0 /\ Limit \in Nat
    BY GatewayAssumption DEF Init
<1> HIDE DEF zeros
<1> QED
    BY <1>1, <1>2, <1>3 DEF BudgetInv, SpendMatchesRequests, WithinLimit

LEMMA BudgetKept ==
    ASSUME Types, Types', Chains, BudgetInv, [Next]_vars
    PROVE  BudgetInv'
<1>1. \A r \in Requests : Once(r)'
    BY OnceKept DEF BudgetInv
<1>2. /\ spent \in Nat /\ Limit \in Nat /\ SumFunction(Overrun) \in Nat
      /\ spent = SumFunction(Owed) /\ spent <= Limit + SumFunction(Overrun)
    BY Amounts, SumOfNats DEF Types, BudgetInv, SpendMatchesRequests, WithinLimit
<1>3. ASSUME NEW r \in Requests, Reserve(r)
      PROVE  spent' = SumFunction(Owed') /\ spent' <= Limit + SumFunction(Overrun')
  <2>1. EstimateOf(r) \in Nat
      BY Amounts
  <2>2. /\ SumFunction(Owed') = SumFunction(Owed) + EstimateOf(r)
        /\ Overrun' = Overrun
        /\ spent' = spent + EstimateOf(r) /\ spent + EstimateOf(r) <= Limit
      BY <1>3, ReserveSums
  <2> QED
      BY <1>2, <2>1, <2>2
<1>4. ASSUME NEW r \in Requests, NEW j \in Jobs, Settle(r, j)
      PROVE  spent' = SumFunction(Owed') /\ spent' <= Limit + SumFunction(Overrun')
  <2>1. PICK c \in {0} \cup Costs :
            /\ spent' = spent - EstimateOf(r) + c
            /\ SumFunction(Owed') = SumFunction(Owed) - EstimateOf(r) + c
            /\ SumFunction(Overrun') = SumFunction(Overrun)
                   + (IF c > EstimateOf(r) THEN c - EstimateOf(r) ELSE 0)
      BY <1>4, SettleSums
  <2>2. c \in Nat /\ EstimateOf(r) \in Nat
      BY GatewayAssumption, Amounts
  <2> QED
      BY <1>2, <2>1, <2>2
<1>5. ASSUME ~ \E r \in Requests : Reserve(r) \/ \E j \in Jobs : Settle(r, j)
      PROVE  spent' = SumFunction(Owed') /\ spent' <= Limit + SumFunction(Overrun')
  <2>1. Owed' = Owed /\ Overrun' = Overrun /\ spent' = spent
      BY <1>5, OthersKeepSums
  <2> QED
      BY <1>2, <2>1
<1>6. spent' = SumFunction(Owed') /\ spent' <= Limit + SumFunction(Overrun')
    BY <1>3, <1>4, <1>5
<1> QED
    BY <1>1, <1>6 DEF BudgetInv, SpendMatchesRequests, WithinLimit

LEMMA BudgetInvariant == Spec => []BudgetInv
<1>1. Types /\ Chains /\ BudgetInv /\ [Next]_vars => BudgetInv'
    BY BudgetKept, TypesKept
<1> QED
    BY <1>1, InitBudget, Invariants, PTL DEF Spec

\* spent_usd is what requests hold and were charged, through every order of checks,
\* answers, time-outs, aborts and timers: a reservation is replaced once.
THEOREM SpendExact == Spec => []SpendMatchesRequests
<1>1. BudgetInv => SpendMatchesRequests
    BY DEF BudgetInv
<1> QED
    BY <1>1, BudgetInvariant, PTL

\* Requests checked at the same time stay within the limit between them, but for
\* answers dearer than their estimates.
THEOREM LimitHolds == Spec => []WithinLimit
<1>1. BudgetInv => WithinLimit
    BY DEF BudgetInv
<1> QED
    BY <1>1, BudgetInvariant, PTL

(***************************************************************************)
(* The account of reservations                                             *)
(***************************************************************************)
LEMMA InitAccount == Init => BudgetState!Init
    BY DEF Init, BudgetState!Init

\* What requests hold decides which step of the account a step of the gateway is.
LEMMA StepAccount ==
    ASSUME Types, Types', Chains, BudgetInv, [Next]_vars
    PROVE  [BudgetState!Next]_(BudgetState!vars)
<1> DEFINE Held(r) == IF check[r] = "reserved" /\ charged[r] = None
                      THEN EstimateOf(r) ELSE None
           h == [r \in Requests |-> Held(r)]
           Amts == {0, Estimate} \cup Costs
<1> SUFFICES
        \/ UNCHANGED <<h, spent>>
        \/ \E r \in Requests, a \in Amts :
              \/ /\ h[r] = None /\ spent + a <= Limit
                 /\ h' = [h EXCEPT ![r] = a] /\ spent' = spent + a
              \/ /\ h[r] # None /\ h' = [h EXCEPT ![r] = None]
                 /\ spent' = spent - h[r] + a
    BY DEF BudgetState!Next, BudgetState!vars, BudgetState!Reserve, BudgetState!Settle
<1>1. ASSUME NEW r \in Requests, Reserve(r)
      PROVE  \E a \in Amts : /\ h[r] = None /\ spent + a <= Limit
                             /\ h' = [h EXCEPT ![r] = a] /\ spent' = spent + a
  <2>1. /\ check[r] = "sent" /\ check' = [check EXCEPT ![r] = "reserved"]
        /\ UNCHANGED <<kind, charged>>
        /\ spent' = spent + EstimateOf(r) /\ spent + EstimateOf(r) <= Limit
      BY <1>1 DEF Reserve, Fits, record
  <2>2. charged[r] = None
      BY <2>1 DEF Chains, Chain, Reserved, Accounted
  <2>3. h[r] = None
      BY <2>1
  <2>4. h' = [s \in Requests |-> IF s = r THEN EstimateOf(r) ELSE h[s]]
      BY <2>1, <2>2 DEF Types, EstimateOf
  <2>5. h' = [h EXCEPT ![r] = EstimateOf(r)]
      BY <2>4
  <2>6. EstimateOf(r) \in Amts
      BY DEF EstimateOf
  <2> HIDE DEF h
  <2> QED
      BY <2>1, <2>3, <2>5, <2>6
<1>2. ASSUME NEW r \in Requests, NEW j \in Jobs, Settle(r, j)
      PROVE  \E a \in Amts : /\ h[r] # None /\ h' = [h EXCEPT ![r] = None]
                             /\ spent' = spent - h[r] + a
  <2>1. PICK c \in {0} \cup Costs :
            /\ check[r] = "reserved" /\ charged[r] = None /\ c # None
            /\ charged' = [charged EXCEPT ![r] = c]
            /\ UNCHANGED <<kind, check>>
            /\ spent' = spent - EstimateOf(r) + c
      BY <1>2, SettleSums
  <2>2. h[r] = EstimateOf(r) /\ EstimateOf(r) \in Nat
      BY <2>1, Amounts
  <2>3. h' = [s \in Requests |-> IF s = r THEN None ELSE h[s]]
      BY <2>1 DEF Types, EstimateOf
  <2>4. h' = [h EXCEPT ![r] = None]
      BY <2>3
  <2>5. h[r] # None
      BY <2>2 DEF None
  <2> HIDE DEF h
  <2> QED
      BY <2>1, <2>2, <2>4, <2>5
<1>3. ASSUME ~ \E r \in Requests : Reserve(r) \/ \E j \in Jobs : Settle(r, j)
      PROVE  UNCHANGED <<h, spent>>
  <2>1. ASSUME NEW r \in Requests PROVE Held(r)' = Held(r)
    <3>1. /\ charged' = charged /\ (check'[r] = "reserved" <=> check[r] = "reserved")
          /\ check[r] = "reserved" => kind'[r] = kind[r]
        BY <1>3, OwedByOthers
    <3> QED
        BY <3>1 DEF EstimateOf
  <2>2. spent' = spent
      BY <1>3, OwedByOthers
  <2> QED
      BY <2>1, <2>2
<1> HIDE DEF h, Amts
<1> QED
    BY <1>1, <1>2, <1>3

\* budget_state is an account: a reservation is taken within the limit and replaced
\* once, whatever times out, is lost, is refused or comes late.
THEOREM BudgetRefinement == Spec => BudgetIsAccount
<1>1. Types /\ Chains /\ BudgetInv /\ [Next]_vars =>
          [BudgetState!Next]_(BudgetState!vars)
    BY TypesKept, StepAccount
<1> QED
    BY <1>1, Invariants, BudgetInvariant, InitAccount, PTL
    DEF Spec, BudgetIsAccount, BudgetState!Spec

(***************************************************************************)
(* Nothing is forgotten: what the liveness of chains and reservations      *)
(* rests on.                                                               *)
(***************************************************************************)
Due(r, j) == job[r][j] \in {"queued", "running"}

\* A request that was terminated, replayed or accounted for has its row or its timer.
Closing(r) ==
    /\ replay[r] \/ pc[r] = "gate" => kind[r] = "council"
    /\ ~spoiled[r] /\ rows[r] = 0 /\ (terminated[r] \/ replay[r] \/ pc[r] = "done") =>
          Due(r, "ending") \/ Due(r, "closing")

Settling(r) ==
    ~spoiled[r] /\ pc[r] = "done" /\ kind[r] = "chat" /\ estimate[r] # None
        /\ charged[r] = None =>
            \E j \in Jobs : job[r][j] = "queued" /\ Settles(r, j)

Pursued == \A r \in Requests : Closing(r) /\ Settling(r)

LEMMA InitPursued == Init => Pursued
BY DEF Init, Pursued, Closing, Settling

\* Requests share only the spend and the count of faults.
LEMMA OthersRest ==
    ASSUME Types, NEW r \in Requests, NEW s \in Requests \ {r}, Step(r) \/ Abort(r)
    PROVE  UNCHANGED <<pc[s], kind[s], provider[s], estimate[s], terminated[s],
                       replay[s], charged[s], job[s], rows[s], spoiled[s]>>
<1> USE DEF Types
<1>1. ASSUME NEW new \in SUBSET Jobs, NEW taken, Schedule(r, new, taken)
      PROVE  UNCHANGED <<job[s], rows[s], spoiled[s]>>
  <2>1. job'[s] = job[s] /\ rows' = rows
      BY <1>1 DEF Schedule
  <2>2. spoiled'[s] = spoiled[s]
      BY <1>1 DEF Schedule, NoFault, Fault
  <2> QED
      BY <2>1, <2>2
<1>2. ASSUME NEW step, Continue(r, step)
      PROVE  UNCHANGED <<pc[s], record, charged, job, rows, spoiled>>
    BY <1>2 DEF Continue, Goto, NoFault, budget, timers
<1>3. ASSUME Terminate(r)
      PROVE  UNCHANGED <<pc[s], kind, provider, estimate, terminated[s], replay, charged,
                         job[s], rows[s], spoiled[s]>>
  <2>1. PICK taken \in SUBSET {"ending"} :
            Schedule(r, {"ending"}, taken) /\ Marked(r, taken)
      BY <1>3 DEF Terminate
  <2>2. UNCHANGED <<pc[s], kind, provider, estimate, terminated[s], replay, charged>>
      BY <1>3, <2>1 DEF Terminate, Goto, Marked, budget
  <2> QED
      BY <1>1, <2>1, <2>2 DEF Jobs
<1>4. CASE Receive(r) \/ ReceiveBatch(r)
    BY <1>4 DEF Receive, ReceiveBatch, Goto, NoFault, budget, timers
<1>5. CASE Reserve(r) \/ Deny(r)
    BY <1>5 DEF Reserve, Deny, record, timers
<1>6. CASE Abort(r) \/ Respond(r)
    BY <1>6, <1>2 DEF Abort, Respond, record
<1>7. CASE EnforceInputGuard(r) \/ TryServeCached(r) \/ ResolveRoute(r) \/ CheckPolicy(r)
    BY <1>7, <1>2, <1>3
    DEF EnforceInputGuard, TryServeCached, ResolveRoute, CheckPolicy, record
<1>8. CASE CheckBudget(r)
    BY <1>8, <1>2 DEF CheckBudget, Goto, NoFault, record, timers
<1>9. CASE Admitted(r)
    BY <1>9 DEF Admitted, Goto, NoFault, budget, timers
<1>10. CASE Blocked(r)
  <2>1. CASE Terminate(r)
      BY <1>3, <2>1
  <2>2. CASE ~Terminate(r)
    <3>1. PICK taken \in SUBSET {"ending"} : Schedule(r, {"ending"}, taken)
        BY <1>10, <2>2 DEF Blocked, Block
    <3>2. UNCHANGED <<pc[s], record, charged>>
        BY <1>10, <2>2 DEF Blocked, Block, Goto, budget
    <3> QED
        BY <1>1, <3>1, <3>2 DEF Jobs, record
  <2> QED
      BY <2>1, <2>2
<1>11. CASE TimedOut(r)
    BY <1>11 DEF TimedOut, FailClosed, Fault, Goto, Marked, budget
<1>12. CASE CouncilGate(r)
  <2>1. CASE Continue(r, "log") \/ Continue(r, "dispatch")
      BY <1>2, <2>1 DEF record
  <2>2. CASE ~(Continue(r, "log") \/ Continue(r, "dispatch"))
    <3>1. PICK taken \in SUBSET {"ending"} : Schedule(r, {"ending"}, taken)
        BY <1>12, <2>2 DEF CouncilGate
    <3>2. UNCHANGED <<pc[s], kind, provider[s], estimate, terminated, replay[s], charged>>
        BY <1>12, <2>2 DEF CouncilGate, Goto, budget
    <3> QED
        BY <1>1, <3>1, <3>2 DEF Jobs
  <2> QED
      BY <2>1, <2>2
<1>13. CASE DispatchUpstream(r)
    BY <1>13, <1>2 DEF DispatchUpstream, Goto, NoFault, record, budget, timers
<1>14. CASE Account(r)
  <2>1. PICK taken \in SUBSET ClosingTimers(r) :
            /\ Schedule(r, ClosingTimers(r), taken)
            /\ terminated' = [terminated EXCEPT ![r] =
                                  @ \/ (~provider[r] /\ "closing" \in taken)]
      BY <1>14 DEF Account
  <2>2. UNCHANGED <<pc[s], kind, provider, estimate, terminated[s], replay, charged>>
      BY <1>14, <2>1 DEF Account, Goto, budget
  <2>3. ClosingTimers(r) \in SUBSET Jobs
      BY DEF ClosingTimers, ReleaseOf, RejectedRow, Jobs
  <2> QED
      BY <1>1, <2>1, <2>2, <2>3
<1>15. ASSUME NEW j \in Jobs, Timer(r, j) \/ Premature(r, j)
       PROVE  UNCHANGED <<pc, record, charged[s], job[s], rows[s], spoiled[s]>>
  <2>1. UNCHANGED <<pc, record, charged[s]>>
      BY <1>15 DEF Timer, Premature, Settle, SettleLost, Write, WriteFails, budget
  <2>2. job'[s] = job[s]
      BY <1>15
      DEF Timer, Premature, Settle, SettleLost, Write, WriteFails, AfterSettle
  <2>3. rows'[s] = rows[s]
      BY <1>15 DEF Timer, Premature, Settle, SettleLost, Write, WriteFails
  <2>4. spoiled'[s] = spoiled[s]
      BY <1>15 DEF Timer, Premature, Settle, SettleLost, Write, WriteFails, Fault
  <2> QED
      BY <2>1, <2>2, <2>3, <2>4
<1> QED
    BY <1>4, <1>5, <1>6, <1>7, <1>8, <1>9, <1>10, <1>11, <1>12, <1>13, <1>14, <1>15
    DEF Step, Handler, record

\* A request that goes on towards its log phase owes no more than before.
LEMMA GoesOn ==
    ASSUME NEW r \in Requests, Closing(r), pc'[r] # "done",
           pc'[r] = "gate" \/ replay[r] => kind'[r] = "council",
           UNCHANGED <<terminated[r], replay[r], job[r], rows[r], spoiled[r]>>
    PROVE  Closing(r)' /\ Settling(r)'
BY DEF Closing, Settling, Due

\* A request that ends with a terminator has it scheduled, or the timer was refused.
LEMMA EndsScheduled ==
    ASSUME NEW r \in Requests, pc'[r] = "log", replay'[r] => kind'[r] = "council",
           spoiled'[r] \/ job'[r]["ending"] = "queued"
    PROVE  Closing(r)' /\ Settling(r)'
BY DEF Closing, Settling, Due

LEMMA ScheduledOrSpoiled ==
    ASSUME Types, NEW r \in Requests, NEW new \in SUBSET Jobs, NEW taken,
           Schedule(r, new, taken)
    PROVE  spoiled'[r] \/ (taken = new /\ ~spoiled[r])
<1>1. (taken = new /\ NoFault) \/ Fault(r)
    BY Zenon DEF Schedule
<1> QED
    BY <1>1 DEF NoFault, Fault, Types

LEMMA TerminatePursued ==
    ASSUME Types, NEW r \in Requests, Closing(r), Terminate(r)
    PROVE  Closing(r)' /\ Settling(r)'
<1>1. PICK taken \in SUBSET {"ending"} : Schedule(r, {"ending"}, taken)
    BY DEF Terminate
<1>2. spoiled'[r] \/ job'[r]["ending"] = "queued"
    BY <1>1, ScheduledOrSpoiled, ScheduleJobs DEF Jobs
<1>3. pc'[r] = "log" /\ UNCHANGED <<kind, replay>>
    BY DEF Terminate, Goto, Types
<1> QED
    BY <1>2, <1>3, EndsScheduled DEF Closing

LEMMA ContinuePursued ==
    ASSUME Types, NEW r \in Requests, Closing(r), NEW step, Continue(r, step),
           step # "done", step = "gate" => kind[r] = "council"
    PROVE  Closing(r)' /\ Settling(r)'
<1>1. pc'[r] = step /\ UNCHANGED <<record, job, rows, spoiled>>
    BY DEF Continue, Goto, NoFault, Types, timers
<1> QED
    BY <1>1, GoesOn DEF record, Closing

\* The log phase schedules what the record does not show as scheduled, and the
\* settlement of what was reserved: after an answer, or by a release.
LEMMA AccountPursued ==
    ASSUME Types, NEW r \in Requests, Closing(r), Account(r)
    PROVE  Closing(r)' /\ Settling(r)'
<1>1. PICK taken \in SUBSET ClosingTimers(r) : Schedule(r, ClosingTimers(r), taken)
    BY DEF Account
<1>2. ClosingTimers(r) \in SUBSET Jobs
    BY DEF ClosingTimers, ReleaseOf, RejectedRow, Jobs
<1>3. \A j \in Jobs : job'[r][j] = IF j \in taken THEN "queued" ELSE job[r][j]
    BY <1>1, <1>2, ScheduleJobs
<1>4. /\ pc[r] = "log" /\ pc'[r] = "done"
      /\ UNCHANGED <<kind, provider, estimate, replay, charged, rows>>
    BY <1>1 DEF Account, Schedule, Goto, Types, budget
<1>5. SUFFICES ASSUME ~spoiled'[r]
               PROVE  /\ kind[r] = "council" \/ ~replay[r]
                      /\ rows[r] = 0 => Due(r, "ending")' \/ Due(r, "closing")'
                      /\ kind[r] = "chat" /\ estimate[r] # None =>
                            \E j \in Jobs : job'[r][j] = "queued" /\ Settles(r, j)'
    BY <1>4 DEF Closing, Settling
<1>6. taken = ClosingTimers(r) /\ ~spoiled[r]
    BY <1>1, <1>2, <1>5, ScheduledOrSpoiled
<1>7. kind[r] = "council" \/ ~replay[r]
    BY DEF Closing
<1>8. ASSUME rows[r] = 0 PROVE Due(r, "ending")' \/ Due(r, "closing")'
  <2>1. CASE "closing" \in ClosingTimers(r)
      BY <1>3, <1>6, <2>1 DEF Due, Jobs
  <2>2. CASE "closing" \notin ClosingTimers(r)
    <3>1. replay[r] \/ terminated[r]
        BY <2>2 DEF ClosingTimers, RejectedRow
    <3>2. Due(r, "ending") \/ Due(r, "closing")
        BY <1>6, <1>8, <3>1 DEF Closing
    <3> QED
        BY <1>3, <3>2 DEF Due, Jobs
  <2> QED
      BY <2>1, <2>2
<1>9. ASSUME kind[r] = "chat", estimate[r] # None
      PROVE  \E j \in Jobs : job'[r][j] = "queued" /\ Settles(r, j)'
  <2>1. CASE provider[r]
    <3>1. "closing" \in ClosingTimers(r)
        BY <1>7, <1>9, <2>1 DEF ClosingTimers
    <3> QED
        BY <1>3, <1>4, <1>6, <1>9, <2>1, <3>1 DEF Settles, Jobs
  <2>2. CASE ~provider[r]
    <3>1. "release" \in ClosingTimers(r)
        BY <1>7, <1>9, <2>2 DEF ClosingTimers, ReleaseOf
    <3> QED
        BY <1>3, <1>6, <3>1 DEF Settles, Jobs
  <2> QED
      BY <2>1, <2>2
<1> QED
    BY <1>7, <1>8, <1>9

\* A timer that ends has written its row or settled, or a fault has hit the request.
LEMMA TimerPursued ==
    ASSUME Types, NEW r \in Requests, Closing(r), Settling(r), NEW j \in Jobs,
           Timer(r, j) \/ Premature(r, j)
    PROVE  Closing(r)' /\ Settling(r)'
<1>1. UNCHANGED <<pc, kind, provider, estimate, terminated, replay>>
    BY DEF Timer, Premature, Settle, SettleLost, Write, WriteFails, record
<1>2. CASE SettleLost(r, j) \/ WriteFails(r, j) \/ Premature(r, j)
  <2>1. spoiled'[r]
      BY <1>2 DEF SettleLost, WriteFails, Premature, Fault, Types
  <2> QED
      BY <1>1, <2>1 DEF Closing, Settling
<1>3. CASE Write(r, j)
  <2>1. rows'[r] # 0
      BY <1>3 DEF Write, Types
  <2>2. \A k \in Jobs : job[r][k] = "queued" /\ Settles(r, k) => job'[r][k] = "queued"
      BY <1>3 DEF Write, Writing, Types
  <2>3. charged' = charged /\ spoiled' = spoiled
      BY <1>3 DEF Write, budget
  <2>4. Settling(r)'
      BY <1>1, <2>2, <2>3 DEF Settling, Settles
  <2> QED
      BY <1>1, <2>1, <2>4 DEF Closing
<1>4. CASE Settle(r, j)
  <2>1. charged'[r] # None
      BY <1>4, GatewayAssumption DEF Settle, Types, None
  <2>2. \A k \in {"ending", "closing"} : Due(r, k) => Due(r, k)'
      BY <1>4 DEF Settle, Settles, AfterSettle, Due, Types, Jobs
  <2>3. rows' = rows /\ spoiled' = spoiled
      BY <1>4 DEF Settle
  <2> QED
      BY <1>1, <2>1, <2>2, <2>3 DEF Closing, Settling
<1> QED
    BY <1>2, <1>3, <1>4 DEF Timer

LEMMA HandlerPursued ==
    ASSUME Types, NEW r \in Requests, Closing(r), Handler(r)
    PROVE  Closing(r)' /\ Settling(r)'
<1>1. CASE EnforceInputGuard(r) \/ TryServeCached(r) \/ ResolveRoute(r) \/ Respond(r)
    BY <1>1, TerminatePursued, ContinuePursued
    DEF EnforceInputGuard, TryServeCached, ResolveRoute, Respond
<1>2. CASE CheckPolicy(r)
    BY <1>2, TerminatePursued, ContinuePursued DEF CheckPolicy
<1>3. CASE CheckBudget(r) /\ Continue(r, AfterBudget(r))
    BY <1>3, ContinuePursued DEF AfterBudget
<1>4. CASE CheckBudget(r) /\ ~Continue(r, AfterBudget(r))
  <2>1. /\ pc'[r] = "checking"
        /\ UNCHANGED <<kind, terminated, replay, job, rows, spoiled>>
      BY <1>4 DEF CheckBudget, Goto, NoFault, Types, record, timers
  <2> QED
      BY <2>1, GoesOn DEF Closing
<1>5. CASE Admitted(r)
  <2>1. /\ pc'[r] \in {"upstream", "policy"}
        /\ UNCHANGED <<kind, terminated, replay, job, rows, spoiled>>
      BY <1>5 DEF Admitted, AfterBudget, Goto, NoFault, Types, timers
  <2> QED
      BY <2>1, GoesOn DEF Closing
<1>6. CASE Blocked(r)
  <2>1. CASE Terminate(r)
      BY <2>1, TerminatePursued
  <2>2. CASE ~Terminate(r)
    <3>1. PICK taken \in SUBSET {"ending"} : Schedule(r, {"ending"}, taken)
        BY <1>6, <2>2 DEF Blocked, Block
    <3>2. spoiled'[r] \/ job'[r]["ending"] = "queued"
        BY <3>1, ScheduledOrSpoiled, ScheduleJobs DEF Jobs
    <3>3. pc'[r] = "log" /\ UNCHANGED <<kind, replay>>
        BY <1>6, <2>2 DEF Blocked, Block, Goto, Types, record
    <3> QED
        BY <3>2, <3>3, EndsScheduled DEF Closing
  <2> QED
      BY <2>1, <2>2
<1>7. CASE TimedOut(r)
  <2>1. pc'[r] = "log" /\ spoiled'[r] /\ UNCHANGED <<kind, replay>>
      BY <1>7 DEF TimedOut, FailClosed, Fault, Goto, Types
  <2> QED
      BY <2>1, EndsScheduled DEF Closing
<1>8. CASE CouncilGate(r) /\ (Continue(r, "log") \/ Continue(r, "dispatch"))
    BY <1>8, ContinuePursued
<1>9. CASE CouncilGate(r) /\ ~(Continue(r, "log") \/ Continue(r, "dispatch"))
  <2>1. PICK taken \in SUBSET {"ending"} : Schedule(r, {"ending"}, taken)
      BY <1>9 DEF CouncilGate
  <2>2. spoiled'[r] \/ job'[r]["ending"] = "queued"
      BY <2>1, ScheduledOrSpoiled, ScheduleJobs DEF Jobs
  <2>3. pc[r] = "gate" /\ pc'[r] = "log" /\ kind' = kind
      BY <1>9 DEF CouncilGate, Goto, Types
  <2> QED
      BY <2>2, <2>3, EndsScheduled DEF Closing
<1>10. CASE DispatchUpstream(r) /\ Continue(r, "log")
    BY <1>10, ContinuePursued
<1>11. CASE DispatchUpstream(r) /\ ~Continue(r, "log")
  <2>1. /\ pc'[r] = "upstream"
        /\ UNCHANGED <<kind, terminated, replay, job, rows, spoiled>>
      BY <1>11 DEF DispatchUpstream, Goto, NoFault, Types, timers
  <2> QED
      BY <2>1, GoesOn DEF Closing
<1> QED
    BY <1>1, <1>2, <1>3, <1>4, <1>5, <1>6, <1>7, <1>8, <1>9, <1>10, <1>11, AccountPursued
    DEF Handler

LEMMA ReceivePursued ==
    ASSUME Types, Chains, NEW r \in Requests, Closing(r), Receive(r) \/ ReceiveBatch(r)
    PROVE  Closing(r)' /\ Settling(r)'
<1>1. /\ pc[r] = "new" /\ pc'[r] \in {"guard", "budget"}
      /\ UNCHANGED <<terminated, replay, job, rows, spoiled>>
    BY DEF Receive, ReceiveBatch, Goto, NoFault, Types, timers
<1>2. ~replay[r]
    BY <1>1 DEF Chains, Chain, Closing
<1> QED
    BY <1>1, <1>2, GoesOn

LEMMA SidecarPursued ==
    ASSUME NEW r \in Requests, Closing(r), Settling(r), Reserve(r) \/ Deny(r)
    PROVE  Closing(r)' /\ Settling(r)'
<1>1. /\ UNCHANGED <<pc, kind, provider, estimate, terminated, replay>>
      /\ UNCHANGED <<charged, job, rows, spoiled>>
    BY DEF Reserve, Deny, record, timers
<1>2. Closing(r)'
    BY <1>1 DEF Closing, Due
<1>3. Settling(r)'
    BY <1>1 DEF Settling, Settles
<1> QED
    BY <1>2, <1>3

LEMMA AbortPursued ==
    ASSUME Types, NEW r \in Requests, Closing(r), Abort(r)
    PROVE  Closing(r)' /\ Settling(r)'
BY ContinuePursued DEF Abort

LEMMA StepPursued ==
    ASSUME Types, Chains, Pursued, NEW r \in Requests, Step(r) \/ Abort(r)
    PROVE  Pursued'
<1>1. Closing(r) /\ Settling(r)
    BY DEF Pursued
<1>2. ASSUME Handler(r) \/ \E j \in Jobs : Timer(r, j) \/ Premature(r, j)
      PROVE  Closing(r)' /\ Settling(r)'
    BY <1>1, <1>2, HandlerPursued, TimerPursued
<1>3. ASSUME Receive(r) \/ ReceiveBatch(r) \/ Abort(r) \/ Reserve(r) \/ Deny(r)
      PROVE  Closing(r)' /\ Settling(r)'
    BY <1>1, <1>3, ReceivePursued, AbortPursued, SidecarPursued
<1>4. Closing(r)' /\ Settling(r)'
    BY <1>2, <1>3 DEF Step
<1>5. ASSUME NEW s \in Requests \ {r} PROVE Closing(s)' /\ Settling(s)'
  <2>1. Closing(s) /\ Settling(s)
      BY DEF Pursued
  <2> QED
      BY <2>1, OthersRest DEF Closing, Settling, Due, Settles
<1> QED
    BY <1>4, <1>5 DEF Pursued

LEMMA PursuedKept == Types /\ Chains /\ Pursued /\ [Next]_vars => Pursued'
<1>1. ASSUME Pursued, UNCHANGED vars PROVE Pursued'
    BY <1>1 DEF vars, record, budget, timers, Pursued, Closing, Settling, Due, Settles
<1> QED
    BY <1>1, StepPursued DEF Next

LEMMA PursuedAlways == Spec => []Pursued
BY InitPursued, PursuedKept, Invariants, PTL DEF Spec

\* An ended request has its terminating row or a timer that will write it, however it
\* ended: schedule_terminator, account and record_with_retry lose it to faults only.
THEOREM ChainsInHand == Spec => []ChainInHand
<1>1. Pursued => ChainInHand
    BY DEF Pursued, Closing, Due, ChainInHand
<1> QED
    BY <1>1, PursuedAlways, PTL

(***************************************************************************)
(* What the sidecar holds is on the record, or was lost with its check.    *)
(***************************************************************************)
Recorded(r) ==
    \/ check[r] \in {"none", "denied"} \/ pc[r] = "checking" \/ estimate[r] # None
    \/ spoiled[r] \/ r \in deserted

Records == \A r \in Requests : Recorded(r)

LEMMA InitRecords == Init => Records
BY DEF Init, Records, Recorded

LEMMA ScheduleSpoils ==
    ASSUME Types, NEW r \in Requests, NEW new, NEW taken, Schedule(r, new, taken)
    PROVE  spoiled[r] => spoiled'[r]
<1>1. NoFault \/ Fault(r)
    BY Zenon DEF Schedule
<1> QED
    BY <1>1 DEF NoFault, Fault, Types

\* Only the check itself changes what a request knows of its reservation.
LEMMA HandlerKeeps ==
    ASSUME Types, NEW r \in Requests, Handler(r),
           ~CheckBudget(r), ~Admitted(r), ~TimedOut(r)
    PROVE  UNCHANGED <<check, estimate>> /\ (spoiled[r] => spoiled'[r])
<1>1. ASSUME NEW step, Continue(r, step)
      PROVE  UNCHANGED <<check, estimate>> /\ (spoiled[r] => spoiled'[r])
    BY <1>1 DEF Continue, NoFault, record, budget
<1>2. ASSUME Terminate(r)
      PROVE  UNCHANGED <<check, estimate>> /\ (spoiled[r] => spoiled'[r])
    BY <1>2, ScheduleSpoils DEF Terminate, budget
<1>3. CASE EnforceInputGuard(r) \/ TryServeCached(r) \/ ResolveRoute(r) \/ CheckPolicy(r)
           \/ Respond(r)
    BY <1>1, <1>2, <1>3
    DEF EnforceInputGuard, TryServeCached, ResolveRoute, CheckPolicy, Respond
<1>4. CASE Blocked(r)
    BY <1>2, <1>4, ScheduleSpoils DEF Blocked, Block, record, budget
<1>5. CASE CouncilGate(r)
    BY <1>1, <1>5, ScheduleSpoils DEF CouncilGate, budget
<1>6. CASE DispatchUpstream(r)
    BY <1>1, <1>6 DEF DispatchUpstream, NoFault, budget
<1>7. CASE Account(r)
    BY <1>7, ScheduleSpoils DEF Account, budget
<1> QED
    BY <1>3, <1>4, <1>5, <1>6, <1>7 DEF Handler

LEMMA StepRecorded ==
    ASSUME Types, Chains, NEW r \in Requests, Recorded(r), Step(r), UNCHANGED deserted
    PROVE  Recorded(r)'
<1>1. CASE CheckBudget(r)
  <2>1. check[r] = "none"
      BY <1>1 DEF CheckBudget, Chains, Chain, Reserved, Unchecked
  <2>2. CASE Continue(r, AfterBudget(r))
      BY <2>1, <2>2 DEF Continue, budget, Recorded
  <2>3. CASE ~Continue(r, AfterBudget(r))
      BY <1>1, <2>3 DEF CheckBudget, Goto, Types, Recorded
  <2> QED
      BY <2>2, <2>3
<1>2. CASE Admitted(r)
  <2>1. estimate'[r] = EstimateOf(r) /\ EstimateOf(r) # None
      BY <1>2, GatewayAssumption DEF Admitted, Types, EstimateOf, None
  <2> QED
      BY <2>1 DEF Recorded
<1>3. CASE TimedOut(r)
    BY <1>3 DEF TimedOut, Fault, Types, Recorded
<1>4. CASE Blocked(r)
  <2>1. check'[r] = "denied"
      BY <1>4 DEF Blocked, Block, Terminate, budget
  <2> QED
      BY <2>1 DEF Recorded
<1>5. CASE Handler(r) /\ ~CheckBudget(r) /\ ~Admitted(r) /\ ~TimedOut(r) /\ ~Blocked(r)
  <2>1. pc[r] # "checking"
      BY <1>5 DEF Handler, EnforceInputGuard, TryServeCached, ResolveRoute, CheckPolicy,
         CouncilGate, DispatchUpstream, Respond, Account
  <2> QED
      BY <1>5, <2>1, HandlerKeeps DEF Recorded
<1>6. CASE Reserve(r) \/ Deny(r)
    BY <1>6 DEF Reserve, Deny, Recorded, record
<1>7. CASE Receive(r) \/ ReceiveBatch(r)
  <2>1. check[r] = "none"
      BY <1>7 DEF Receive, ReceiveBatch, Chains, Chain, Reserved, Unchecked
  <2> QED
      BY <1>7, <2>1 DEF Receive, ReceiveBatch, budget, Recorded
<1>8. ASSUME NEW j \in Jobs, Timer(r, j) \/ Premature(r, j) PROVE Recorded(r)'
  <2>1. UNCHANGED <<check, pc, estimate>>
      BY <1>8 DEF Timer, Premature, Settle, SettleLost, Write, WriteFails, record, budget
  <2>2. spoiled[r] => spoiled'[r]
      BY <1>8 DEF Timer, Premature, Settle, SettleLost, Write, WriteFails, Fault, Types
  <2> QED
      BY <2>1, <2>2 DEF Recorded
<1> QED
    BY <1>1, <1>2, <1>3, <1>4, <1>5, <1>6, <1>7, <1>8 DEF Step

LEMMA AbortRecorded ==
    ASSUME Types, NEW r \in Requests, Recorded(r), Abort(r)
    PROVE  Recorded(r)'
BY DEF Abort, Continue, NoFault, Recorded, record, budget

\* The check of a request is its own.
LEMMA ChecksApart ==
    ASSUME Types, NEW r \in Requests, NEW s \in Requests \ {r}, Step(r) \/ Abort(r)
    PROVE  check'[s] = check[s]
<1>1. CASE CheckBudget(r)
    BY <1>1 DEF CheckBudget, Continue, budget, Types
<1>2. CASE Admitted(r) \/ TimedOut(r)
    BY <1>2 DEF Admitted, TimedOut, FailClosed, budget
<1>3. CASE Handler(r) /\ ~CheckBudget(r) /\ ~Admitted(r) /\ ~TimedOut(r)
    BY <1>3, HandlerKeeps
<1>4. CASE Reserve(r) \/ Deny(r)
    BY <1>4 DEF Reserve, Deny, Types
<1>5. CASE Receive(r) \/ ReceiveBatch(r) \/ Abort(r)
    BY <1>5 DEF Receive, ReceiveBatch, Abort, Continue, budget
<1>6. ASSUME NEW j \in Jobs, Timer(r, j) \/ Premature(r, j) PROVE check' = check
    BY <1>6 DEF Timer, Premature, Settle, SettleLost, Write, WriteFails, budget
<1> QED
    BY <1>1, <1>2, <1>3, <1>4, <1>5, <1>6 DEF Step

LEMMA RecordsKept == Types /\ Chains /\ Records /\ [Next]_vars => Records'
<1> SUFFICES ASSUME Types, Chains, Records, [Next]_vars, NEW s \in Requests
             PROVE  Recorded(s)'
    BY DEF Records
<1>1. Recorded(s)
    BY DEF Records
<1>2. CASE UNCHANGED vars
    BY <1>1, <1>2 DEF vars, record, budget, Recorded
<1>3. ASSUME NEW r \in Requests, (Step(r) /\ UNCHANGED deserted) \/ Abort(r)
      PROVE  Recorded(s)'
  <2>1. CASE r = s
      BY <1>1, <1>3, <2>1, StepRecorded, AbortRecorded
  <2>2. CASE r # s
    <3>1. UNCHANGED <<check[s], pc[s], estimate[s], spoiled[s]>>
        BY <1>3, <2>2, OthersRest, ChecksApart
    <3>2. deserted \subseteq deserted'
        BY <1>3 DEF Abort
    <3> QED
        BY <1>1, <3>1, <3>2 DEF Recorded
  <2> QED
      BY <2>1, <2>2
<1> QED
    BY <1>2, <1>3 DEF Next

\* Whatever the sidecar holds for a request that ended has the timer that settles it:
\* check_budget, account and the release lose it to a fault or to a client that leaves
\* during the check, and to nothing else.
THEOREM ReservationsInHand == Spec => []ReservationInHand
<1>1. Types /\ Chains /\ Pursued /\ Records => ReservationInHand
  <2> SUFFICES ASSUME Types, Chains, Pursued, Records, NEW r \in Requests,
                      Holds(r), charged[r] = None, ~spoiled[r], r \notin deserted
               PROVE  \E j \in Jobs : job[r][j] = "queued" /\ Settles(r, j)
      BY DEF ReservationInHand
  <2>1. pc[r] = "done" /\ check[r] = "reserved" /\ kind[r] = "chat"
      BY DEF Holds, EstimateOf
  <2>2. estimate[r] # None
      BY <2>1 DEF Records, Recorded
  <2> QED
      BY <2>1, <2>2 DEF Pursued, Settling
<1>2. Spec => []Records
    BY InitRecords, RecordsKept, Invariants, PTL DEF Spec
<1> QED
    BY <1>1, <1>2, Invariants, PursuedAlways, PTL
=============================================================================
