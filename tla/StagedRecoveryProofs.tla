------------------------ MODULE StagedRecoveryProofs ------------------------
(***************************************************************************)
(* Safety of recovery, for any number of sidecars, rows and pages: one     *)
(* directive per escalation, one per token_id, no directive without its    *)
(* escalation, order of the stamps, disarm, and what a sweep visits.       *)
(***************************************************************************)
EXTENDS StagedRecovery, TLAPS

Row == [state : DirStates, created : Nat, expires : Nat]

(***************************************************************************)
(* Type correctness, in the groups of variables that steps change.         *)
(***************************************************************************)
ClockType ==
    /\ clock \in 0..MaxClock
    /\ jumps \in 0..MaxJumps
    /\ boots \in 0..MaxBoots
ArmType ==
    /\ armUntil \in Nat
    /\ disarmedBy \in Processes \cup {Nobody}
TableType ==
    /\ status \in [Escalations -> EscStates]
    /\ answer \in [Escalations -> Kinds \cup {"none"}]
    /\ directive \in [Escalations -> Row]
    /\ signings \in [Escalations -> Nat]
    /\ bound \in [Tokens -> Escalations \cup {Free}]
WorkType ==
    /\ sweep \in [Processes -> {"off", "running", "cut", "done"}]
    /\ cursor \in [Processes -> Nat]
    /\ page \in [Processes -> SUBSET Escalations]
    /\ due \in [Processes -> SUBSET Escalations]
    /\ row \in [Processes -> Escalations \cup {NoRow}]
    /\ at \in [Processes -> Steps]
    /\ now \in [Processes -> 0..MaxClock]
    /\ \A p \in Processes :
          /\ row[p] = NoRow <=> at[p] = "idle"
          /\ page[p] # {} => sweep[p] = "running"
          /\ \A e \in page[p] : Key[e] > cursor[p]

LEMMA TypeParts == TypeOK <=> ClockType /\ ArmType /\ TableType /\ WorkType
  BY DEF TypeOK, ClockType, ArmType, TableType, WorkType, Row

LEMMA TypePartsNext ==
    ASSUME ClockType', ArmType', TableType', WorkType'
    PROVE  TypeOK'
  BY DEF TypeOK, ClockType, ArmType, TableType, WorkType, Row

LEMMA Limits ==
    /\ Nobody \notin Processes
    /\ NoRow \notin Escalations /\ Free \notin Escalations
    /\ Key \in [Escalations -> Nat \ {0}]
    /\ \A e, f \in Escalations : Key[e] = Key[f] => e = f
    /\ Token \in [Escalations -> Tokens]
    /\ TokenExpiry \in [Escalations -> Nat]
    /\ Answers \in [Escalations -> SUBSET Kinds]
    /\ ArmWindow \in Nat \ {0} /\ Ttl \in Nat \ {0} /\ MaxSkew \in Nat
    /\ Retention \in Nat /\ MaxClock \in Nat \ {0} /\ MaxJumps \in Nat /\ MaxBoots \in Nat
  BY RowsAssumption, LimitsAssumption

LEMMA TypeInit == Init => TypeOK
  BY Limits DEF Init, TypeOK, EscStates, DirStates, Steps, NoDirective, Kinds

LEMMA LetGoType ==
    ASSUME WorkType, NEW p \in Processes, LetGo(p),
           NEW q \in Processes, UNCHANGED <<cursor, due>>,
           \/ UNCHANGED <<sweep, page>>
           \/ /\ page' = [page EXCEPT ![p] = {}]
              /\ \E s \in {"off", "cut"} : sweep' = [sweep EXCEPT ![p] = s]
    PROVE  WorkType'
  BY Limits DEF WorkType, LetGo, Steps

LEMMA TypeClock ==
    ASSUME TypeOK, Tick \/ ClockStep
    PROVE  TypeOK'
  <1>1. ClockType /\ ArmType /\ TableType /\ WorkType
    BY TypeParts
  <1>2. ClockType' /\ UNCHANGED <<arm, tables, hydration, seam>>
    BY <1>1, Limits DEF ClockType, Tick, ClockStep
  <1>3. ArmType' /\ TableType' /\ WorkType'
    BY <1>1, <1>2 DEF ArmType, TableType, WorkType, arm, tables, hydration, seam
  <1> QED
    BY <1>2, <1>3, TypePartsNext

LEMMA TypeArm ==
    ASSUME TypeOK, NEW p \in Processes, Arm(p) \/ Disarm(p)
    PROVE  TypeOK'
  <1>1. ClockType /\ ArmType /\ TableType /\ WorkType
    BY TypeParts
  <1>2. ArmType' /\ UNCHANGED <<time, tables, hydration, seam, boots>>
    BY <1>1, Limits DEF ArmType, ClockType, Arm, Disarm
  <1>3. ClockType' /\ TableType' /\ WorkType'
    BY <1>1, <1>2 DEF ClockType, TableType, WorkType, time, tables, hydration, seam
  <1> QED
    BY <1>2, <1>3, TypePartsNext

LEMMA TypeGate ==
    ASSUME TypeOK, NEW p \in Processes, Gate(p)
    PROVE  TypeOK'
  <1>1. ClockType /\ ArmType /\ TableType /\ WorkType
    BY TypeParts
  <1>2. UNCHANGED <<time, arm, tables, hydration, boots>>
    BY DEF Gate
  <1>3. ClockType' /\ ArmType' /\ TableType'
    BY <1>1, <1>2 DEF ClockType, ArmType, TableType, time, arm, tables
  <1>4. WorkType'
    <2>1. CASE LetGo(p)
      BY <1>1, <1>2, <2>1, LetGoType DEF hydration
    <2>2. CASE at' = [at EXCEPT ![p] = "gated"] /\ UNCHANGED <<row, now>>
      BY <1>1, <1>2, <2>2, Limits DEF WorkType, Gate, Steps, hydration
    <2> QED
      BY <2>1, <2>2 DEF Gate
  <1> QED
    BY <1>3, <1>4, TypePartsNext

LEMMA InHandIsARow ==
    ASSUME WorkType, NEW p \in Processes, at[p] # "idle"
    PROVE  row[p] \in Escalations
  BY DEF WorkType

LEMMA TypeValidate ==
    ASSUME TypeOK, NEW p \in Processes, Validate(p)
    PROVE  TypeOK'
  <1>1. ClockType /\ ArmType /\ TableType /\ WorkType
    BY TypeParts
  <1>2. UNCHANGED <<time, arm, answer, directive, signings, hydration, boots>>
    BY DEF Validate
  <1>3. row[p] \in Escalations /\ at[p] = "gated"
    BY <1>1, InHandIsARow DEF Validate
  <1>4. ClockType' /\ ArmType'
    BY <1>1, <1>2 DEF ClockType, ArmType, time, arm
  <1>5. bound' \in [Tokens -> Escalations \cup {Free}]
    BY <1>1, <1>3, Limits DEF Validate, TableType
  <1>6. status' \in [Escalations -> EscStates]
    BY <1>1, <1>3 DEF Validate, DeadLetter, TableType, EscStates
  <1>7. TableType'
    BY <1>1, <1>2, <1>5, <1>6 DEF TableType
  <1>8. WorkType'
    <2>1. CASE LetGo(p)
      BY <1>1, <1>2, <2>1, LetGoType DEF hydration
    <2>2. CASE at' = [at EXCEPT ![p] = "authorized"] /\ UNCHANGED <<row, now>>
      BY <1>1, <1>2, <1>3, <2>2, Limits DEF WorkType, Steps, hydration
    <2> QED
      BY <2>1, <2>2 DEF Validate
  <1> QED
    BY <1>4, <1>7, <1>8, TypePartsNext

LEMMA TypeSign ==
    ASSUME TypeOK, NEW p \in Processes, Sign(p)
    PROVE  TypeOK'
  <1>1. ClockType /\ ArmType /\ TableType /\ WorkType
    BY TypeParts
  <1>2. UNCHANGED <<time, arm, answer, directive, signings, bound, hydration, boots>>
    BY DEF Sign
  <1>3. row[p] \in Escalations
    BY <1>1, InHandIsARow DEF Sign
  <1>4. ClockType' /\ ArmType'
    BY <1>1, <1>2 DEF ClockType, ArmType, time, arm
  <1>5. status' \in [Escalations -> EscStates]
    BY <1>1, <1>3 DEF Sign, DeadLetter, TableType, EscStates
  <1>6. TableType'
    BY <1>1, <1>2, <1>5 DEF TableType
  <1>7. WorkType'
    <2>1. CASE LetGo(p)
      BY <1>1, <1>2, <2>1, LetGoType DEF hydration
    <2>2. CASE /\ at' = [at EXCEPT ![p] = "signed"]
               /\ now' = [now EXCEPT ![p] = clock]
               /\ UNCHANGED row
      <3>1. at[p] = "authorized" /\ clock \in 0..MaxClock
        BY <1>1 DEF Sign, ClockType
      <3> QED
        BY <1>1, <1>2, <1>3, <2>2, <3>1, Limits DEF WorkType, Steps, hydration
    <2> QED
      BY <2>1, <2>2 DEF Sign
  <1> QED
    BY <1>4, <1>6, <1>7, TypePartsNext

\* What the filing transaction does, its stamp named.
LEMMA FileStamp ==
    ASSUME TypeOK, NEW p \in Processes, File(p)
    PROVE  \E c \in Nat :
             /\ Stamps(now[p], c)
             /\ HoldForSkew(now[p], c) \/ FileDirective(row[p], now[p], c)
  <1>1. \A x \in Floor : x \in Nat
    BY DEF TypeOK, Floor, Filed
  <1>2. {now[p]} \cup {x + 1 : x \in Floor} \subseteq Nat
    BY <1>1, Limits DEF TypeOK
  <1> QED
    BY <1>2 DEF File

LEMMA TypeFile ==
    ASSUME TypeOK, NEW p \in Processes, File(p)
    PROVE  TypeOK'
  <1>1. ClockType /\ ArmType /\ TableType /\ WorkType
    BY TypeParts
  <1>2. UNCHANGED <<time, arm, answer, bound, hydration, boots>> /\ LetGo(p)
    BY DEF File
  <1>3. row[p] \in Escalations
    BY <1>1, InHandIsARow DEF File
  <1>4. ClockType' /\ ArmType' /\ WorkType'
    BY <1>1, <1>2, LetGoType DEF ClockType, ArmType, time, arm, hydration
  <1>5. PICK c \in Nat : HoldForSkew(now[p], c) \/ FileDirective(row[p], now[p], c)
    BY FileStamp
  <1>6. TableType'
    <2>1. CASE HoldForSkew(now[p], c)
      BY <1>1, <1>2, <2>1 DEF HoldForSkew, TableType
    <2>2. CASE FileDirective(row[p], now[p], c)
      <3>1. status' \in [Escalations -> EscStates]
        BY <1>1, <1>3, <2>2 DEF FileDirective, TableType, EscStates
      <3>2. SignedRow(row[p], c) \in Row
        BY Limits DEF SignedRow, Row, DirStates
      <3>3. directive' \in [Escalations -> Row]
        BY <1>1, <1>3, <2>2, <3>2 DEF FileDirective, TableType
      <3>4. signings' \in [Escalations -> Nat]
        BY <1>1, <1>3, <2>2 DEF FileDirective, TableType
      <3> QED
        BY <1>1, <1>2, <3>1, <3>3, <3>4 DEF TableType
    <2> QED
      BY <1>5, <2>1, <2>2
  <1> QED
    BY <1>4, <1>6, TypePartsNext

LEMMA TypeStore ==
    ASSUME TypeOK, NEW p \in Processes, NEW e \in Escalations, StoreAnswer(p, e)
    PROVE  TypeOK'
  <1>1. ClockType /\ ArmType /\ TableType /\ WorkType
    BY TypeParts
  <1>2. ClockType' /\ ArmType'
    BY <1>1 DEF ClockType, ArmType, StoreAnswer, time, arm
  <1>3. TableType'
    BY <1>1, Limits DEF TableType, StoreAnswer, EscStates
  <1>4. WorkType'
    BY <1>1, Limits DEF StoreAnswer, WorkType, Steps, hydration
  <1> QED
    BY <1>2, <1>3, <1>4, TypePartsNext

LEMMA TypeCallers ==
    ASSUME TypeOK, NEW p \in Processes,
           RecoveryFails(p) \/ Boot(p) \/ Deadline(p) \/ Crash(p)
    PROVE  TypeOK'
  <1>1. ClockType /\ ArmType /\ TableType /\ WorkType
    BY TypeParts
  <1>2. ClockType' /\ ArmType' /\ TableType'
    BY <1>1, Limits DEF ClockType, ArmType, TableType, RecoveryFails, Boot, Deadline, Crash,
                        time, arm, tables
  <1>3. WorkType'
    <2>1. CASE RecoveryFails(p)
      BY <1>1, <2>1, LetGoType DEF RecoveryFails
    <2>2. CASE Boot(p)
      <3>1. Staged \subseteq Escalations
        BY DEF Staged
      <3> QED
        BY <1>1, <2>2, <3>1, Limits DEF Boot, WorkType, seam
    <2>3. CASE Deadline(p)
      BY <1>1, <2>3, Limits DEF Deadline, WorkType, seam
    <2>4. CASE Crash(p)
      BY <1>1, <2>4, Limits DEF Crash, WorkType, LetGo, Steps
    <2> QED
      BY <2>1, <2>2, <2>3, <2>4
  <1> QED
    BY <1>2, <1>3, TypePartsNext

LEMMA TypeSweep ==
    ASSUME TypeOK, NEW p \in Processes, Sweep(p)
    PROVE  TypeOK'
  <1>1. ClockType /\ ArmType /\ TableType /\ WorkType
    BY TypeParts
  <1>2. ClockType' /\ ArmType' /\ TableType'
    BY <1>1 DEF ClockType, ArmType, TableType, Sweep, FetchPage, NextOfPage, time, arm, tables
  <1>3. CASE FetchPage(p)
    <2>1. PICK rows \in SUBSET Unvisited(p) :
             /\ page' = [page EXCEPT ![p] = rows]
             /\ sweep' = [sweep EXCEPT ![p] = IF rows = {} THEN "done" ELSE @]
      BY <1>3 DEF FetchPage
    <2>2. rows \subseteq Escalations /\ \A e \in rows : Key[e] > cursor[p]
      BY DEF Unvisited, Staged
    <2>3. UNCHANGED <<cursor, due, row, at, now>> /\ sweep[p] = "running"
      BY <1>3 DEF FetchPage, seam
    <2>4. WorkType'
      BY <1>1, <2>1, <2>2, <2>3, Limits DEF WorkType
    <2> QED
      BY <1>2, <2>4, TypePartsNext
  <1>4. CASE NextOfPage(p)
    <2>1. PICK e \in page[p] :
             /\ \A f \in page[p] : Key[e] <= Key[f]
             /\ page' = [page EXCEPT ![p] = @ \ {e}]
             /\ cursor' = [cursor EXCEPT ![p] = Key[e]]
             /\ due' = [due EXCEPT ![p] = @ \ {e}]
             /\ row' = [row EXCEPT ![p] = e]
      BY <1>4 DEF NextOfPage
    <2>2. e \in Escalations /\ Key[e] \in Nat /\ page[p] \subseteq Escalations
      BY <1>1, Limits DEF WorkType
    <2>3. \A f \in page[p] \ {e} : Key[f] > Key[e]
      BY <2>1, <2>2, Limits
    <2>4. WorkType'
      BY <1>1, <1>4, <2>1, <2>2, <2>3, Limits DEF WorkType, NextOfPage, Steps
    <2> QED
      BY <1>2, <2>4, TypePartsNext
  <1> QED
    BY <1>3, <1>4 DEF Sweep

LEMMA TypeSettle ==
    ASSUME TypeOK, NEW p \in Processes, NEW e \in Escalations, Settle(p, e)
    PROVE  TypeOK'
  <1>1. ClockType /\ ArmType /\ TableType /\ WorkType
    BY TypeParts
  <1>2. ClockType' /\ ArmType' /\ WorkType'
    BY <1>1 DEF ClockType, ArmType, WorkType, Settle, time, arm, hydration, seam
  <1>3. TableType'
    BY <1>1 DEF TableType, Settle, Row, DirStates
  <1> QED
    BY <1>2, <1>3, TypePartsNext

LEMMA TypePrune ==
    ASSUME TypeOK, NEW p \in Processes, Prune(p)
    PROVE  TypeOK'
  <1>1. ClockType /\ ArmType /\ TableType /\ WorkType
    BY TypeParts
  <1>2. ClockType' /\ ArmType' /\ WorkType'
    BY <1>1 DEF ClockType, ArmType, WorkType, Prune, time, arm, hydration, seam
  <1>3. TableType'
    BY <1>1 DEF TableType, Prune, Row, DirStates, NoDirective, EscStates
  <1> QED
    BY <1>2, <1>3, TypePartsNext

LEMMA TypeStep == TypeOK /\ [Next]_vars => TypeOK'
  <1> SUFFICES ASSUME TypeOK, [Next]_vars PROVE TypeOK'
    OBVIOUS
  <1>1. CASE UNCHANGED vars
    BY <1>1 DEF TypeOK, vars, time, arm, tables, hydration, seam
  <1>2. CASE Tick \/ ClockStep
    BY <1>2, TypeClock
  <1>3. ASSUME NEW p \in Processes, Recover(p) \/ Sweep(p) PROVE TypeOK'
    BY <1>3, TypeGate, TypeValidate, TypeSign, TypeFile, TypeSweep DEF Recover
  <1>4. ASSUME NEW p \in Processes, NEW e \in Escalations, StoreAnswer(p, e) \/ Settle(p, e)
        PROVE  TypeOK'
    BY <1>4, TypeStore, TypeSettle
  <1>5. ASSUME NEW p \in Processes,
               Boot(p) \/ Deadline(p) \/ Crash(p) \/ RecoveryFails(p)
        PROVE  TypeOK'
    BY <1>5, TypeCallers
  <1>6. ASSUME NEW p \in Processes, Arm(p) \/ Disarm(p) \/ Prune(p) PROVE TypeOK'
    BY <1>6, TypeArm, TypePrune
  <1> QED
    BY <1>1, <1>2, <1>3, <1>4, <1>5, <1>6 DEF Next

\* The tables and the sidecars' hands keep their shape, and a sidecar is
\* recovering a row exactly while it holds one.
THEOREM RecoveryTypeCorrect == Spec => []TypeOK
  BY TypeInit, TypeStep, PTL DEF Spec

(***************************************************************************)
(* One directive per escalation, and none without its escalation.          *)
(***************************************************************************)
Ends == {"outbox_written", "dismissed", "dead_lettered"}

\* An escalation that was signed for has left 'staged' for good; it is gone
\* exactly when its directive is.
Ledger ==
    \A e \in Escalations :
        /\ signings[e] = 0 => e \notin Filed
        /\ signings[e] > 0 => signings[e] = 1
        /\ signings[e] > 0 /\ e \in Filed => status[e] \in Ends
        /\ signings[e] > 0 /\ e \notin Filed => status[e] = "gone"

\* A row in a sidecar's hand has its answer.
Answered ==
    /\ \A e \in Escalations : status[e] # "claimed" => answer[e] # "none"
    /\ \A p \in Processes : at[p] # "idle" => status[row[p]] # "claimed"
    /\ \A p \in Processes : \A e \in page[p] \cup due[p] : status[e] # "claimed"

LEMMA LedgerParts == TypeOK /\ Ledger => OneDirective /\ NoOrphans
  <1> SUFFICES ASSUME TypeOK, Ledger PROVE OneDirective /\ NoOrphans
    OBVIOUS
  <1>1. \A e \in Escalations : signings[e] \in Nat
    BY DEF TypeOK
  <1>2. OneDirective
    BY <1>1 DEF Ledger, OneDirective
  <1>3. NoOrphans
    BY <1>1 DEF Ledger, NoOrphans, Filed, Ends
  <1> QED
    BY <1>2, <1>3

LEMMA LedgerInit == Init => Ledger /\ Answered
  BY DEF Init, Ledger, Answered, Filed, NoDirective

LEMMA LedgerStep == TypeOK /\ Ledger /\ Answered /\ [Next]_vars => Ledger'
  <1> SUFFICES ASSUME TypeOK, Ledger, Answered, [Next]_vars PROVE Ledger'
    OBVIOUS
  <1>0. TableType /\ WorkType
    BY TypeParts
  <1>1. ASSUME UNCHANGED <<status, directive, signings>> PROVE Ledger'
    BY <1>1 DEF Ledger, Filed
  <1>2. ASSUME NEW p \in Processes, Validate(p) \/ Sign(p) PROVE Ledger'
    <2>1. row[p] \in Escalations
      BY <1>0, <1>2, InHandIsARow DEF Validate, Sign
    <2>2. UNCHANGED <<directive, signings>>
      BY <1>2 DEF Validate, Sign
    <2>3. \/ status' = status
          \/ status[row[p]] # "gone" /\ status' = [status EXCEPT ![row[p]] = "dead_lettered"]
      BY <1>2 DEF Validate, Sign, DeadLetter
    <2> QED
      BY <1>0, <2>1, <2>2, <2>3 DEF Ledger, Filed, TableType, Ends
  <1>3. ASSUME NEW p \in Processes, File(p) PROVE Ledger'
    <2>1. PICK c \in Nat : HoldForSkew(now[p], c) \/ FileDirective(row[p], now[p], c)
      BY <1>3, FileStamp
    <2>2. row[p] \in Escalations
      BY <1>0, <1>3, InHandIsARow DEF File
    <2>3. CASE HoldForSkew(now[p], c)
      BY <1>1, <2>3 DEF HoldForSkew
    <2>4. CASE FileDirective(row[p], now[p], c) /\ row[p] \in Filed
      <3>1. UNCHANGED <<directive, signings>>
        BY <2>4 DEF FileDirective, Collides, Filed
      <3> QED
        BY <1>0, <2>2, <2>4, <3>1 DEF FileDirective, Ledger, Filed, TableType, Ends
    <2>5. CASE FileDirective(row[p], now[p], c) /\ row[p] \notin Filed
      <3>1. signings[row[p]] = 0
        BY <1>0, <2>2, <2>5 DEF FileDirective, Ledger, TableType
      <3>2. /\ directive' = [directive EXCEPT ![row[p]] = SignedRow(row[p], c)]
            /\ signings' = [signings EXCEPT ![row[p]] = @ + 1]
        BY <2>2, <2>5 DEF FileDirective, Collides, Filed
      <3>3. SignedRow(row[p], c).state # "none"
        BY DEF SignedRow
      <3>4. status'[row[p]] \in Ends /\ signings'[row[p]] = 1 /\ row[p] \in Filed'
        BY <1>0, <2>2, <2>5, <3>1, <3>2, <3>3 DEF FileDirective, TableType, Ends, Filed
      <3>5. \A e \in Escalations \ {row[p]} :
               /\ status'[e] = status[e] /\ signings'[e] = signings[e]
               /\ directive'[e] = directive[e]
        BY <1>0, <2>2, <2>5, <3>2 DEF FileDirective, TableType
      <3> QED
        BY <3>4, <3>5 DEF Ledger, Filed
    <2> QED
      BY <2>1, <2>3, <2>4, <2>5
  <1>4. ASSUME NEW p \in Processes, NEW e \in Escalations, StoreAnswer(p, e) PROVE Ledger'
    BY <1>0, <1>4 DEF StoreAnswer, Ledger, Filed, TableType, Ends
  <1>5. ASSUME NEW p \in Processes, NEW e \in Escalations, Settle(p, e) PROVE Ledger'
    <2>1. Filed' = Filed
      <3>1. \A f \in Escalations : directive'[f].state # "none" <=> directive[f].state # "none"
        BY <1>0, <1>5 DEF Settle, TableType, Row
      <3> QED
        BY <3>1 DEF Filed
    <2> QED
      BY <1>5, <2>1 DEF Settle, Ledger
  <1>6. ASSUME NEW p \in Processes, Prune(p) PROVE Ledger'
    <2> DEFINE aged(e) == ~InHand(e) /\ directive[e].created + Retention < clock
               drop == {e \in Filed : aged(e) /\ directive[e].state # "staged"}
               orphaned == {e \in Escalations :
                               /\ status[e] \in {"outbox_written", "dismissed", "dead_lettered"}
                               /\ aged(e)
                               /\ Childless(e \in Filed \ drop)}
    <2>1. /\ directive' = [e \in Escalations |-> IF e \in drop THEN NoDirective ELSE directive[e]]
          /\ status' = [e \in Escalations |-> IF e \in orphaned THEN "gone" ELSE status[e]]
          /\ signings' = signings
      BY <1>6 DEF Prune
    <2>2. Filed' = Filed \ drop
      BY <2>1 DEF Filed, NoDirective
    <2>3. \A e \in drop : signings[e] > 0 /\ status[e] \in Ends
      BY <1>0 DEF Ledger, Filed, TableType
    <2>4. drop \subseteq orphaned
      BY <2>3 DEF Childless, Ends, Filed
    <2>5. orphaned \cap (Filed \ drop) = {}
      BY DEF Childless
    <2> HIDE DEF drop, orphaned
    <2> QED
      BY <2>1, <2>2, <2>4, <2>5 DEF Ledger
  <1> QED
    BY <1>1, <1>2, <1>3, <1>4, <1>5, <1>6
    DEF Next, vars, tables, Arm, Disarm, Tick, ClockStep, Boot, Crash, Sweep, FetchPage,
        NextOfPage, Deadline, Recover, Gate, RecoveryFails

LEMMA AnsweredStep == TypeOK /\ Answered /\ [Next]_vars => Answered'
  <1> SUFFICES ASSUME TypeOK, Answered, [Next]_vars PROVE Answered'
    OBVIOUS
  <1>0. TableType /\ WorkType
    BY TypeParts
  <1>1. ASSUME UNCHANGED <<status, answer, page, due, row, at>> PROVE Answered'
    BY <1>1 DEF Answered
  <1>2. ASSUME NEW p \in Processes, Gate(p) \/ RecoveryFails(p) \/ Deadline(p) \/ Crash(p)
        PROVE  Answered'
    BY <1>0, <1>2 DEF Gate, RecoveryFails, Deadline, Crash, LetGo, Answered, WorkType, tables,
                      hydration, seam
  <1>3. ASSUME NEW p \in Processes, Validate(p) \/ Sign(p) \/ File(p) PROVE Answered'
    <2>1. row[p] \in Escalations /\ status[row[p]] # "claimed"
      BY <1>0, <1>3, InHandIsARow DEF Validate, Sign, File, Answered
    <2>2. \A e \in Escalations : status'[e] = "claimed" <=> status[e] = "claimed"
      BY <1>0, <1>3, <2>1
      DEF Validate, Sign, DeadLetter, File, HoldForSkew, FileDirective, TableType
    <2>3. UNCHANGED <<answer, page, due>>
      BY <1>3 DEF Validate, Sign, File, hydration
    <2>4. \A q \in Processes : at'[q] # "idle" => at[q] # "idle" /\ row'[q] = row[q]
      BY <1>0, <1>3 DEF Validate, Sign, File, LetGo, WorkType
    <2> QED
      BY <1>0, <2>2, <2>3, <2>4 DEF Answered, WorkType
  <1>4. ASSUME NEW p \in Processes, NEW e \in Escalations, StoreAnswer(p, e) PROVE Answered'
    <2>1. PICK k \in Answers[e] : answer' = [answer EXCEPT ![e] = k]
      BY <1>4 DEF StoreAnswer
    <2>2. k # "none"
      BY Limits DEF Kinds
    <2> QED
      BY <1>0, <1>4, <2>1, <2>2 DEF StoreAnswer, Answered, TableType, WorkType, hydration
  <1>5. ASSUME NEW p \in Processes, Boot(p) PROVE Answered'
    BY <1>0, <1>5 DEF Boot, Answered, WorkType, Staged, tables, seam
  <1>6. ASSUME NEW p \in Processes, FetchPage(p) PROVE Answered'
    BY <1>0, <1>6 DEF FetchPage, Answered, WorkType, Unvisited, Staged, tables, seam
  <1>7. ASSUME NEW p \in Processes, NextOfPage(p) PROVE Answered'
    BY <1>0, <1>7 DEF NextOfPage, Answered, WorkType, tables
  <1>8. ASSUME NEW p \in Processes, Prune(p) PROVE Answered'
    <2>1. \A e \in Escalations : status'[e] = "claimed" <=> status[e] = "claimed"
      BY <1>0, <1>8 DEF Prune, TableType
    <2>2. \A e \in Escalations : status'[e] # "claimed" => answer'[e] # "none"
      BY <1>8, <2>1 DEF Prune, Answered
    <2>3. UNCHANGED <<page, due, row, at>>
      BY <1>8 DEF Prune, hydration, seam
    <2> QED
      BY <1>0, <2>1, <2>2, <2>3 DEF Answered, WorkType
  <1> QED
    BY <1>1, <1>2, <1>3, <1>4, <1>5, <1>6, <1>7, <1>8
    DEF Next, vars, tables, hydration, seam, Arm, Disarm, Tick, ClockStep, Sweep, Recover, Settle

\* Signing for one escalation more than once, or with its escalation lost, does
\* not happen.
THEOREM OneDirectiveEver == Spec => []OneDirective
  <1>1. TypeOK /\ Ledger /\ Answered /\ [Next]_vars => (TypeOK /\ Ledger /\ Answered)'
    BY TypeStep, LedgerStep, AnsweredStep
  <1>2. Init => TypeOK /\ Ledger /\ Answered
    BY TypeInit, LedgerInit
  <1>3. TypeOK /\ Ledger => OneDirective
    BY LedgerParts
  <1> QED
    BY <1>1, <1>2, <1>3, PTL DEF Spec

\* Every directive still in the outbox has its escalation.
THEOREM PruneLeavesNoOrphans == Spec => []NoOrphans
  <1>1. TypeOK /\ Ledger /\ Answered /\ [Next]_vars => (TypeOK /\ Ledger /\ Answered)'
    BY TypeStep, LedgerStep, AnsweredStep
  <1>2. Init => TypeOK /\ Ledger /\ Answered
    BY TypeInit, LedgerInit
  <1>3. TypeOK /\ Ledger => NoOrphans
    BY LedgerParts
  <1> QED
    BY <1>1, <1>2, <1>3, PTL DEF Spec

(***************************************************************************)
(* One execute directive per token_id.                                     *)
(***************************************************************************)
\* Past the token's check.
Cleared == {"authorized", "signed"}

\* Whoever passed the token's check with execute authority, and whoever was signed
\* for with it, holds the binding of its token_id.
Bindings ==
    /\ \A p \in Processes :
          at[p] \in Cleared /\ answer[row[p]] = "execute" => bound[Token[row[p]]] = row[p]
    /\ \A e \in Escalations :
          signings[e] > 0 /\ answer[e] = "execute" => bound[Token[e]] = e

LEMMA BindingsParts == Bindings => CapabilityOnce
  BY DEF Bindings, CapabilityOnce

LEMMA BindingsInit == Init => Bindings
  BY DEF Init, Bindings, Cleared

LEMMA BindingsStep ==
    TypeOK /\ Ledger /\ Answered /\ Bindings /\ [Next]_vars => Bindings'
  <1> SUFFICES ASSUME TypeOK, Ledger, Answered, Bindings, [Next]_vars PROVE Bindings'
    OBVIOUS
  <1>0. TableType /\ WorkType
    BY TypeParts
  <1>1. ASSUME UNCHANGED <<answer, signings, bound>>,
               \A q \in Processes : at'[q] \in Cleared => at[q] \in Cleared /\ row'[q] = row[q]
        PROVE  Bindings'
    BY <1>0, <1>1 DEF Bindings, WorkType, Cleared
  <1>2. ASSUME NEW p \in Processes,
               \/ Gate(p) \/ Sign(p) \/ RecoveryFails(p) \/ Crash(p)
               \/ NextOfPage(p)
        PROVE  Bindings'
    <2>1. UNCHANGED <<answer, signings, bound>>
      BY <1>2 DEF Gate, Sign, RecoveryFails, Crash, NextOfPage, tables
    <2>2. \A q \in Processes : at'[q] \in Cleared => at[q] \in Cleared /\ row'[q] = row[q]
      BY <1>0, <1>2
      DEF Gate, Sign, RecoveryFails, Crash, NextOfPage, LetGo, WorkType, Cleared
    <2> QED
      BY <1>1, <2>1, <2>2
  <1>3. ASSUME NEW p \in Processes, Validate(p) PROVE Bindings'
    <2>1. row[p] \in Escalations /\ Token[row[p]] \in Tokens
      BY <1>0, <1>3, InHandIsARow, Limits DEF Validate
    <2>2. \A t \in Tokens : bound[t] # Free => bound'[t] = bound[t]
      BY <1>0, <1>3, <2>1 DEF Validate, TableType
    <2>3. UNCHANGED <<answer, signings>>
      BY <1>3 DEF Validate
    <2>4. \A e \in Escalations : bound[Token[e]] = e => bound'[Token[e]] = e
      BY <2>2, Limits
    <2>5. at'[p] \in Cleared /\ answer[row[p]] = "execute" => bound'[Token[row[p]]] = row[p]
      BY <1>0, <1>3, <2>1
      DEF Validate, WellFormed, Executes, Authorized, InForce, LetGo, WorkType, TableType, Cleared
    <2>6. \A q \in Processes : at'[q] \in Cleared => row'[q] = row[q]
      BY <1>0, <1>3 DEF Validate, LetGo, WorkType, Cleared
    <2>7. \A q \in Processes \ {p} : at'[q] = at[q]
      BY <1>0, <1>3 DEF Validate, LetGo, WorkType
    <2>8. \A q \in Processes : at[q] \in Cleared => row[q] \in Escalations
      BY <1>0 DEF WorkType, Cleared
    <2> QED
      BY <2>3, <2>4, <2>5, <2>6, <2>7, <2>8 DEF Bindings
  <1>4. ASSUME NEW p \in Processes, File(p) PROVE Bindings'
    <2>1. PICK c \in Nat : HoldForSkew(now[p], c) \/ FileDirective(row[p], now[p], c)
      BY <1>4, FileStamp
    <2>2. row[p] \in Escalations /\ at[p] \in Cleared
      BY <1>0, <1>4, InHandIsARow DEF File, Cleared
    <2>3. \A e \in Escalations \ {row[p]} : signings'[e] = signings[e]
      BY <1>0, <2>1, <2>2 DEF HoldForSkew, FileDirective, TableType
    <2>4. UNCHANGED <<answer, bound>>
      BY <1>4 DEF File
    <2>5. \A q \in Processes : at'[q] \in Cleared => at[q] \in Cleared /\ row'[q] = row[q]
      BY <1>0, <1>4 DEF File, LetGo, WorkType, Cleared
    <2> QED
      BY <2>2, <2>3, <2>4, <2>5 DEF Bindings
  <1>5. ASSUME NEW p \in Processes, NEW e \in Escalations, StoreAnswer(p, e) PROVE Bindings'
    <2>1. status[e] = "claimed" /\ at[p] = "idle" /\ UNCHANGED <<signings, bound>>
      BY <1>5 DEF StoreAnswer
    <2>2. signings[e] = 0
      BY <1>0, <2>1 DEF Ledger, TableType, Ends
    <2>3. \A f \in Escalations \ {e} : answer'[f] = answer[f]
      BY <1>0, <1>5 DEF StoreAnswer, TableType
    <2>4. \A q \in Processes : at'[q] \in Cleared =>
              at[q] \in Cleared /\ row'[q] = row[q] /\ row[q] \in Escalations \ {e}
      BY <1>0, <1>5, <2>1 DEF StoreAnswer, WorkType, Answered, Cleared
    <2> QED
      BY <2>1, <2>2, <2>3, <2>4 DEF Bindings
  <1>6. ASSUME UNCHANGED <<answer, signings, bound, row, at>> PROVE Bindings'
    BY <1>6 DEF Bindings
  <1> QED
    BY <1>2, <1>3, <1>4, <1>5, <1>6
    DEF Next, vars, tables, seam, Arm, Disarm, Tick, ClockStep, Boot, Sweep, FetchPage, Deadline,
        Recover, Settle, Prune

\* A token_id never carries two execute directives.
THEOREM TokenCarriesOneDirective == Spec => []CapabilityOnce
  <1>1. /\ TypeOK /\ Ledger /\ Answered /\ Bindings /\ [Next]_vars
        => (TypeOK /\ Ledger /\ Answered /\ Bindings)'
    BY TypeStep, LedgerStep, AnsweredStep, BindingsStep
  <1>2. Init => TypeOK /\ Ledger /\ Answered /\ Bindings
    BY TypeInit, LedgerInit, BindingsInit
  <1>3. Bindings => CapabilityOnce
    BY BindingsParts
  <1> QED
    BY <1>1, <1>2, <1>3, PTL DEF Spec

(***************************************************************************)
(* What a sweep visits.                                                    *)
(***************************************************************************)
\* The rows due and still staged lie behind the watermark, and those of the
\* page come first among them.
Sweeping ==
    \A p \in Processes :
        /\ sweep[p] = "running" =>
              /\ \A e \in due[p] \cap Staged : Key[e] > cursor[p]
              /\ \A e \in page[p], f \in (due[p] \cap Staged) \ page[p] : Key[e] < Key[f]
        /\ sweep[p] = "done" => due[p] \cap Staged = {}

LEMMA SweepingInit == Init => Sweeping
  BY DEF Init, Sweeping

\* A step that stages nothing and leaves a sidecar's sweep alone keeps its part.
LEMMA SweepingKept ==
    ASSUME Sweeping, NEW p \in Processes,
           due'[p] \cap Staged' \subseteq due[p] \cap Staged,
           page'[p] = page[p], sweep'[p] = sweep[p], cursor'[p] = cursor[p]
    PROVE  /\ sweep'[p] = "running" =>
                 /\ \A e \in due'[p] \cap Staged' : Key[e] > cursor'[p]
                 /\ \A e \in page'[p], f \in (due'[p] \cap Staged') \ page'[p] : Key[e] < Key[f]
           /\ sweep'[p] = "done" => due'[p] \cap Staged' = {}
  BY DEF Sweeping

LEMMA SweepingStep ==
    TypeOK /\ Answered /\ Sweeping /\ [Next]_vars => Sweeping'
  <1> SUFFICES ASSUME TypeOK, Answered, Sweeping, [Next]_vars PROVE Sweeping'
    OBVIOUS
  <1>0. TableType /\ WorkType
    BY TypeParts
  <1>1. ASSUME \A q \in Processes : due[q] \cap Staged' \subseteq due[q] \cap Staged,
               UNCHANGED hydration
        PROVE  Sweeping'
    BY <1>1, SweepingKept DEF hydration, Sweeping
  <1>2. ASSUME NEW p \in Processes, Validate(p) \/ Sign(p) \/ File(p) \/ Prune(p)
        PROVE  Sweeping'
    <2>1. Staged' \subseteq Staged /\ UNCHANGED hydration
      <3>1. CASE Validate(p) \/ Sign(p)
        BY <1>0, <3>1, InHandIsARow DEF Validate, Sign, DeadLetter, Staged, TableType
      <3>2. CASE File(p)
        BY <1>0, <3>2, InHandIsARow DEF File, HoldForSkew, FileDirective, Staged, TableType
      <3>3. CASE Prune(p)
        BY <1>0, <3>3 DEF Prune, Staged, TableType
      <3> QED
        BY <1>2, <3>1, <3>2, <3>3
    <2> QED
      BY <1>1, <2>1
  <1>3. ASSUME NEW p \in Processes, NEW e \in Escalations, StoreAnswer(p, e) PROVE Sweeping'
    <2>1. Staged' \subseteq Staged \cup {e} /\ UNCHANGED hydration /\ status[e] = "claimed"
      BY <1>0, <1>3 DEF StoreAnswer, Staged, TableType
    <2>2. \A q \in Processes : e \notin due[q]
      BY <2>1 DEF Answered
    <2> QED
      BY <1>1, <2>1, <2>2
  <1>4. ASSUME NEW p \in Processes, RecoveryFails(p) \/ Deadline(p) \/ Crash(p) PROVE Sweeping'
    <2>1. Staged' = Staged
      BY <1>4 DEF RecoveryFails, Deadline, Crash, tables, Staged
    <2>2. \A q \in Processes \ {p} :
             /\ due'[q] = due[q] /\ page'[q] = page[q] /\ sweep'[q] = sweep[q]
             /\ cursor'[q] = cursor[q]
      BY <1>0, <1>4 DEF RecoveryFails, Deadline, Crash, WorkType
    <2>3. \/ sweep'[p] \in {"cut", "off"}
          \/ /\ due'[p] = due[p] /\ page'[p] = page[p] /\ sweep'[p] = sweep[p]
             /\ cursor'[p] = cursor[p]
      BY <1>0, <1>4 DEF RecoveryFails, Deadline, Crash, WorkType
    <2> QED
      BY <2>1, <2>2, <2>3, SweepingKept DEF Sweeping
  <1>5. ASSUME NEW p \in Processes, Boot(p) PROVE Sweeping'
    <2>1. Staged' = Staged /\ page[p] = {}
      BY <1>0, <1>5 DEF Boot, tables, Staged, WorkType
    <2>2. \A q \in Processes \ {p} :
             /\ due'[q] = due[q] /\ page'[q] = page[q] /\ sweep'[q] = sweep[q]
             /\ cursor'[q] = cursor[q]
      BY <1>0, <1>5 DEF Boot, WorkType
    <2>3. sweep'[p] = "running" /\ cursor'[p] = 0 /\ page'[p] = {}
      BY <1>0, <1>5, <2>1 DEF Boot, WorkType
    <2>4. \A e \in Staged' : Key[e] > 0
      BY Limits DEF Staged
    <2> QED
      BY <2>1, <2>2, <2>3, <2>4, SweepingKept DEF Sweeping
  <1>6. ASSUME NEW p \in Processes, FetchPage(p) PROVE Sweeping'
    <2>1. Staged' = Staged /\ UNCHANGED <<cursor, due>> /\ sweep[p] = "running"
      BY <1>6 DEF FetchPage, tables, Staged
    <2>2. PICK rows \in SUBSET Unvisited(p) :
             /\ rows = {} => Unvisited(p) = {}
             /\ IsPage(p, rows)
             /\ page' = [page EXCEPT ![p] = rows]
             /\ sweep' = [sweep EXCEPT ![p] = IF rows = {} THEN "done" ELSE @]
      BY <1>6 DEF FetchPage
    <2>3. due[p] \cap Staged \subseteq Unvisited(p)
      BY <2>1 DEF Sweeping, Unvisited
    <2>4. \A q \in Processes \ {p} : page'[q] = page[q] /\ sweep'[q] = sweep[q]
      BY <1>0, <2>2 DEF WorkType
    <2>5. /\ page'[p] = rows
          /\ sweep'[p] = IF rows = {} THEN "done" ELSE "running"
      BY <1>0, <2>1, <2>2 DEF WorkType
    <2>6. \A e \in rows, f \in (due[p] \cap Staged) \ rows : Key[e] < Key[f]
      BY <2>2, <2>3 DEF IsPage
    <2> QED
      BY <2>1, <2>2, <2>3, <2>4, <2>5, <2>6, SweepingKept DEF Sweeping
  <1>7. ASSUME NEW p \in Processes, NextOfPage(p) PROVE Sweeping'
    <2>1. Staged' = Staged /\ sweep' = sweep /\ sweep[p] = "running"
      BY <1>7 DEF NextOfPage, tables, Staged
    <2>2. PICK e \in page[p] :
             /\ \A f \in page[p] : Key[e] <= Key[f]
             /\ page' = [page EXCEPT ![p] = @ \ {e}]
             /\ cursor' = [cursor EXCEPT ![p] = Key[e]]
             /\ due' = [due EXCEPT ![p] = @ \ {e}]
      BY <1>7 DEF NextOfPage
    <2>3. \A q \in Processes \ {p} :
             due'[q] = due[q] /\ page'[q] = page[q] /\ cursor'[q] = cursor[q]
      BY <1>0, <2>2 DEF WorkType
    <2>4. /\ page'[p] = page[p] \ {e} /\ cursor'[p] = Key[e] /\ due'[p] = due[p] \ {e}
          /\ e \in Escalations /\ page[p] \subseteq Escalations
      BY <1>0, <2>2 DEF WorkType
    <2>5. \A f \in page[p] \ {e} : Key[f] > Key[e]
      BY <2>2, <2>4, Limits
    <2>6. \A f \in (due'[p] \cap Staged) : Key[f] > Key[e]
      <3>1. \A f \in (due[p] \cap Staged) \ page[p] : Key[e] < Key[f]
        BY <2>1, <2>2 DEF Sweeping
      <3>2. \A f \in Staged : Key[f] \in Nat
        BY Limits DEF Staged
      <3> QED
        BY <2>4, <2>5, <3>1, <3>2, Limits
    <2>7. \A g \in page'[p], f \in (due'[p] \cap Staged) \ page'[p] : Key[g] < Key[f]
      BY <2>1, <2>4 DEF Sweeping
    <2> QED
      BY <2>1, <2>3, <2>4, <2>6, <2>7, SweepingKept DEF Sweeping
  <1>8. ASSUME UNCHANGED <<status, hydration>> PROVE Sweeping'
    BY <1>8 DEF Sweeping, hydration, Staged
  <1> QED
    BY <1>2, <1>3, <1>4, <1>5, <1>6, <1>7, <1>8
    DEF Next, vars, tables, Arm, Disarm, Tick, ClockStep, Sweep, Recover, Gate, Settle

\* A finished sweep left no row behind that was there when it began.
THEOREM SweepLeavesNone == Spec => []SweepCovers
  <1>1. TypeOK /\ Answered /\ Sweeping /\ [Next]_vars => (TypeOK /\ Answered /\ Sweeping)'
    BY TypeStep, AnsweredStep, SweepingStep
  <1>2. Init => TypeOK /\ Answered /\ Sweeping
    BY TypeInit, LedgerInit, SweepingInit
  <1>3. Sweeping => SweepCovers
    BY DEF Sweeping, SweepCovers
  <1> QED
    BY <1>1, <1>2, <1>3, PTL DEF Spec

\* Every row a sweep takes lies ahead of its watermark, which it then becomes
\* (run_boot_hydration_sweep); so a sweep takes at most as many rows as there are.
THEOREM SweepNeverRepeats == Spec => SweepAdvances
  <1> DEFINE Advances(p) ==
        sweep[p] = "running" /\ sweep'[p] = "running" =>
           IF page[p] # {} /\ page'[p] # page[p]
           THEN cursor'[p] > cursor[p]
           ELSE cursor'[p] = cursor[p]
  <1>1. ASSUME TypeOK, [Next]_vars, NEW q \in Processes PROVE Advances(q)
    <2>0. WorkType
      BY <1>1, TypeParts
    <2>1. ASSUME NEW p \in Processes, NextOfPage(p) PROVE Advances(q)
      <3>1. PICK e \in page[p] :
               /\ page' = [page EXCEPT ![p] = @ \ {e}]
               /\ cursor' = [cursor EXCEPT ![p] = Key[e]]
        BY <2>1 DEF NextOfPage
      <3>2. Key[e] > cursor[p]
        BY <2>0 DEF WorkType
      <3>3. CASE q = p
        BY <2>0, <3>1, <3>2, <3>3 DEF WorkType
      <3>4. CASE q # p
        BY <2>0, <3>1, <3>4 DEF WorkType
      <3> QED
        BY <3>3, <3>4
    <2>2. ASSUME NEW p \in Processes, FetchPage(p) PROVE Advances(q)
      BY <2>0, <2>2 DEF FetchPage, WorkType
    <2>3. ASSUME NEW p \in Processes, Boot(p) \/ Deadline(p) \/ Crash(p) \/ RecoveryFails(p)
          PROVE  Advances(q)
      BY <2>0, <2>3 DEF Boot, Deadline, Crash, RecoveryFails, WorkType
    <2>4. ASSUME UNCHANGED <<sweep, cursor, page>> PROVE Advances(q)
      BY <2>4
    <2>5. ASSUME NEW p \in Processes,
                 \/ Arm(p) \/ Disarm(p) \/ Recover(p) \/ Prune(p)
                 \/ \E e \in Escalations : StoreAnswer(p, e) \/ Settle(p, e)
          PROVE  UNCHANGED <<sweep, cursor, page>>
      <3>1. ASSUME Arm(p) \/ Disarm(p) \/ Prune(p) PROVE UNCHANGED hydration
        BY <3>1 DEF Arm, Disarm, Prune
      <3>2. ASSUME Recover(p) PROVE UNCHANGED hydration
        BY <3>2 DEF Recover, Gate, Validate, Sign, File
      <3>3. ASSUME NEW e \in Escalations, StoreAnswer(p, e) \/ Settle(p, e)
            PROVE  UNCHANGED hydration
        BY <3>3 DEF StoreAnswer, Settle
      <3>4. UNCHANGED hydration
        BY <2>5, <3>1, <3>2, <3>3
      <3> QED
        BY <3>4 DEF hydration
    <2>6. ASSUME Tick \/ ClockStep \/ UNCHANGED vars
          PROVE  UNCHANGED <<sweep, cursor, page>>
      BY <2>6 DEF vars, hydration, tables, Tick, ClockStep
    <2> HIDE DEF Advances
    <2> QED
      BY <1>1, <2>1, <2>2, <2>3, <2>4, <2>5, <2>6 DEF Next, Sweep
  <1>2. TypeOK /\ [Next]_vars => [\A p \in Processes : Advances(p)]_vars
    BY <1>1
  <1> QED
    BY <1>2, RecoveryTypeCorrect, PTL DEF Spec, SweepAdvances

(***************************************************************************)
(* The arm and the stamps a filing step rests on.                          *)
(***************************************************************************)
\* Past the arm gate.
Past == Cleared \cup {"gated"}

\* Inside a recovery's call the sidecar's own disarm cannot have come.
Gated ==
    /\ armUntil # 0 => disarmedBy = Nobody
    /\ \A p \in Processes : at[p] \in Past => disarmedBy # p

LEMMA GatedStep == TypeOK /\ Gated /\ [Next]_vars => Gated'
  <1> SUFFICES ASSUME TypeOK, Gated, [Next]_vars PROVE Gated'
    OBVIOUS
  <1>0. ArmType /\ WorkType /\ clock \in Nat
    BY TypeParts, Limits DEF ClockType
  <1>1. ASSUME UNCHANGED arm,
               \A q \in Processes : at'[q] \in Past =>
                   at[q] \in Past \/ Armed
        PROVE  Gated'
    BY <1>0, <1>1, Limits DEF Gated, arm, Armed, ArmType
  <1>2. ASSUME NEW p \in Processes, Gate(p) \/ Validate(p) \/ Sign(p) \/ File(p)
                                    \/ RecoveryFails(p) \/ Crash(p) \/ NextOfPage(p)
        PROVE  Gated'
    <2>1. UNCHANGED arm
      BY <1>2 DEF Gate, Validate, Sign, File, RecoveryFails, Crash, NextOfPage
    <2>2. \A q \in Processes : at'[q] \in Past =>
             at[q] \in Past \/ Armed
      BY <1>0, <1>2 DEF Gate, Validate, Sign, File, RecoveryFails, Crash, NextOfPage, LetGo,
                        WorkType, Past, Cleared
    <2> QED
      BY <1>1, <2>1, <2>2
  <1>3. ASSUME NEW p \in Processes, NEW e \in Escalations, StoreAnswer(p, e) PROVE Gated'
    <2>1. \A q \in Processes : at'[q] \in Past => at[q] \in Past
      BY <1>0, <1>3 DEF StoreAnswer, WorkType, Past, Cleared
    <2> QED
      BY <1>1, <1>3, <2>1 DEF StoreAnswer
  <1>4. ASSUME NEW p \in Processes, Arm(p) \/ Disarm(p) PROVE Gated'
    BY <1>0, <1>4, Limits DEF Arm, Disarm, Available, Gated, seam, Past, Cleared
  <1>5. ASSUME UNCHANGED <<arm, at>> PROVE Gated'
    BY <1>5 DEF Gated, arm
  <1> QED
    BY <1>2, <1>3, <1>4, <1>5
    DEF Next, vars, seam, Tick, ClockStep, Boot, Sweep, FetchPage, Deadline, Recover, Settle, Prune

\* What a sidecar signs, live or at boot, it signs under no disarm of its own.
THEOREM NoSigningAfterOwnDisarm == Spec => DisarmHonoured
  <1>1. TypeOK /\ Gated /\ [Next]_vars => (TypeOK /\ Gated)'
    BY TypeStep, GatedStep
  <1>2. Init => TypeOK /\ Gated
    BY TypeInit DEF Init, Gated, Past, Cleared
  <1>3. Gated /\ [Next]_vars =>
           [\A p \in Processes, e \in Escalations :
               NewlyFiled(e) /\ Files(p, e) => disarmedBy # p]_vars
    BY DEF Gated, Files, Past, Cleared
  <1> QED
    BY <1>1, <1>2, <1>3, PTL DEF Spec, DisarmHonoured

\* Only the filing transaction files, with a stamp past every other.
LEMMA OnlyFileFiles ==
    ASSUME TypeOK, [Next]_vars, NEW e \in Escalations, NewlyFiled(e)
    PROVE  \E p \in Processes, c \in Nat :
              /\ Stamps(now[p], c) /\ FileDirective(row[p], now[p], c)
              /\ Files(p, e) /\ ~Collides(e)
  <1>0. TableType /\ WorkType
    BY TypeParts
  <1>1. signings' # signings
    BY <1>0 DEF NewlyFiled, TableType
  <1>2. PICK p \in Processes : File(p)
    BY <1>1 DEF Next, vars, tables, Arm, Disarm, Tick, ClockStep, Boot, Crash, Sweep, FetchPage,
                NextOfPage, Deadline, Recover, Gate, Validate, Sign, RecoveryFails,
                StoreAnswer, Settle, Prune
  <1>3. PICK c \in Nat :
           /\ Stamps(now[p], c)
           /\ HoldForSkew(now[p], c) \/ FileDirective(row[p], now[p], c)
    BY <1>2, FileStamp
  <1>4. row[p] \in Escalations
    BY <1>0, <1>2, InHandIsARow DEF File
  <1>5. FileDirective(row[p], now[p], c)
    BY <1>1, <1>3 DEF HoldForSkew
  <1>6. ~Collides(row[p]) /\ e = row[p]
    BY <1>0, <1>1, <1>4, <1>5 DEF FileDirective, NewlyFiled, TableType
  <1>7. Files(p, e)
    BY <1>0, <1>2, <1>6 DEF Files, File, LetGo, WorkType
  <1> QED
    BY <1>3, <1>5, <1>6, <1>7

LEMMA StampsInOrder ==
    ASSUME TypeOK, [Next]_vars, NEW e \in Escalations, NewlyFiled(e)
    PROVE  /\ \A f \in Filed : directive[f].created < directive'[e].created
           /\ \E p \in Processes : Files(p, e) /\ directive'[e].created - now[p] <= MaxSkew
           /\ directive'[e].expires - directive'[e].created = Ttl
  <1>1. PICK p \in Processes, c \in Nat :
           Stamps(now[p], c) /\ FileDirective(row[p], now[p], c) /\ Files(p, e) /\ ~Collides(e)
    BY OnlyFileFiles
  <1>2. directive'[e] = SignedRow(e, c)
    BY <1>1 DEF FileDirective, Files, TypeOK
  <1>3. directive'[e].created = c /\ directive'[e].expires = c + Ttl
    BY <1>2 DEF SignedRow
  <1>4. \A f \in Filed : directive[f].created < c
    BY <1>1 DEF Stamps, Floor
  <1>5. c - now[p] <= MaxSkew
    BY <1>1 DEF FileDirective
  <1> QED
    BY <1>1, <1>3, <1>4, <1>5, Limits

\* The order and the windows of the stamps.
THEOREM StampsAreMonotone == Spec => FiledInOrder
  <1>1. TypeOK /\ [Next]_vars =>
           [\A e \in Escalations : NewlyFiled(e) =>
               /\ \A f \in Filed : directive[f].created < directive'[e].created
               /\ \E p \in Processes :
                     Files(p, e) /\ directive'[e].created - now[p] <= MaxSkew
               /\ directive'[e].expires - directive'[e].created = Ttl]_vars
    BY StampsInOrder
  <1> QED
    BY <1>1, TypeInit, TypeStep, PTL DEF Spec, FiledInOrder

(***************************************************************************)
(* The two tables as their other sides know them.                          *)
(***************************************************************************)
Standing == [e \in Escalations |-> DirectiveState(e)]
Stamped == [e \in Escalations |-> directive[e].created]

LEMMA DirectivesInit == Init => OutboxTable!Init
  BY DEF Init, OutboxTable!Init, DirectiveState, NoDirective

LEMMA OnFileIsFiled == TypeOK => OutboxTable!OnFile = Filed
  BY DEF TypeOK, OutboxTable!OnFile, Filed, DirectiveState, DirStates

\* A filing is the only step that files, and one row's first.
LEMMA FilingStep ==
    ASSUME TypeOK, Ledger, NEW p \in Processes, File(p),
           ~ UNCHANGED <<directive, signings>>
    PROVE  \E e \in Escalations : OutboxTable!File(e)
  <1>1. PICK c \in Nat :
           /\ Stamps(now[p], c)
           /\ HoldForSkew(now[p], c) \/ FileDirective(row[p], now[p], c)
    BY FileStamp
  <1>2. PICK e \in Escalations : e = row[p]
    BY TypeParts, InHandIsARow DEF File
  <1>3. FileDirective(e, now[p], c) /\ ~Collides(e)
    BY <1>1, <1>2 DEF HoldForSkew, FileDirective
  <1>4. /\ directive' = [directive EXCEPT ![e] = SignedRow(e, c)]
        /\ signings' = [signings EXCEPT ![e] = @ + 1]
        /\ status[e] # "gone"
    BY <1>3 DEF FileDirective
  <1>5. signings[e] = 0 /\ e \notin Filed
    BY <1>2, <1>3, <1>4 DEF Ledger, TypeOK, Filed, Collides
  <1>6. DirectiveState(e) = "absent"
    BY <1>3, <1>5 DEF DirectiveState, Collides
  <1>7. directive'[e] = SignedRow(e, c)
    BY <1>2, <1>4 DEF TypeOK
  <1>8. \E s \in {"staged", "ended"} : DirectiveState(e)' = s
    BY <1>7 DEF DirectiveState, SignedRow
  <1>9. \A f \in Escalations \ {e} : directive'[f] = directive[f] /\ signings'[f] = signings[f]
    BY <1>4 DEF TypeOK
  <1>10. \A f \in Escalations \ {e} : DirectiveState(f)' = DirectiveState(f)
    BY <1>9 DEF DirectiveState
  <1>11. Standing[e] = "absent"
    BY <1>6 DEF Standing
  <1>12. \E s \in {"staged", "ended"} : Standing' = [Standing EXCEPT ![e] = s]
    <2>1. PICK s \in {"staged", "ended"} : DirectiveState(e)' = s
      BY <1>8
    <2>2. Standing' = [Standing EXCEPT ![e] = s]
      BY <1>10, <2>1 DEF Standing
    <2> QED
      BY <2>2
  <1>13. Stamped'[e] = c
    BY <1>7 DEF Stamped, SignedRow
  <1>14. Stamped' = [Stamped EXCEPT ![e] = Stamped'[e]]
    BY <1>9 DEF Stamped
  <1>15. \A f \in Filed : Stamped[f] < c
    BY <1>1 DEF Stamps, Floor, Stamped, Filed
  <1>16. OutboxTable!File(e)
    BY <1>11, <1>12, <1>13, <1>14, <1>15, OnFileIsFiled DEF OutboxTable!File, Standing, Stamped
  <1> QED
    BY <1>16

LEMMA EndingStep ==
    ASSUME TypeOK, NEW p \in Processes, NEW e \in Escalations, Settle(p, e)
    PROVE  OutboxTable!End({e})
  <1>1. /\ directive[e].state = "staged" /\ signings' = signings
        /\ directive' = [directive EXCEPT ![e].state = "ended"]
    BY DEF Settle
  <1>2. /\ directive'[e].state = "ended" /\ directive'[e].created = directive[e].created
        /\ \A f \in Escalations \ {e} : directive'[f] = directive[f]
    BY <1>1 DEF TypeOK
  <1>3. \A f \in Escalations :
           DirectiveState(f)' = IF f \in {e} THEN "ended" ELSE DirectiveState(f)
    BY <1>1, <1>2 DEF DirectiveState
  <1>4. Stamped' = Stamped
    BY <1>2 DEF Stamped
  <1> QED
    BY <1>1, <1>3, <1>4 DEF OutboxTable!End, DirectiveState, Stamped

LEMMA PruningStep ==
    ASSUME TypeOK, Ledger, NEW p \in Processes, Prune(p)
    PROVE  \E S \in SUBSET Escalations : OutboxTable!Prune(S)
  <1>1. PICK S \in SUBSET {e \in Filed : directive[e].state # "staged"} :
           directive' = [e \in Escalations |-> IF e \in S THEN NoDirective ELSE directive[e]]
    BY DEF Prune
  <1>2. S \in SUBSET Escalations /\ \A e \in S : DirectiveState(e) = "ended"
    BY <1>1 DEF DirectiveState, Filed
  <1>3. signings' = signings /\ \A e \in S : signings[e] > 0
    BY <1>1 DEF Prune, Ledger, TypeOK, Filed
  <1>4. \A e \in Escalations :
           DirectiveState(e)' = IF e \in S THEN "pruned" ELSE DirectiveState(e)
    BY <1>1, <1>3 DEF DirectiveState, NoDirective
  <1>5. \A e \in Escalations :
           directive'[e].created = IF e \in S THEN 0 ELSE directive[e].created
    BY <1>1 DEF NoDirective
  <1>6. OutboxTable!Prune(S)
    BY <1>2, <1>4, <1>5 DEF OutboxTable!Prune
  <1> QED
    BY <1>2, <1>6

LEMMA DirectivesStep ==
    ASSUME TypeOK, Ledger, [Next]_vars
    PROVE  [OutboxTable!Next]_(OutboxTable!vars)
  <1>1. ASSUME UNCHANGED <<directive, signings>> PROVE UNCHANGED OutboxTable!vars
    BY <1>1 DEF OutboxTable!vars, DirectiveState
  <1>2. ASSUME NEW p \in Processes, File(p)
        PROVE  OutboxTable!Next \/ UNCHANGED OutboxTable!vars
    BY <1>1, <1>2, FilingStep DEF OutboxTable!Next
  <1>3. ASSUME NEW p \in Processes, NEW e \in Escalations, Settle(p, e) PROVE OutboxTable!Next
    BY <1>3, EndingStep DEF OutboxTable!Next
  <1>4. ASSUME NEW p \in Processes, Prune(p) PROVE OutboxTable!Next
    BY <1>4, PruningStep DEF OutboxTable!Next
  <1>5. \/ UNCHANGED <<directive, signings>>
        \/ \E p \in Processes : File(p) \/ Prune(p) \/ \E e \in Escalations : Settle(p, e)
    BY DEF Next, vars, tables, Arm, Disarm, Tick, ClockStep, Boot, Crash, Sweep, FetchPage,
           NextOfPage, Deadline, Recover, Gate, Validate, Sign, RecoveryFails, StoreAnswer
  <1> QED
    BY <1>1, <1>2, <1>3, <1>4, <1>5

\* What the outbox relies on: a directive is filed once, stamped after all that are on
\* file, and leaves the table only after its end (persist_signed_directive_tx,
\* prune_terminal_rows).
THEOREM DirectiveRefinement == Spec => DirectivesAreKept
  <1>1. TypeOK /\ Ledger /\ Answered /\ [Next]_vars =>
           (TypeOK /\ Ledger /\ Answered)' /\ [OutboxTable!Next]_(OutboxTable!vars)
    BY TypeStep, LedgerStep, AnsweredStep, DirectivesStep
  <1> QED
    BY <1>1, TypeInit, LedgerInit, DirectivesInit, PTL
    DEF Spec, DirectivesAreKept, OutboxTable!Spec

LEMMA RowsInit == Init => PendingEscalations!Init
  BY DEF Init, PendingEscalations!Init, RowState

Kept == [e \in Escalations |-> IF status[e] = "gone" THEN "none" ELSE answer[e]]

LEMMA AnsweringStep ==
    ASSUME TypeOK, NEW p \in Processes, NEW e \in Escalations, StoreAnswer(p, e)
    PROVE  PendingEscalations!Stage(e)
  <1>1. PICK k \in Answers[e] : answer' = [answer EXCEPT ![e] = k]
    BY DEF StoreAnswer
  <1>2. k # "none"
    BY Limits DEF Kinds
  <1>3. status[e] = "claimed" /\ status' = [status EXCEPT ![e] = "council_response_staged"]
    BY DEF StoreAnswer
  <1>4. /\ RowState(e) = "open" /\ RowState(e)' = "staged"
        /\ \A f \in Escalations \ {e} : RowState(f)' = RowState(f)
    BY <1>3 DEF RowState, TypeOK
  <1>5. Kept'[e] = k /\ \A f \in Escalations \ {e} : Kept'[f] = Kept[f]
    BY <1>1, <1>3 DEF Kept, TypeOK
  <1>6. Kept' = [Kept EXCEPT ![e] = Kept'[e]]
    BY <1>5 DEF Kept
  <1> QED
    BY <1>2, <1>4, <1>5, <1>6 DEF PendingEscalations!Stage, Kept

\* Whatever a recovery writes, it ends the row in hand or leaves it ended.
LEMMA RecoveringStep ==
    ASSUME TypeOK, Answered, NEW p \in Processes, Validate(p) \/ Sign(p) \/ File(p)
    PROVE  \/ \E e \in Escalations : PendingEscalations!End(e)
           \/ UNCHANGED PendingEscalations!vars
  <1>1. PICK e \in Escalations : e = row[p] /\ status[e] # "claimed"
    BY TypeParts, InHandIsARow DEF Validate, Sign, File, Answered
  <1>2. answer' = answer
    BY DEF Validate, Sign, File
  <1>3. \/ status' = status
        \/ /\ status[e] # "gone"
           /\ \E s \in Ends : status' = [status EXCEPT ![e] = s]
    BY <1>1 DEF Validate, Sign, DeadLetter, File, HoldForSkew, FileDirective, Ends
  <1>4. CASE status' = status
    BY <1>2, <1>4 DEF PendingEscalations!vars, RowState
  <1>5. CASE /\ status[e] # "gone"
             /\ \E s \in Ends : status' = [status EXCEPT ![e] = s]
    <2>1. /\ status'[e] \in Ends
          /\ \A f \in Escalations \ {e} : status'[f] = status[f]
      BY <1>1, <1>5 DEF TypeOK
    <2>2. /\ RowState(e) \in {"staged", "ended"} /\ RowState(e)' = "ended"
          /\ \A f \in Escalations \ {e} : RowState(f)' = RowState(f)
      BY <1>1, <1>5, <2>1 DEF RowState, Ends
    <2>3. Kept' = Kept
      BY <1>2, <1>5, <2>1 DEF Kept, Ends
    <2>4. CASE RowState(e) = "staged"
      <3>1. PendingEscalations!End(e)
        BY <1>1, <2>2, <2>3, <2>4 DEF PendingEscalations!End, Kept
      <3> QED
        BY <1>1, <3>1
    <2>5. CASE RowState(e) = "ended"
      BY <2>2, <2>3, <2>5 DEF PendingEscalations!vars, Kept
    <2> QED
      BY <2>2, <2>4, <2>5
  <1> QED
    BY <1>3, <1>4, <1>5

LEMMA RowPruningStep ==
    ASSUME NEW p \in Processes, Prune(p)
    PROVE  \E S \in SUBSET Escalations : PendingEscalations!Prune(S)
  <1>1. PICK S \in SUBSET {e \in Escalations : status[e] \in Ends} :
           status' = [e \in Escalations |-> IF e \in S THEN "gone" ELSE status[e]]
    BY DEF Prune, Ends
  <1>2. answer' = answer
    BY DEF Prune
  <1>3. \A e \in S : RowState(e) = "ended"
    BY DEF RowState, Ends
  <1>4. \A e \in Escalations :
           /\ RowState(e)' = IF e \in S THEN "absent" ELSE RowState(e)
           /\ (IF status[e] = "gone" THEN "none" ELSE answer[e])' =
                 IF e \in S THEN "none" ELSE IF status[e] = "gone" THEN "none" ELSE answer[e]
    BY <1>1, <1>2 DEF RowState
  <1>5. PendingEscalations!Prune(S)
    BY <1>3, <1>4 DEF PendingEscalations!Prune
  <1> QED
    BY <1>5

LEMMA RowsStep ==
    ASSUME TypeOK, Answered, [Next]_vars
    PROVE  [PendingEscalations!Next]_(PendingEscalations!vars)
  <1>1. ASSUME UNCHANGED <<status, answer>> PROVE UNCHANGED PendingEscalations!vars
    BY <1>1 DEF PendingEscalations!vars, RowState
  <1>2. ASSUME NEW p \in Processes, Validate(p) \/ Sign(p) \/ File(p)
        PROVE  PendingEscalations!Next \/ UNCHANGED PendingEscalations!vars
    BY <1>2, RecoveringStep DEF PendingEscalations!Next
  <1>3. ASSUME NEW p \in Processes, NEW e \in Escalations, StoreAnswer(p, e)
        PROVE  PendingEscalations!Next
    BY <1>3, AnsweringStep DEF PendingEscalations!Next
  <1>4. ASSUME NEW p \in Processes, Prune(p) PROVE PendingEscalations!Next
    BY <1>4, RowPruningStep DEF PendingEscalations!Next
  <1>5. \/ UNCHANGED <<status, answer>>
        \/ \E p \in Processes : \/ Validate(p) \/ Sign(p) \/ File(p) \/ Prune(p)
                                \/ \E e \in Escalations : StoreAnswer(p, e)
    BY DEF Next, vars, tables, Arm, Disarm, Tick, ClockStep, Boot, Crash, Sweep, FetchPage,
           NextOfPage, Deadline, Recover, Gate, RecoveryFails, Settle
  <1> QED
    BY <1>1, <1>2, <1>3, <1>4, <1>5

\* What the dispatcher relies on: the answer it staged stands, and its row is ended
\* once and never opened again, by whichever sidecar recovers it.
THEOREM RowRefinement == Spec => AnswersAreKept
  <1>1. TypeOK /\ Answered /\ [Next]_vars =>
           (TypeOK /\ Answered)' /\ [PendingEscalations!Next]_(PendingEscalations!vars)
    BY TypeStep, AnsweredStep, RowsStep
  <1> QED
    BY <1>1, TypeInit, LedgerInit, RowsInit, PTL
    DEF Spec, AnswersAreKept, PendingEscalations!Spec
=============================================================================
