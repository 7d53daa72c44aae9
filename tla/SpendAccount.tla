---------------------------- MODULE SpendAccount ----------------------------
(***************************************************************************)
(* What a spend limit promises, wherever the money is booked: a balance is *)
(* what is held and what was charged.  A holder takes one reservation at a *)
(* time and only within the limit, and each reservation leaves the balance *)
(* once and whole, when a cost takes its place or nothing does.            *)
(***************************************************************************)
EXTENDS Integers, FiniteSets

CONSTANTS Spenders, Amounts, Limit, Nothing

VARIABLES held, balance

Init ==
    /\ held = [h \in Spenders |-> Nothing]
    /\ balance = 0

Reserve(h, amount) ==
    /\ held[h] = Nothing
    /\ balance + amount <= Limit
    /\ held' = [held EXCEPT ![h] = amount]
    /\ balance' = balance + amount

Settle(h, cost) ==
    /\ held[h] # Nothing
    /\ held' = [held EXCEPT ![h] = Nothing]
    /\ balance' = balance - held[h] + cost

\* Reservations of the same amount, released at once.
Release(S, amount) ==
    /\ \A h \in S : held[h] = amount
    /\ held' = [h \in Spenders |-> IF h \in S THEN Nothing ELSE held[h]]
    /\ balance' = balance - amount * Cardinality(S)

Next ==
    \/ \E h \in Spenders, a \in Amounts : Reserve(h, a) \/ Settle(h, a)
    \/ \E S \in SUBSET Spenders, a \in Amounts : Release(S, a)

vars == <<held, balance>>

Spec == Init /\ [][Next]_vars
=============================================================================
