-------------------------- MODULE MCProducerArming --------------------------
(***************************************************************************)
(* Small instances of ProducerArming for TLC: instance a is armed by its   *)
(* environment and by ceremonies, b by ceremonies alone.                   *)
(***************************************************************************)
EXTENDS ProducerArming

\* The boot task of a, and a task for a ceremony of each instance.
MCProducers == {"a1", "a2", "b1"}

\* A task of each.
MCTwoProducers == {"a1", "b1"}

MCOwner == [i \in Producers |-> IF i = "b1" THEN "b" ELSE "a"]
MCEpoch == [p \in Instances |-> IF p = "a" THEN 1 ELSE 2]
=============================================================================
