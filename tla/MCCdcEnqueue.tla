---------------------------- MODULE MCCdcEnqueue ----------------------------
(***************************************************************************)
(* A small instance of CdcEnqueue for TLC: three causes of one tenant, one *)
(* of them fired twice, and a poisoned cause of another.                   *)
(***************************************************************************)
EXTENDS CdcEnqueue

MCFeed == <<"x1", "bad", "x2", "x1", "x3">>
MCTenantOf == [c \in Causes |-> IF c = "bad" THEN "y" ELSE "x"]
=============================================================================
