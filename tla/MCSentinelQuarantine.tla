------------------------ MODULE MCSentinelQuarantine ------------------------
(***************************************************************************)
(* A small instance of SentinelQuarantine for TLC.                         *)
(***************************************************************************)
EXTENDS SentinelQuarantine

MCWakes == {"wake"}
=============================================================================
