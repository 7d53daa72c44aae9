-------------------------- MODULE MCGatewayRequests --------------------------
(***************************************************************************)
(* Small instances of GatewayRequests for TLC.  Each request may turn out  *)
(* a chat, a council request or a batch.                                   *)
(***************************************************************************)
EXTENDS GatewayRequests

MCRequests == {"q", "r"}
MCCosts == {3}
=============================================================================
