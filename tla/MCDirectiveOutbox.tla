------------------------- MODULE MCDirectiveOutbox -------------------------
(***************************************************************************)
(* Small instances of DirectiveOutbox for TLC.                             *)
(***************************************************************************)
EXTENDS DirectiveOutbox

MCDirectives == {1, 2}
MCCreatedAt == [d \in Directives |-> d]
MCLoops == {"loop"}
MCRemotes == {"remote"}
MCNone == {}
=============================================================================
