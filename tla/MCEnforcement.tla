--------------------------- MODULE MCEnforcement ---------------------------
(* Two games, two tasks that dispatch, one reason; the process fallback is *)
(* in use, so that a flow may go through all its phases.                   *)
EXTENDS Enforcement
MCOptions == {[fallback |-> TRUE, force |-> b] : b \in BOOLEAN}
=============================================================================
