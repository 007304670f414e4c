--------------------------- MODULE MCForcedUpdate ---------------------------
(* An instance of ForcedUpdate. *)
EXTENDS ForcedUpdate
CONSTANTS c1, c2, c3
=============================================================================
