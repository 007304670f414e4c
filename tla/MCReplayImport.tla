--------------------------- MODULE MCReplayImport ---------------------------
(* Bounds of the run are in its configuration.                             *)
EXTENDS ReplayImport
=============================================================================
