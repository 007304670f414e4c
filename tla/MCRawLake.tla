----------------------------- MODULE MCRawLake -----------------------------
(* An instance of RawLake: one event of an old client, two of one group,   *)
(* and two of other devices.                                               *)
EXTENDS RawLake, TLC

CONSTANTS old, e1, e2, f1, f2

OneGroup == old :> 0 @@ e1 :> 1 @@ e2 :> 1 @@ f1 :> 5 @@ f2 :> 5
=============================================================================
