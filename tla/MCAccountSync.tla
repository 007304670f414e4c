--------------------------- MODULE MCAccountSync ---------------------------
(* Instances of AccountSync: two accounts, which may sign in again and again. *)
EXTENDS AccountSync, TLC

CONSTANTS a, b

TwoLogins == 1..2
OfTwoAccounts == [l \in TwoLogins |-> IF l = 1 THEN a ELSE b]
=============================================================================
