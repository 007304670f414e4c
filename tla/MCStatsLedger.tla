--------------------------- MODULE MCStatsLedger ---------------------------
(* Instances of StatsLedger for TLC. *)
EXTENDS StatsLedger, TLC

CONSTANTS h1, h2, p1, p2, b1, b2

\* One result per hand; every player sits in every hand.
TwoHands == 1 :> h1 @@ 2 :> h2
EveryoneSeated == [r \in Results |-> Players]
OneCell == [r \in Results |-> 1]

\* The first hand is reported twice; the second report seats another lineup.
ResentHand == 1 :> h1 @@ 2 :> h1 @@ 3 :> h2
ResentLineup == 1 :> {p1, p2} @@ 2 :> {p1} @@ 3 :> {p1}
\* It falls in another cell of the window, or in the same one.
ResentCell == 1 :> 1 @@ 2 :> 2 @@ 3 :> 1
=============================================================================
