---------------------------- MODULE MCHandRecord ----------------------------
(* Instances of HandRecord: four deals of four seats, small blind 1, big    *)
(* blind 2; -1 is an empty seat.                                             *)
EXTENDS HandRecord, TLC

Deal(seats, start, ante, btn, sb, bb, battleType, hero) ==
  [seats |-> seats, start |-> start, ante |-> ante, sb |-> 1, bb |-> 2, btn |-> btn,
   sbSeat |-> sb, bbSeat |-> bb, battleType |-> battleType, hero |-> hero]

\* Three-handed with one short stack, heads-up with antes in a ring game, and
\* four-handed with one stack or two that the ante takes whole.
ShortStack == Deal(<<11, 12, -1, 13>>, <<3, 6, 0, 6>>, 0, 1, 2, 4, "SIT_AND_GO", 1)
HeadsUp == Deal(<<11, -1, 12, -1>>, <<9, 0, 6, 0>>, 1, 1, 1, 3, "RING_GAME", 1)
AnteAllIn == Deal(<<11, 12, 13, 14>>, <<1, 4, 5, 6>>, 3, 2, 3, 4, "SIT_AND_GO", 3)
AnteAllIns == Deal(<<11, 12, 13, 14>>, <<1, 2, 5, 6>>, 3, 2, 3, 4, "SIT_AND_GO", 3)

FourDeals == {ShortStack, HeadsUp, AnteAllIn, AnteAllIns}

\* The higher seat wins, the lower seat wins, or everybody ties.
ThreeShowdowns == {[s \in 1..4 |-> s], [s \in 1..4 |-> -s], [s \in 1..4 |-> 0]}
=============================================================================
