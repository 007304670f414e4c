------------------------------ MODULE GameTypes ------------------------------
(***************************************************************************)
(* The values of the wire that every part of the program shares            *)
(* (src/types/game.ts and the markers that the events use).                *)
(***************************************************************************)
EXTENDS Integers

NoUser == -1      \* SeatUserIds of an empty seat
HandEnding == -2  \* NextActionSeat of the action that ends the hand

PREFLOP == 0
FLOP == 1
TURN == 2
RIVER == 3
SHOWDOWN == 4
=============================================================================
