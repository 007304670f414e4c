----------------------------- MODULE MCLiveHud -----------------------------
(***************************************************************************)
(* The hero (1) plays two tables of three: opponent 2 sits at both, to the  *)
(* hero's left at the first and to the right at the second.                 *)
(***************************************************************************)
EXTENDS LiveHud

TwoTabs == {1, 2}
LastSeat == {3}
Tables == <<[hero |-> 0, players |-> <<1, 2, 3>>], [hero |-> 1, players |-> <<4, 1, 2>>]>>
Anything == AllFaults
Solitary == AllFaults \ {"disconnect", "filter", "missed", "spectate"}
=============================================================================
