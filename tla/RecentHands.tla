----------------------------- MODULE RecentHands -----------------------------
(***************************************************************************)
(* What the panel of a player's recent hands says of one hand:             *)
(* src/services/recent-hands-service.ts reads it out of the stored rows,   *)
(* src/components/hud/RecentHandsPanel.tsx joins the streets to one cell.  *)
(* A label is [kind, bets, folded]: the bet it was, counted from the blind *)
(* (2 the opening raise, 3 the 3-bet; of a call, what it called).  Cards   *)
(* are given by where they come from.                                      *)
(***************************************************************************)
EXTENDS HandStats, FiniteSetsExt

Largest(S) == Max(S \cup {0})
NoLabel == [kind |-> "none", bets |-> 0, folded |-> FALSE]

isDealtIn(hand, u) == u # -1 /\ \E s \in DOMAIN hand.seatUserIds : hand.seatUserIds[s] = u

\* An all-in is stored as a raise whatever its size: here it counts as one only
\* if it is above the bet it faced.  i is the place of the action in the hand.
facingBetBefore(actions, i, fallback) ==
  LET prior == {actions[j].bet : j \in {k \in 1 .. i - 1 : /\ actions[k].phase = actions[i].phase
                                                           /\ actions[k].playerId # actions[i].playerId}}
  IN IF Largest(prior) > 0 THEN Largest(prior) ELSE fallback
resolveEffectiveActionType(actions, i, bigBlind) ==
  LET a == actions[i]
      facing == facingBetBefore(actions, i, IF a.phase = PREFLOP THEN bigBlind ELSE 0)
  IN IF "ALL_IN" \in a.details /\ IsAggressive(a) /\ facing > 0 /\ a.bet <= facing
     THEN "CALL" ELSE a.actionType
EffectivelyAggressive(actions, i, bigBlind) ==
  resolveEffectiveActionType(actions, i, bigBlind) \in {"BET", "RAISE"}

-----------------------------------------------------------------------------
(* Before the flop *)

computePhasePrevBetCount(actions, i, bigBlind) ==
  Cardinality({j \in 1 .. i - 1 : /\ actions[j].phase = actions[i].phase
                                  /\ EffectivelyAggressive(actions, j, bigBlind)})
    + (IF actions[i].phase = PREFLOP THEN 1 ELSE 0)

\* The label is that of the last action but a fold, which is said after it; with
\* it goes the place of the action that decided it, if its size is told.
derivePreflopLabeling(hand, actions, u) ==
  LET own == SelectSeq([i \in DOMAIN actions |-> i],
                       LAMBDA i : actions[i].playerId = u /\ actions[i].phase = PREFLOP)
      step(l, i) ==
        LET bets == computePhasePrevBetCount(actions, i, hand.bigBlind)
            cold == bets > 1 /\ l.label.kind = "none"
            to(kind, n, sized) == [label |-> [kind |-> kind, bets |-> n, folded |-> FALSE],
                                   at |-> i, sized |-> sized]
        IN CASE actions[i].actionType = "FOLD" ->
                  [l EXCEPT !.label.folded = TRUE, !.label.kind = IF @ = "none" THEN "fold" ELSE @]
             [] actions[i].actionType = "CHECK" -> to("check", 0, FALSE)
             [] actions[i].actionType = "CALL" ->
                  IF bets <= 1 THEN to("limp", 0, FALSE)
                  ELSE IF cold THEN to("cold call", bets, TRUE) ELSE to("call", 0, FALSE)
             [] IsAggressive(actions[i]) -> to("raise", bets + 1, TRUE)
      walk == [NoLabel EXCEPT !.kind = IF hand.bigBlindUserId = u THEN "walk" ELSE "none"]
  IN IF own = <<>> THEN [label |-> walk, at |-> 0, sized |-> FALSE]
     ELSE FoldLeft(step, [label |-> NoLabel, at |-> 0, sized |-> FALSE], own)

\* The size of the label in chips, none (0) for an all-in that was but a call.
derivePreflopLineAmount(hand, actions, l) ==
  IF ~l.sized \/ (IsAggressive(actions[l.at]) /\ ~EffectivelyAggressive(actions, l.at, hand.bigBlind))
  THEN 0 ELSE actions[l.at].bet

-----------------------------------------------------------------------------
(* After it *)

computeIncrementWhole(actions, i) == actions[i].bet  \* mutant
computeIncrement(actions, i) ==
  actions[i].bet - Largest({actions[j].bet : j \in {k \in 1 .. i - 1 :
                     actions[k].phase = actions[i].phase /\ actions[k].playerId = actions[i].playerId}})
computePotBefore(actions, i) == actions[i].pot + actions[i].sidePot - computeIncrement(actions, i)

\* The actions of the player on one street, with what each added to which pot.
derivePostflopLine(actions, u, phase) ==
  LET own == SelectSeq([i \in DOMAIN actions |-> i],
                       LAMBDA i : actions[i].playerId = u /\ actions[i].phase = phase)
      told(i) == [at |-> i, actionType |-> resolveEffectiveActionType(actions, i, 0),
                  allIn |-> "ALL_IN" \in actions[i].details,
                  increment |-> computeIncrement(actions, i),
                  potBefore |-> computePotBefore(actions, i),
                  sized |-> EffectivelyAggressive(actions, i, 0) /\ computeIncrement(actions, i) > 0]
  IN [k \in DOMAIN own |-> told(own[k])]
derivePostflopLines(actions, u) == [phase \in FLOP .. FLOP + 2 |-> derivePostflopLine(actions, u, phase)]

\* The cell: the streets up to the last one played, an empty one as a dash.
formatPostflopLines(lines) ==
  SubSeq(lines, 1, Largest({phase \in DOMAIN lines : lines[phase] # <<>>}))

-----------------------------------------------------------------------------
(* The hand *)

shownAtShowdown(row) == row.RankType \notin {"NO_CALL", "FOLD_OPEN"}
RowOf(hand, u) == {hand.results[i] : i \in {j \in DOMAIN hand.results : hand.results[j].UserId = u}}

\* The server's row names the cards, or the deal does if the panel is the hero's
\* and the stored deal was the hero's own; a card shown after a fold is not told.
deriveHoleCards(hand, u) == \E row \in RowOf(hand, u) : shownAtShowdown(row) /\ row.HoleCards
readHeroDealtHoleCards(deal, u) ==
  deal.Hero \in DOMAIN deal.SeatUserIds /\ deal.SeatUserIds[deal.Hero] = u
holeCardsSource(hand, deal, u, heroPanel) ==
  CASE deriveHoleCards(hand, u) -> "results"
    [] ~deriveHoleCards(hand, u) /\ heroPanel /\ readHeroDealtHoleCards(deal, u) -> "dealt"
    [] OTHER -> "none"

deriveBoard(phases) ==
  LET boards == {phases[i].communityCards : i \in DOMAIN phases}
  IN CHOOSE b \in boards \cup {<<>>} : \A o \in boards : Len(o) <= Len(b)

wentToShowdown(hand, u) == \E row \in RowOf(hand, u) : shownAtShowdown(row)
deriveSawFlop(hand, phases, u) ==
  \/ \E i \in DOMAIN phases : phases[i].phase = FLOP /\ u \in phases[i].seatUserIds
  \/ wentToShowdown(hand, u)

\* An entry of the panel.  stored: a row set of HandEntities.
PanelEntry(stored, deal, u, heroPanel, label) ==
  LET hand == stored.hand
  IN [preflopLine |-> label.label, at |-> label.at,
      amount |-> derivePreflopLineAmount(hand, stored.actions, label),
      postflopLines |-> derivePostflopLines(stored.actions, u),
      position |-> resolvePosition(hand, u, OfPlayer(stored.actions, u)),
      holeCards |-> holeCardsSource(hand, deal, u, heroPanel),
      board |-> deriveBoard(stored.phases), sawFlop |-> deriveSawFlop(hand, stored.phases, u),
      wentToShowdown |-> wentToShowdown(hand, u),
      netChips |-> hand.playerChipAccounting[u].netChips]
RecentHand(stored, deal, u, heroPanel) ==
  PanelEntry(stored, deal, u, heroPanel, derivePreflopLabeling(stored.hand, stored.actions, u))

\* The filter of the panel: a hand that cost the player more than the posts.
isVoluntaryParticipation(entry) ==
  entry.preflopLine \notin {[NoLabel EXCEPT !.kind = "fold", !.folded = TRUE], [NoLabel EXCEPT !.kind = "walk"]}
    \/ entry.sawFlop \/ entry.wentToShowdown
=============================================================================
