----------------------------- MODULE HandStats -----------------------------
(***************************************************************************)
(* The statistics of one hand: src/utils/position-utils.ts, the detectors  *)
(* and formulas of src/stats/core/, src/stats/hand-contribution.ts and     *)
(* src/utils/table-size.ts.  An action is a record [playerId, phase,       *)
(* actionType, bet, position, details]; the list of details is a set.  A   *)
(* statistic is the pair <<numerator, denominator>>.                       *)
(***************************************************************************)
EXTENDS GameTypes, Sequences, FiniteSets, SequencesExt

HandEndingNextActionSeat == -2

-----------------------------------------------------------------------------
(* Positions *)

getBigBlindUserId(seatUserIds, bbSeat) ==
  IF bbSeat \in DOMAIN seatUserIds THEN seatUserIds[bbSeat] ELSE NoUser

\* The seats between the big blind and the button, in the order they act.  A
\* walk from a button on the big blind goes round the table.
EarlyToLate(seatUserIds, game) ==
  LET n == Len(seatUserIds)
      seat(k) == ((game.BigBlindSeat - 1 + k) % n) + 1
      atButton(k) == seat(k) = game.ButtonSeat /\ game.ButtonSeat # game.BigBlindSeat
      walk == [k \in 1 .. n - 1 |-> seat(k)]
      special == {game.ButtonSeat, game.SmallBlindSeat, game.BigBlindSeat}
      upto == {k \in 1 .. n - 1 : \A j \in 1 .. k : ~atButton(j)}
  IN SelectSeq(SubSeq(walk, 1, Cardinality(upto)),
               LAMBDA s : s \notin special /\ seatUserIds[s] # NoUser)

LateLabels == <<"CO", "HJ", "UTG">>

SeatPosition(seatUserIds, game, s) ==
  LET late == Reverse(EarlyToLate(seatUserIds, game))
      places == {k \in DOMAIN late : late[k] = s}
  IN CASE s = game.SmallBlindSeat -> "SB"
       [] s # game.SmallBlindSeat /\ s = game.BigBlindSeat -> "BB"
       [] s \notin {game.SmallBlindSeat, game.BigBlindSeat} /\ s = game.ButtonSeat -> "BTN"
       [] OTHER -> IF \E k \in places : k \in DOMAIN LateLabels
                   THEN LateLabels[CHOOSE k \in places : TRUE] ELSE "unknown"

\* By player: the occupied seats only.
getPositionMap(seatUserIds, game) ==
  LET occupied == {s \in DOMAIN seatUserIds : seatUserIds[s] # NoUser}
  IN [u \in {seatUserIds[s] : s \in occupied} |->
        SeatPosition(seatUserIds, game, CHOOSE s \in occupied : seatUserIds[s] = u)]

-----------------------------------------------------------------------------
(* The street of an action, and the moves of one street *)

resolveActionPhaseAsSent(ev, fallbackPhase) == ev.Progress.Phase  \* mutant

\* The event that ends a hand always says RIVER.
resolveActionPhase(ev, fallbackPhase) ==
  IF ev.Progress.NextActionSeat = HandEndingNextActionSeat THEN fallbackPhase
  ELSE ev.Progress.Phase

OfStreet(actions, phase) == SelectSeq(actions, LAMBDA a : a.phase = phase)
OfPlayer(actions, u) == SelectSeq(actions, LAMBDA a : a.playerId = u)
IsAggressive(a) == a.actionType \in {"BET", "RAISE"}
HasDetail(detail, a) == detail \in a.details

\* What a detector knows of the action: the bets of its street (the blind is
\* the first of the preflop), and how often the player acted there.
DetectionContext(actions, u, phase, actionType, position) ==
  LET street == OfStreet(actions, phase)
  IN [playerId |-> u, phase |-> phase, actionType |-> actionType, position |-> position,
      phasePlayerActionIndex |-> Len(OfPlayer(street, u)),
      phasePrevBetCount |-> Len(SelectSeq(street, IsAggressive)) + (IF phase = PREFLOP THEN 1 ELSE 0),
      actions |-> actions]

-----------------------------------------------------------------------------
(* The detectors; st is the state they keep during a hand *)

InitialStatState == [cBetter |-> NoUser, cBetPhase |-> NoUser, stealRaiser |-> NoUser]

When(condition, details) == IF condition THEN details ELSE {}

\* Whoever raised last before the flop may open any later street, once.
CbetDetails(c, st) ==
  When(c.phase # PREFLOP /\ st.cBetter = c.playerId /\ c.phasePrevBetCount = 0,
       {"CBET_CHANCE"} \cup When(c.actionType = "BET", {"CBET"}))
  \cup When(c.phase # PREFLOP /\ st.cBetPhase = c.phase /\ c.phasePrevBetCount = 1,
            {"CBET_FOLD_CHANCE"} \cup When(c.actionType = "FOLD", {"CBET_FOLD"}))

CbetUpdate(c, st) ==
  IF c.phase = PREFLOP
  THEN IF c.actionType = "RAISE" THEN [st EXCEPT !.cBetter = c.playerId] ELSE st
  ELSE IF st.cBetter = NoUser \/ c.phasePrevBetCount # 0 THEN st
  ELSE IF st.cBetter = c.playerId
  THEN [st EXCEPT !.cBetter = NoUser, !.cBetPhase = IF c.actionType = "BET" THEN c.phase ELSE @]
  ELSE IF c.actionType = "BET" THEN [st EXCEPT !.cBetter = NoUser] ELSE st

isFoldedToLatePosition(c) ==
  /\ c.phase = PREFLOP /\ c.phasePrevBetCount = 1
  /\ c.position \in {"CO", "BTN", "SB"}
  /\ \A i \in DOMAIN c.actions : c.actions[i].phase = PREFLOP => c.actions[i].actionType = "FOLD"

StealDetails(c) ==
  When(isFoldedToLatePosition(c), {"STEAL_CHANCE"} \cup When(c.actionType = "RAISE", {"STEAL"}))

StealUpdate(c, st) ==
  IF isFoldedToLatePosition(c) /\ c.actionType = "RAISE"
  THEN [st EXCEPT !.stealRaiser = c.playerId] ELSE st

isFacingSteal(c, st) ==
  /\ c.phase = PREFLOP /\ c.phasePrevBetCount = 2
  /\ c.position \in {"SB", "BB"}
  /\ st.stealRaiser \notin {NoUser, c.playerId}

FoldToStealDetails(c, st) ==
  When(isFacingSteal(c, st),
       {"FOLD_TO_STEAL_CHANCE"} \cup When(c.actionType = "FOLD", {"FOLD_TO_STEAL"}))

isFacing2Bet(c) == c.phase = PREFLOP /\ c.phasePrevBetCount = 2
isFacing3Bet(c) == c.phase = PREFLOP /\ c.phasePrevBetCount = 3

ThreeBetDetails(c) ==
  When(isFacing2Bet(c), {"3BET_CHANCE"} \cup When(c.actionType = "RAISE", {"3BET"}))
ThreeBetFoldDetails(c) ==
  When(isFacing3Bet(c), {"3BET_FOLD_CHANCE"} \cup When(c.actionType = "FOLD", {"3BET_FOLD"}))

VpipDetails(c) ==
  When(/\ c.phase = PREFLOP /\ c.phasePlayerActionIndex = 0
       /\ c.actionType \in {"RAISE", "CALL"}, {"VPIP"})
RiverCallDetails(c) == When(c.phase = RIVER /\ c.actionType = "CALL", {"RIVER_CALL"})

\* The registry runs the detectors in a fixed order, each before its update;
\* the only one to read another's state is fold-to-steal, after steal.
DetectActionDetails(c, st) ==
  CbetDetails(c, st) \cup ThreeBetDetails(c) \cup ThreeBetFoldDetails(c) \cup StealDetails(c)
    \cup FoldToStealDetails(c, StealUpdate(c, st)) \cup VpipDetails(c) \cup RiverCallDetails(c)
UpdateStatState(c, st) == CbetUpdate(c, StealUpdate(c, st))

-----------------------------------------------------------------------------
(* What one hand adds to the statistics of a player *)

classifyTableSizeLayer(seatUserIds) ==
  LET size == Len(seatUserIds)
      dealt == Cardinality({s \in DOMAIN seatUserIds : seatUserIds[s] # NoUser})
  IN IF size \notin {4, 6} THEN "none"
     ELSE CASE dealt >= size - (IF size = 6 THEN 1 ELSE 0) -> "full"
            [] size = 6 /\ dealt = 4 -> "4p"
            [] dealt = 3 -> "3p"
            [] dealt = 2 -> "hu"
            [] OTHER -> "none"

CountOf(actions, Test(_)) == Len(SelectSeq(actions, Test))
One(condition) == IF condition THEN 1 ELSE 0

\* hand: [id, seatUserIds, bigBlindUserId, winningPlayerIds]; phases: a sequence of
\* [phase, seatUserIds], the second a set.
resolvePosition(hand, u, mine) ==
  LET preflop == OfStreet(mine, PREFLOP)
  IN IF preflop # <<>> THEN Head(preflop).position
     ELSE IF hand.bigBlindUserId = u THEN "BB" ELSE "unknown"

deriveCounters(hand, u, mine, myPhases) ==
  LET preflop == OfStreet(mine, PREFLOP)
      postflop == SelectSeq(mine, LAMBDA a : a.phase # PREFLOP)
      detail(d) == CountOf(mine, LAMBDA a : d \in a.details)
      onFlop(d) == CountOf(mine, LAMBDA a : a.phase = FLOP /\ d \in a.details)
      flops == CountOf(myPhases, LAMBDA p : p.phase = FLOP)
      showdowns == CountOf(myPhases, LAMBDA p : p.phase = SHOWDOWN)
      won == u \in hand.winningPlayerIds
      identified == hand.id # 0  \* hasTruthyHandId
      opportunity == One(~(hand.bigBlindUserId = u /\ preflop = <<>>))
      flopBase == One(OfStreet(mine, FLOP) # <<>>)
      aggressive == CountOf(postflop, IsAggressive)
      layer == classifyTableSizeLayer(hand.seatUserIds)
      vpip == <<detail("VPIP"), opportunity>>
      ofLayer(l) == IF layer = l THEN vpip ELSE <<0, 0>>
  IN [hands |-> <<1, 0>>, vpip |-> vpip,
      pfr |-> <<One(\E i \in DOMAIN preflop : preflop[i].actionType = "RAISE"), opportunity>>,
      cbet |-> <<onFlop("CBET"), onFlop("CBET_CHANCE")>>,
      cbetFold |-> <<detail("CBET_FOLD"), detail("CBET_FOLD_CHANCE")>>,
      threeBet |-> <<detail("3BET"), detail("3BET_CHANCE")>>,
      threeBetFold |-> <<detail("3BET_FOLD"), detail("3BET_FOLD_CHANCE")>>,
      steal |-> <<detail("STEAL"), detail("STEAL_CHANCE")>>,
      foldToSteal |-> <<detail("FOLD_TO_STEAL"), detail("FOLD_TO_STEAL_CHANCE")>>,
      af |-> <<aggressive, CountOf(postflop, LAMBDA a : a.actionType = "CALL")>>,
      afq |-> <<aggressive, CountOf(postflop, LAMBDA a : a.actionType # "CHECK")>>,
      wtsd |-> <<IF flops > 0 /\ identified THEN showdowns ELSE 0, One(flops > 0)>>,
      wwsf |-> <<IF won /\ identified THEN flops ELSE 0, flops>>,
      wtsdNoAi |-> <<IF flopBase > 0 /\ identified THEN showdowns ELSE 0, flopBase>>,
      wwsfNoAi |-> <<One(won /\ flops + showdowns > 0 /\ flopBase > 0), flopBase>>,
      wsd |-> <<IF won /\ identified THEN showdowns ELSE 0, showdowns>>,
      riverCallAccuracy |-> <<detail("RIVER_CALL_WON"), detail("RIVER_CALL")>>,
      vpipF |-> ofLayer("full"), vpipF4p |-> ofLayer("4p"),
      vpipF3p |-> ofLayer("3p"), vpipFhu |-> ofLayer("hu")]

derivePlayerHandStatContribution(hand, actions, phases, u) ==
  LET mine == OfPlayer(actions, u)
      myPhases == SelectSeq(phases, LAMBDA p : u \in p.seatUserIds)
  IN [position |-> resolvePosition(hand, u, mine),
      tableSizeLayer |-> classifyTableSizeLayer(hand.seatUserIds),
      counters |-> deriveCounters(hand, u, mine, myPhases)]

derivePlayerHandStatContributions(hand, actions, phases) ==
  [u \in {hand.seatUserIds[s] : s \in DOMAIN hand.seatUserIds} \ {NoUser} |->
     derivePlayerHandStatContribution(hand, actions, phases, u)]
=============================================================================
