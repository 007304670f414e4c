----------------------------- MODULE HandOracle -----------------------------
(***************************************************************************)
(* src/tools/verify-stats/oracle.ts: the independent computation of every  *)
(* player's statistics from the raw events, which the verify-stats tool    *)
(* compares with the two product paths (compare.ts, pipeline.ts).          *)
(***************************************************************************)
EXTENDS HandStats, FiniteSetsExt

UnknownChips == -1

RawSeats(deal) == {s \in DOMAIN deal.SeatUserIds : deal.SeatUserIds[s] # NoUser}
RawTotal(f) == FoldFunction(+, 0, f)

-----------------------------------------------------------------------------
(* Chips *)

rawPaysAnte(deal, s) ==
  s \in DOMAIN deal.Snapshots => deal.Snapshots[s].BetStatus \in {"BET_ABLE", "ALL_IN"}

rawStartingStack(deal, s) ==
  LET after == deal.Snapshots[s].Chip + deal.Snapshots[s].BetChip
      broke == {x \in RawSeats(deal) : /\ rawPaysAnte(deal, x)
                                       /\ x \in DOMAIN deal.Snapshots =>
                                            deal.Snapshots[x].Chip + deal.Snapshots[x].BetChip = 0}
      payers == Cardinality({x \in RawSeats(deal) : rawPaysAnte(deal, x)})
      pot == deal.Progress.Pot
  IN IF s \notin DOMAIN deal.Snapshots THEN UnknownChips
     ELSE IF ~rawPaysAnte(deal, s) THEN after
     ELSE IF after > 0 \/ deal.Game.Ante = 0 THEN after + deal.Game.Ante
     ELSE IF \/ Cardinality(broke) > 1 /\ deal.Progress.SidePot # <<>>
             \/ payers = 0 \/ pot % payers # 0 \/ pot \div payers \notin 1 .. deal.Game.Ante
          THEN UnknownChips ELSE pot \div payers

\* w: of every seat the stack, street bet and street last seen and the inflow.
rawObserve(w, s, phase, chip, bet) ==
  IF s \notin DOMAIN w.seat \/ ~w.ok THEN w
  ELSE LET seen == w.seat[s]
           delta == chip + bet - (IF phase = seen.street THEN seen.stack ELSE seen.stack - seen.bet)
       IN IF phase < seen.street THEN w
          ELSE IF delta < 0 THEN [w EXCEPT !.ok = FALSE]
          ELSE [w EXCEPT !.seat[s] = [stack |-> chip + bet, bet |-> bet, street |-> phase,
                                      inflow |-> seen.inflow + delta]]

rawObserveEvent(w, ev) ==
  LET ending == ev.type = "EVT_ACTION" /\ ev.Progress.NextActionSeat = HandEndingNextActionSeat
      street == IF ending \/ ev.Progress.Phase < w.street THEN w.street ELSE ev.Progress.Phase
      fresh == {s \in DOMAIN ev.Snapshots : s \in DOMAIN w.seat => ev.Progress.Phase > w.seat[s].street}
      seen == FoldSet(LAMBDA s, acc : rawObserve(acc, s, ev.Progress.Phase,
                                                 ev.Snapshots[s].Chip, ev.Snapshots[s].BetChip),
                      [w EXCEPT !.street = street], fresh)
  IN IF ev.type = "EVT_ACTION"
     THEN rawObserve([w EXCEPT !.street = street], ev.SeatIndex,
                     IF ending THEN street ELSE ev.Progress.Phase, ev.Chip, ev.BetChip)
     ELSE [seen EXCEPT !.seat = [s \in DOMAIN @ |->
             IF @[s].street >= ev.Progress.Phase THEN @[s]
             ELSE [@[s] EXCEPT !.stack = @ - seen.seat[s].bet, !.bet = 0, !.street = ev.Progress.Phase]]]

rawPayout(results, u) ==
  RawTotal([i \in {j \in DOMAIN results.Results : results.Results[j].UserId = u}
              |-> results.Results[i].RewardChip])

rawMidHandInflow(deal, results, events, battleType) ==
  LET none == [s \in RawSeats(deal) |-> 0]
      start == [seat |-> [s \in RawSeats(deal) |->
                            [stack |-> deal.Snapshots[s].Chip + deal.Snapshots[s].BetChip,
                             bet |-> deal.Snapshots[s].BetChip, street |-> deal.Progress.Phase, inflow |-> 0]],
                street |-> deal.Progress.Phase, ok |-> TRUE]
      w == FoldLeft(rawObserveEvent, start,
                    SelectSeq(events, LAMBDA ev : ev.type \in {"EVT_ACTION", "EVT_DEAL_ROUND"}))
      excess(s) == IF s \notin DOMAIN results.Snapshots THEN 0
                   ELSE results.Snapshots[s].Chip + results.Snapshots[s].BetChip
                          - (w.seat[s].stack - w.seat[s].bet + rawPayout(results, deal.SeatUserIds[s]))
  IN IF \/ battleType \notin {"RING_GAME", "FRIEND_RING_GAME"}
        \/ ~(RawSeats(deal) \subseteq DOMAIN deal.Snapshots)
     THEN none
     ELSE IF ~w.ok THEN none
     ELSE [s \in RawSeats(deal) |-> w.seat[s].inflow + (IF excess(s) > 0 THEN excess(s) ELSE 0)]

\* The stacks at the end; a tournament's only missing one follows from the others.
rawFinalStacks(deal, results, battleType, start, inflow) ==
  LET seats == RawSeats(deal)
      final == [s \in DOMAIN results.Snapshots \cap seats |->
                  results.Snapshots[s].Chip + results.Snapshots[s].BetChip - inflow[s]]
      missing == seats \ DOMAIN final
      inferable == /\ battleType \in {"SIT_AND_GO", "TOURNAMENT", "FRIEND_SIT_AND_GO", "CLUB_MATCH"}
                   /\ Cardinality(missing) = 1 /\ \A s \in seats : start[s] # UnknownChips
                   /\ \E i \in DOMAIN results.Results :
                        results.Results[i].UserId = deal.SeatUserIds[Min(missing)]
  IN IF inferable
     THEN [s \in seats |-> IF s \in missing THEN RawTotal(start) - RawTotal(final) ELSE final[s]]
     ELSE final

\* Whoever got back more than the part of the own bet that nobody matched; the
\* winner of the main pot when the chips do not add up.
rawWinners(deal, results, start, inflow, finals) ==
  LET seats == RawSeats(deal)
      rows == DOMAIN results.Results
      paid == [s \in seats |-> start[s] + rawPayout(results, deal.SeatUserIds[s]) - finals[s]]
      grossPot == results.Pot + FoldLeft(+, 0, results.SidePot)
      grossPayout == RawTotal([i \in rows |-> results.Results[i].RewardChip])
      sound == /\ \A s \in seats : start[s] # UnknownChips /\ s \in DOMAIN finals
               /\ \A s \in seats \ DOMAIN results.Snapshots : finals[s] >= 0
               /\ \A s \in seats : paid[s] \in 0 .. start[s] + inflow[s]
               /\ grossPot = grossPayout /\ RawTotal(paid) >= grossPayout
      second(s) == Max({0} \cup {paid[o] : o \in seats \ {s}})
      back(s) == IF paid[s] > second(s) THEN paid[s] - second(s) ELSE 0
      award(i) == LET s == CHOOSE x \in seats : deal.SeatUserIds[x] = results.Results[i].UserId
                  IN results.Results[i].RewardChip - back(s)
      fallback == {results.Results[i].UserId : i \in {j \in rows :
                     /\ results.Results[j].RewardChip > 0
                     /\ results.Results[j].HandRanking = 1 \/ results.Results[j].RankType = "NO_CALL"}}
  IN IF ~sound THEN fallback
     ELSE IF \E i \in rows : award(i) < 0 THEN fallback
     ELSE {results.Results[i].UserId : i \in {j \in rows : award(j) > 0}}

resolveContestedWinners(deal, results, battleType, events) ==
  LET start == [s \in RawSeats(deal) |-> rawStartingStack(deal, s)]
      settle(inflow) == rawWinners(deal, results, start, inflow,
                                   rawFinalStacks(deal, results, battleType, start, inflow))
  IN settle(rawMidHandInflow(deal, results, events, battleType))

-----------------------------------------------------------------------------
(* Positions, labelled backwards from the button over the occupied seats *)

computePositions(seatUserIds, game) ==
  LET active == {s \in DOMAIN seatUserIds : seatUserIds[s] # NoUser}
      n == Len(seatUserIds)
      fromButton(s) == (s + 2 * n - game.ButtonSeat - 1) % n
      after(s) == Cardinality({o \in active : fromButton(o) > fromButton(s)})
      label(s) == CASE after(s) = 0 -> "BTN" [] after(s) = 1 -> "CO"
                    [] after(s) = 2 -> "HJ" [] OTHER -> "UTG"
      seatLabel(s) == IF Cardinality(active) = 2 THEN IF s = game.BigBlindSeat THEN "BB" ELSE "SB"
                      ELSE IF s = game.SmallBlindSeat THEN "SB"
                      ELSE IF s = game.BigBlindSeat THEN "BB" ELSE label(s)
  IN [u \in {seatUserIds[s] : s \in active} |->
        seatLabel(CHOOSE s \in active : seatUserIds[s] = u)]

-----------------------------------------------------------------------------
(* One hand *)

normalizeAllIn(ev, offered, opensNewStreet) ==
  IF ev.ActionType # "ALL_IN" THEN ev.ActionType
  ELSE CASE opensNewStreet \/ "BET" \in offered -> "BET"
         [] ~opensNewStreet /\ "BET" \notin offered /\ "CALL" \in offered -> "RAISE"
         [] OTHER -> "CALL"

\* Of every action: who, where, what, and the counters it moved.
OracleStart(deal) ==
  [street |-> PREFLOP, offered |-> deal.Progress.NextActionTypes, acts |-> <<>>, cBetter |-> NoUser,
   cBetPhase |-> NoUser, stealRaiser |-> NoUser, flopPlayers |-> {}, sawFlop |-> FALSE, cards |-> 0]

OracleAction(o, ev, deal, positions) ==
  LET u == deal.SeatUserIds[ev.SeatIndex]
      phase == IF ev.Progress.NextActionSeat = HandEndingNextActionSeat THEN o.street ELSE ev.Progress.Phase
      type == normalizeAllIn(ev, o.offered, phase # o.street)
      here == {i \in DOMAIN o.acts : o.acts[i].phase = phase}
      bets == Cardinality({i \in here : o.acts[i].type \in {"BET", "RAISE"}}) + (IF phase = PREFLOP THEN 1 ELSE 0)
      first == \A i \in here : o.acts[i].u # u
      pre == phase = PREFLOP
      stealChance == /\ pre /\ bets = 1 /\ positions[u] \in {"CO", "BTN", "SB"}
                     /\ \A i \in here : o.acts[i].type = "FOLD"
      raiser == IF stealChance /\ type = "RAISE" THEN u ELSE o.stealRaiser
      facingSteal == pre /\ bets = 2 /\ positions[u] \in {"SB", "BB"} /\ raiser \notin {NoUser, u}
      opens == ~pre /\ o.cBetter # NoUser /\ bets = 0
      cbetPhase == IF opens /\ o.cBetter = u /\ type = "BET" THEN phase ELSE o.cBetPhase
      facingCbet == ~pre /\ o.cBetPhase = phase /\ bets = 1
      marks == {m \in {"3b+", "3b", "3bf+", "3bf", "st+", "st", "fts+", "fts", "cb+", "cb", "cbf+", "cbf", "vp"} :
                  CASE m = "3b+" -> pre /\ bets = 2 [] m = "3b" -> pre /\ bets = 2 /\ type = "RAISE"
                    [] m = "3bf+" -> pre /\ bets = 3 [] m = "3bf" -> pre /\ bets = 3 /\ type = "FOLD"
                    [] m = "st+" -> stealChance [] m = "st" -> stealChance /\ type = "RAISE"
                    [] m = "fts+" -> facingSteal [] m = "fts" -> facingSteal /\ type = "FOLD"
                    [] m = "cb+" -> opens /\ o.cBetter = u [] m = "cb" -> opens /\ o.cBetter = u /\ type = "BET"
                    [] m = "cbf+" -> facingCbet [] m = "cbf" -> facingCbet /\ type = "FOLD"
                    [] m = "vp" -> pre /\ first /\ type \in {"CALL", "RAISE"}}
  IN [o EXCEPT !.street = phase, !.offered = ev.Progress.NextActionTypes, !.stealRaiser = raiser,
               !.cBetPhase = cbetPhase,
               !.cBetter = IF opens /\ (@ = u \/ type = "BET") THEN NoUser ELSE @,
               !.acts = Append(@, [u |-> u, phase |-> phase, type |-> type, marks |-> marks])]

\* The continuation bettor is only known once the flop is announced.
OracleRound(o, ev, deal) ==
  LET phase == ev.Progress.Phase
      raises == SelectSeq(o.acts, LAMBDA a : a.phase = PREFLOP /\ a.type = "RAISE")
      inPlay == {deal.SeatUserIds[s] : s \in {x \in DOMAIN ev.Snapshots \cap DOMAIN deal.SeatUserIds :
                   ev.Snapshots[x].BetStatus \in {"BET_ABLE", "ALL_IN"}}} \ {NoUser}
      next == [o EXCEPT !.street = phase, !.offered = ev.Progress.NextActionTypes,
                        !.cards = @ + Len(ev.CommunityCards)]
  IN IF phase # FLOP THEN next
     ELSE [next EXCEPT !.sawFlop = TRUE, !.flopPlayers = inPlay,
                       !.cBetter = IF raises = <<>> THEN NoUser ELSE Last(raises).u]

OracleFractions(o, deal, results, winners, u) ==
  LET mine == SelectSeq(o.acts, LAMBDA a : a.u = u)
      marked(m) == Len(SelectSeq(mine, LAMBDA a : m \in a.marks))
      postflop(types) == Len(SelectSeq(mine, LAMBDA a : a.phase # PREFLOP /\ a.type \in types))
      one(condition) == IF condition THEN 1 ELSE 0
      preflopFolds == {o.acts[i].u : i \in {j \in DOMAIN o.acts : o.acts[j].phase = PREFLOP /\ o.acts[j].type = "FOLD"}}
      listed == {results.Results[i].UserId : i \in DOMAIN results.Results}
      sawFlop == IF o.sawFlop THEN u \in o.flopPlayers
                 ELSE o.cards + Len(results.CommunityCards) >= 3 /\ u \notin preflopFolds /\ u \in listed
      flopAction == \E i \in DOMAIN mine : mine[i].phase = FLOP
      shown == \E i \in DOMAIN results.Results : /\ results.Results[i].UserId = u
                                                  /\ results.Results[i].RankType \notin {"NO_CALL", "FOLD_OPEN"}
      won == u \in winners
      opportunity == one(~(/\ deal.SeatUserIds[deal.Game.BigBlindSeat] = u
                           /\ \A i \in DOMAIN mine : mine[i].phase # PREFLOP))
      dealt == Cardinality(RawSeats(deal))
      full == (Len(deal.SeatUserIds) = 6 /\ dealt >= 5) \/ (Len(deal.SeatUserIds) = 4 /\ dealt = 4)
      riverCalls == Len(SelectSeq(mine, LAMBDA a : a.phase = RIVER /\ a.type = "CALL"))
  IN [hands |-> <<1, 0>>,
      vpip |-> <<marked("vp"), opportunity>>,
      pfr |-> <<one(\E i \in DOMAIN mine : mine[i].phase = PREFLOP /\ mine[i].type = "RAISE"), opportunity>>,
      threeBet |-> <<marked("3b"), marked("3b+")>>, threeBetFold |-> <<marked("3bf"), marked("3bf+")>>,
      cbet |-> <<marked("cb"), marked("cb+")>>, cbetFold |-> <<marked("cbf"), marked("cbf+")>>,
      af |-> <<postflop({"BET", "RAISE"}), postflop({"CALL"})>>,
      afq |-> <<postflop({"BET", "RAISE"}), postflop({"BET", "RAISE", "CALL", "FOLD"})>>,
      wtsd |-> <<one(sawFlop /\ shown), one(sawFlop)>>, wsd |-> <<one(shown /\ won), one(shown)>>,
      wwsf |-> <<one(sawFlop /\ won), one(sawFlop)>>,
      wtsdNoAi |-> <<one(flopAction /\ shown), one(flopAction)>>,
      wwsfNoAi |-> <<one(flopAction /\ won), one(flopAction)>>,
      steal |-> <<marked("st"), marked("st+")>>, foldToSteal |-> <<marked("fts"), marked("fts+")>>,
      riverCallAccuracy |-> <<IF won THEN riverCalls ELSE 0, riverCalls>>,
      vpipF |-> <<IF full THEN marked("vp") ELSE 0, IF full THEN opportunity ELSE 0>>]

\* The players of one hand; none for a hand without results, with results of
\* other players, or with two deals of one street.
processHand(events, battleType) ==
  LET deal == Head(events)
      results == Last(events)
      rounds == SelectSeq(events, LAMBDA ev : ev.type = "EVT_DEAL_ROUND")
      foreign == \E i \in DOMAIN results.Results :
                   \A s \in RawSeats(deal) : deal.SeatUserIds[s] # results.Results[i].UserId
      fused == \E i, j \in DOMAIN rounds : i # j /\ rounds[i].Progress.Phase = rounds[j].Progress.Phase
      positions == computePositions(deal.SeatUserIds, deal.Game)
      step(o, ev) == CASE ev.type = "EVT_ACTION" -> OracleAction(o, ev, deal, positions)
                       [] ev.type = "EVT_DEAL_ROUND" -> OracleRound(o, ev, deal)
                       [] OTHER -> o
  IN IF results.type # "EVT_HAND_RESULTS" THEN <<>>
     ELSE IF foreign \/ fused THEN <<>>
     ELSE LET o == FoldLeft(step, OracleStart(deal), events)
              winners == resolveContestedWinners(deal, results, battleType, events)
          IN [u \in {deal.SeatUserIds[s] : s \in RawSeats(deal)} |->
                OracleFractions(o, deal, results, winners, u)]

\* The driver: the hand of the last deal, with the battle type of its deal.
runOracle(events) ==
  LET step(a, ev) ==
        CASE ev.type = "EVT_ENTRY_QUEUED" /\ a.hand = <<>> -> [a EXCEPT !.battleType = ev.BattleType]
          [] ev.type = "EVT_ENTRY_QUEUED" /\ a.hand # <<>> ->
               [a EXCEPT !.battleType = ev.BattleType, !.hand = Append(@, ev)]
          [] ev.type = "EVT_DEAL" -> [a EXCEPT !.hand = <<ev>>, !.handBattleType = a.battleType]
          [] ev.type = "EVT_HAND_RESULTS" /\ a.hand # <<>> ->
               [a EXCEPT !.hand = <<>>, !.players = processHand(Append(a.hand, ev), a.handBattleType)]
          [] OTHER -> IF a.hand = <<>> THEN a ELSE [a EXCEPT !.hand = Append(@, ev)]
  IN FoldLeft(step, [battleType |-> "none", handBattleType |-> "none", hand |-> <<>>, players |-> <<>>],
              events).players

\* compare.ts: the fractions both sides have for every player, equal.
compareResults(oracle, contributions) ==
  /\ DOMAIN oracle = DOMAIN contributions
  /\ \A u \in DOMAIN oracle : \A stat \in DOMAIN oracle[u] :
       oracle[u][stat] = contributions[u].counters[stat]
=============================================================================
