---------------------------- MODULE RealTimeStats ----------------------------
(***************************************************************************)
(* The odds shown while a hand is being played: the state that             *)
(* src/streams/realtime-stats-stream.ts keeps of the table, event by       *)
(* event, and src/realtime-stats/pot-odds.ts.  A ratio is a pair           *)
(* <<numerator, denominator>>; the chances of improving the hand, which    *)
(* depend on the cards only, are left out.                                 *)
(***************************************************************************)
EXTENDS HoldemTable

NoStats == [shown |-> FALSE]

\* The stream before the first deal.
NoTable ==
  [hero |-> NoSeat, seats |-> <<>>, cards |-> <<>>, phase |-> 0, progress |-> <<>>,
   bets |-> <<>>, chips |-> <<>>, statuses |-> <<>>, active |-> 0, stats |-> NoStats]

unmatchedExcessNever(r, s, reachable) == 0  \* mutant
unmatchedExcess(r, s, reachable) ==
  FoldFunction(+, 0, [o \in DOMAIN r.bets |-> IF r.bets[o] > reachable THEN r.bets[o] - reachable ELSE 0])

\* The main pot with the side pots.
potSize(progress) ==
  LET pot[k \in 0 .. Len(progress.SidePot)] ==
        IF k = 0 THEN progress.Pot ELSE pot[k - 1] + progress.SidePot[k]
  IN pot[Len(progress.SidePot)]

\* What one seat has to call, the part of the pot it can win with that, and its
\* stack against the pot.  A bet above what the seat can reach is not its to win.
calculatePlayerPotOdds(r, s) ==
  LET totalPot == potSize(r.progress[1])
      maxBet == Max({r.bets[o] : o \in DOMAIN r.bets} \cup {0})
      canAct == r.statuses[s] = "BET_ABLE"
      full == maxBet - r.bets[s]
      call == IF ~canAct THEN 0 ELSE IF r.chips[s] < full THEN r.chips[s] ELSE full
      unmatched == IF canAct THEN unmatchedExcess(r, s, r.bets[s] + call) ELSE 0
      eligible == IF totalPot > unmatched THEN totalPot - unmatched ELSE 0
  IN [pot |-> eligible + call, call |-> call, isPlayerTurn |-> r.progress[1].NextActionSeat = s,
      percentage |-> <<call, eligible + call>>, spr |-> <<r.chips[s], totalPot>>]

\* calculateAndEmitStats: the odds of every occupied seat, for the hero only.
calculateAndEmitStats(r) ==
  IF r.hero = NoSeat THEN r
  ELSE [r EXCEPT !.stats =
          [shown |-> TRUE, communityCards |-> r.cards, currentPhase |-> r.phase,
           opponents |-> r.active - 1,
           seats |-> [s \in {x \in DOMAIN r.seats : r.seats[x] # -1} |-> calculatePlayerPotOdds(r, s)]]]

\* The snapshots an event has of the seats; an observer's event has none to use.
TakeSnapshots(r, ev) ==
  LET seat(s, field, old) == IF s \in DOMAIN ev.Snapshots THEN ev.Snapshots[s][field] ELSE old[s]
  IN IF ev.Hero = NoSeat THEN r
     ELSE [r EXCEPT !.bets = [s \in DOMAIN r.seats |-> seat(s, "BetChip", @)],
                    !.chips = [s \in DOMAIN r.seats |-> seat(s, "Chip", @)],
                    !.statuses = [s \in DOMAIN r.seats |-> seat(s, "BetStatus", @)]]

OnDeal(r, ev) ==
  LET none(value) == [s \in DOMAIN ev.SeatUserIds |-> value]
      cleared == [NoTable EXCEPT !.bets = none(0), !.chips = none(0), !.statuses = none("undefined"),
                                 !.seats = ev.SeatUserIds, !.hero = ev.Hero,
                                 !.active = Cardinality({s \in DOMAIN ev.SeatUserIds : ev.SeatUserIds[s] # -1}),
                                 !.progress = <<ev.Progress>>, !.phase = ev.Progress.Phase]
  IN IF ev.Hero = NoSeat THEN [cleared EXCEPT !.seats = none(-1), !.active = 0]
     ELSE calculateAndEmitStats(TakeSnapshots(cleared, ev))

\* The bets of the last street are gone; a street of one card adds to the board.
OnDealRound(r, ev) ==
  LET cleared == [r EXCEPT !.bets = [s \in DOMAIN @ |-> 0], !.statuses = [s \in DOMAIN @ |-> "FOLDED"],
                           !.cards = IF r.phase # 0 /\ Len(ev.CommunityCards) = 1
                                     THEN @ \o ev.CommunityCards ELSE ev.CommunityCards]
      filled == [TakeSnapshots(cleared, ev) EXCEPT !.progress = <<ev.Progress>>, !.phase = ev.Progress.Phase]
      left == {s \in DOMAIN ev.Snapshots : ev.Snapshots[s].BetStatus \in {"BET_ABLE", "ALL_IN"}}
  IN IF ev.CommunityCards = <<>> THEN r
     ELSE calculateAndEmitStats([filled EXCEPT !.active = IF ev.Hero = NoSeat THEN @ ELSE Cardinality(left)])

OnAction(r, ev) ==
  LET s == ev.SeatIndex
      status == CASE ev.ActionType = "FOLD" -> "FOLDED"
                  [] ev.ActionType # "FOLD" /\ (ev.ActionType = "ALL_IN" \/ ev.Chip = 0) -> "ALL_IN"
                  [] OTHER -> "BET_ABLE"
      put(f, value) == [x \in DOMAIN f \cup {s} |-> IF x = s THEN value ELSE f[x]]
  IN calculateAndEmitStats(
       [r EXCEPT !.progress = <<ev.Progress>>, !.phase = ev.Progress.Phase,
                 !.bets = put(@, ev.BetChip), !.chips = put(@, ev.Chip), !.statuses = put(@, status),
                 !.active = IF ev.ActionType = "FOLD" THEN Max({1, @ - 1}) ELSE @])

OnResults(r, ev) == [r EXCEPT !.hero = NoSeat, !.stats = NoStats]

RealTimeTransform(r, ev) ==
  CASE ev.type = "EVT_DEAL" -> OnDeal(r, ev)
    [] ev.type = "EVT_DEAL_ROUND" -> OnDealRound(r, ev)
    [] ev.type = "EVT_ACTION" -> OnAction(r, ev)
    [] ev.type = "EVT_HAND_RESULTS" -> OnResults(r, ev)
    [] OTHER -> r

\* The stream, and what is shown, after the events so far.
Streamed(events) ==
  LET state[i \in 0 .. Len(events)] ==
        IF i = 0 THEN NoTable ELSE RealTimeTransform(state[i - 1], events[i])
  IN state[Len(events)]
Shown(events) == Streamed(events).stats

-----------------------------------------------------------------------------
(* What a seat that can still bet has to call and can win, as the table has it. *)
ToCall(t, s) == Least(t.chip[s], Max({t.bet[o] : o \in DOMAIN t.bet}) - t.bet[s])
Winnable(t, s) == Total([o \in DOMAIN t.paid |-> Least(t.paid[o], t.paid[s] + ToCall(t, s))])

\* Every change of the table is on the wire.
Exact(t) == t.quirk \notin {"timeout", "rebuy"}

StatsTrue(t, stats) ==
  /\ stats.shown /\ stats.communityCards = Board(t.phase)
  /\ Exact(t) =>
       /\ stats.opponents = Cardinality(In(t)) - 1
       /\ \A s \in Able(t) : /\ stats.seats[s].call = ToCall(t, s)
                             /\ stats.seats[s].pot = Winnable(t, s) + ToCall(t, s)
                             /\ stats.seats[s].isPlayerTurn = (t.actor = s)

\* While the hero's hand is played the odds shown are those of the table: what a seat
\* has to call, the chips it can win with it, whose turn it is, how many opponents
\* are left and the board; and none of a hand that is watched or over.  A player who
\* timed out stays among the opponents until the next street, and chips that are added
\* to a stack are not seen before its next snapshot.  (RealTimeStatsStream)
OddsAreTrue == \A shown \in {Shown(wire)} :
  IF table.done \/ table.deal.hero = NoSeat THEN ~shown.shown ELSE StatsTrue(table, shown)
=============================================================================
