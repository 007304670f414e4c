------------------------------ MODULE HandLog ------------------------------
(***************************************************************************)
(* The hand log: src/utils/hand-log-processor.ts turns the events of a     *)
(* hand, one by one, into the lines of a PokerStars hand history, and      *)
(* reads its own lines back to find what a call, a raise and an uncalled   *)
(* bet amount to.  src/streams/hand-log-stream.ts feeds it.  A line is     *)
(* [kind, user, amount]: what it says, of whom, and its number (the total  *)
(* of the street for "raises", the added chips for "calls").               *)
(***************************************************************************)
EXTENDS HoldemTable, ChipAccounting

VARIABLES
  log,        \* currentHand of the processor: [deal, entries, board, handId, twice]
  completed   \* completedHands of the stream

NoLog == [deal |-> <<>>, entries |-> <<>>, board |-> <<>>, handId |-> 0, twice |-> 0]
Entry(kind, user, amount) == [kind |-> kind, user |-> user, amount |-> amount]

Blinds == {"small blind", "big blind"}
Aggressive == {"bets", "raises"}
Wagers == Aggressive \cup {"calls"}
Moves == Wagers \cup {"checks", "folds"}

Indices(entries, Test(_)) == {i \in DOMAIN entries : Test(entries[i])}
LastIndex(S) == IF S = {} THEN 0 ELSE Max(S)
After(entries, i) == SubSeq(entries, i + 1, Len(entries))
FirstAmount(entries, Test(_)) ==
  LET found == Indices(entries, Test) IN IF found = {} THEN 0 ELSE entries[Min(found)].amount

-----------------------------------------------------------------------------
(* The deal: the stacks and the forced posts *)

\* Several stacks went in whole with the ante: until the results are in, each
\* is taken for the smallest, the share of the main pot.
AnteAllInSeats(deal) ==
  {s \in Occupied(deal) : isAnteContributor(deal, s) /\ getPlayerChipsAfterAnte(deal, s) \in {0, UnknownStack}}
buildAnteAllInChipsMap(deal) ==
  IF Cardinality(AnteAllInSeats(deal)) <= 1 \/ deal.Progress.SidePot = <<>>
  THEN <<>>
  ELSE LET payers == countAnteContributors(deal)
           side == SubSeq(deal.Progress.SidePot, 1, Least(payers - 1, Len(deal.Progress.SidePot)))
           steps == <<deal.Progress.Pot \div payers>> \o [k \in DOMAIN side |-> side[k] \div (payers - k)]
           tiers == [k \in DOMAIN steps |-> SumSeq(SubSeq(steps, 1, k))]
       IN SubSeq(tiers, 1, Least(Len(tiers), Cardinality(AnteAllInSeats(deal))))

getPlayerChips(deal, s) ==
  LET exact == deriveStartingStack(deal, s)
      afterAnte == Most(0, getPlayerChipsAfterAnte(deal, s))
      tiers == buildAnteAllInChipsMap(deal)
      payers == countAnteContributors(deal)
      share == deal.Progress.Pot \div payers
  IN CASE exact # UnknownStack -> exact
       [] exact = UnknownStack /\ ~isAnteContributor(deal, s) -> afterAnte
       [] OTHER -> IF afterAnte > 0 THEN afterAnte + deal.Game.Ante
                   ELSE IF tiers # <<>> THEN tiers[1]
                   ELSE IF payers > 0 /\ share \in 1 .. deal.Game.Ante THEN share ELSE deal.Game.Ante

Posts(deal) ==
  LET seats == SetToSortSeq(Occupied(deal), <)
      afterAnte(s) == Most(0, getPlayerChipsAfterAnte(deal, s))
      antes == IF deal.Game.Ante = 0 THEN <<>>
               ELSE SelectSeq([i \in DOMAIN seats |->
                      Entry(IF isAnteContributor(deal, seats[i]) THEN "ante" ELSE "none",
                            deal.SeatUserIds[seats[i]],
                            Least(deal.Game.Ante, getPlayerChips(deal, seats[i])))],
                      LAMBDA e : e.kind # "none")
      blind(kind, s, due) == IF s \in Occupied(deal) /\ afterAnte(s) > 0
                             THEN <<Entry(kind, deal.SeatUserIds[s], Least(due, afterAnte(s)))>> ELSE <<>>
  IN antes \o blind("small blind", deal.Game.SmallBlindSeat, deal.Game.SmallBlind)
           \o blind("big blind", deal.Game.BigBlindSeat, deal.Game.BigBlind)

\* A hand the hero holds no cards in is not logged.
handleDealEvent(ev) ==
  LET seats == SetToSortSeq(Occupied(ev), <)
      lines == [i \in DOMAIN seats |-> Entry("seat", ev.SeatUserIds[seats[i]], getPlayerChips(ev, seats[i]))]
  IN IF ev.Hero = NoSeat THEN NoLog
     ELSE [NoLog EXCEPT !.deal = <<ev>>,
                        !.entries = lines \o Posts(ev) \o <<Entry("street", NoUser, PREFLOP)>>]

-----------------------------------------------------------------------------
(* The actions, read against the lines before them *)

LastStreet(entries) == LastIndex(Indices(entries, LAMBDA e : e.kind = "street"))
OnStreet(entries) == After(entries, LastStreet(entries))
StreetOf(entries) == entries[LastStreet(entries)].amount

\* What a player has put in on the street of the last street line.
getPlayerStreetCommitment(entries, u) ==
  LET mine == SelectSeq(OnStreet(entries), LAMBDA e : e.user = u /\ e.kind \in Wagers)
      bets == Indices(mine, LAMBDA e : e.kind \in Aggressive)
      total == SumSeq([i \in DOMAIN After(mine, LastIndex(bets) - 1) |-> After(mine, LastIndex(bets) - 1)[i].amount])
  IN IF bets # {} THEN total
     ELSE SumSeq([i \in DOMAIN mine |-> mine[i].amount])
            + (IF StreetOf(entries) > PREFLOP THEN 0
               ELSE FirstAmount(entries, LAMBDA e : e.user = u /\ e.kind \in Blinds))

getPreviousBet(entries) ==
  LET bets == Indices(OnStreet(entries), LAMBDA e : e.kind \in Aggressive)
  IN IF bets # {} THEN OnStreet(entries)[Max(bets)].amount
     ELSE IF StreetOf(entries) > PREFLOP THEN 0
     ELSE FirstAmount(entries, LAMBDA e : e.kind = "big blind")

formatActionCallsWhole(entries, ev, u) ==  \* mutant
  LET previous == getPreviousBet(entries)
  IN CASE ev.ActionType \in {"CHECK", "FOLD"} -> Entry(IF ev.ActionType = "FOLD" THEN "folds" ELSE "checks", u, 0)
       [] ev.ActionType = "CALL" -> Entry("calls", u, ev.BetChip)
       [] ev.ActionType \in {"RAISE", "BET"} -> Entry(IF ev.ActionType = "BET" THEN "bets" ELSE "raises", u, ev.BetChip)
       [] ev.ActionType = "ALL_IN" ->
            Entry(IF previous = 0 THEN "bets" ELSE IF ev.BetChip > previous THEN "raises" ELSE "calls", u, ev.BetChip)

formatAction(entries, ev, u) ==
  LET previous == getPreviousBet(entries)
      added == ev.BetChip - getPlayerStreetCommitment(entries, u)
  IN CASE ev.ActionType = "CHECK" -> Entry("checks", u, 0)
       [] ev.ActionType = "FOLD" -> Entry("folds", u, 0)
       [] ev.ActionType = "BET" -> Entry("bets", u, ev.BetChip)
       [] ev.ActionType = "RAISE" -> Entry("raises", u, ev.BetChip)
       [] ev.ActionType = "CALL" -> IF added <= 0 THEN Entry("checks", u, 0) ELSE Entry("calls", u, added)
       [] ev.ActionType = "ALL_IN" -> IF previous = 0 THEN Entry("bets", u, ev.BetChip)
                                      ELSE IF ev.BetChip > previous THEN Entry("raises", u, ev.BetChip)
                                      ELSE Entry("calls", u, added)

\* Nothing checks that the event is of this table: an empty seat may act.
handleActionEvent(l, ev) ==
  LET seatUserIds == l.deal[1].SeatUserIds
      u == IF ev.SeatIndex \in DOMAIN seatUserIds THEN seatUserIds[ev.SeatIndex] ELSE NoUser
  IN [l EXCEPT !.entries = Append(@, formatAction(@, ev, u))]

handleDealRoundEvent(l, ev) ==
  [l EXCEPT !.entries = Append(@, Entry("street", NoUser, ev.Progress.Phase)),
            !.board = @ \o ev.CommunityCards]

-----------------------------------------------------------------------------
(* The results *)

UserRow(ev, u) == SelectSeq(ev.Results, LAMBDA r : r.UserId = u)
PotsOf(ev) == <<ev.Pot>> \o ev.SidePot

\* The stacks that went in with the ante are told apart by what they won: just
\* the main pot, or more; the rest get the tiers that are left.
TierOfSeat(deal, ev, tiers) ==
  LET seats == SetToSortSeq(AnteAllInSeats(deal), <)
      reward(s) == LET row == UserRow(ev, deal.SeatUserIds[s]) IN IF row = <<>> THEN 0 ELSE row[1].RewardChip
      free(m) == DOMAIN tiers \ Range(m)
      won(m, s) == IF reward(s) < ev.Pot \/ reward(s) = 0 \/ free(m) = {} THEN m
                   ELSE m @@ (s :> IF reward(s) = ev.Pot THEN Min(free(m)) ELSE Max(free(m)))
      rest(m, s) == IF s \in DOMAIN m \/ free(m) = {} THEN m ELSE m @@ (s :> Min(free(m)))
  IN FoldLeft(rest, FoldLeft(won, <<>>, seats), seats)
WithTiers(l, tiers, tierOf) ==
  LET mine(u) == {s \in DOMAIN tierOf : l.deal[1].SeatUserIds[s] = u}
      fixed(e) == IF e.kind \in {"seat", "ante"} /\ mine(e.user) # {}
                  THEN [e EXCEPT !.amount = tiers[tierOf[Min(mine(e.user))]]] ELSE e
  IN [l EXCEPT !.entries = [i \in DOMAIN @ |-> fixed(@[i])]]
FixTiers(l, ev, tiers) ==
  IF tiers = <<>> THEN l ELSE WithTiers(l, tiers, TierOfSeat(l.deal[1], ev, tiers))
fixAnteAllInChips(l, ev) == FixTiers(l, ev, buildAnteAllInChipsMap(l.deal[1]))

\* The results may hold the whole board or only the cards still to come.
fullBoard(l, ev) ==
  LET cards == ev.CommunityCards
  IN IF cards = <<>> THEN l.board
     ELSE IF Len(cards) >= 3 /\ Len(l.board) <= Len(cards) THEN cards
     ELSE l.board \o cards

addMissingStreets(l) ==
  LET missing(phase) == /\ Len(l.board) >= phase + 2
                        /\ Indices(l.entries, LAMBDA e : e.kind = "street" /\ e.amount = phase) = {}
  IN SelectSeq([k \in 1 .. 3 |-> Entry("street", NoUser, k)], LAMBDA e : missing(e.amount))

ShowsCards(row) == row.RankType \in {"HAND", "FOLD_OPEN"}
showdownParticipants(ev) ==
  SelectSeq(ev.Results, LAMBDA r : r.RankType \notin {"NO_CALL", "FOLD_OPEN"})

\* A big blind whose option was skipped because everyone else is all-in checks.
getMissingBBCheck(l, ev) ==
  LET posted == Indices(l.entries, LAMBDA e : e.kind = "big blind")
      u == l.entries[Min(posted)].user
      row == UserRow(ev, u)
      flop == Indices(l.entries, LAMBDA e : e.kind = "street" /\ e.amount = FLOP)
      preflop == IF flop = {} THEN l.entries ELSE SubSeq(l.entries, 1, Min(flop))
  IN IF \/ posted = {}
        \/ row = <<>>
        \/ row[1].RankType = "NO_CALL" \/ (~ShowsCards(row[1]) /\ row[1].RankType # "SHOWDOWN_MUCK")
        \/ Indices(preflop, LAMBDA e : e.user = u /\ e.kind \in Moves) # {}
     THEN <<>> ELSE <<Entry("checks", u, 0)>>

Returned(u, amount) == <<Entry("uncalled", u, amount)>>
ReturnedIfAny(u, amount) == IF amount > 0 THEN Returned(u, amount) ELSE <<>>
CollectedIfAny(u, amount) == IF amount > 0 THEN <<Entry("collected", u, amount)>> ELSE <<>>

\* Without a showdown: the big blind nobody called, or the winner's last bet
\* above what the lines of the others on that street say.
handleUncalledBet(entries, row) ==
  LET u == row.UserId
      bb == Indices(entries, LAMBDA e : e.kind = "big blind" /\ e.user = u)
      bbAmount == FirstAmount(entries, LAMBDA e : e.kind = "big blind" /\ e.user = u)
      sbAmount == FirstAmount(entries, LAMBDA e : e.kind = "small blind")
      answered == bb # {} /\ Indices(After(entries, Min(bb)), LAMBDA e : e.kind \in {"calls", "raises"}) # {}
      bets == Indices(entries, LAMBDA e : e.kind \in Aggressive)
      at == LastIndex(bets)
      upTo == OnStreet(SubSeq(entries, 1, at))
      others == {upTo[i].amount : i \in Indices(upTo, LAMBDA e : e.user # u /\ e.kind \in Wagers)}
      above == entries[at].amount - Max(others \cup {0})
      split(amount) == Returned(u, amount) \o CollectedIfAny(u, row.RewardChip - amount)
  IN IF bb # {} /\ ~answered /\ sbAmount > 0 /\ bbAmount > sbAmount THEN split(bbAmount - sbAmount)
     ELSE IF bets # {} /\ entries[at].user = u /\ above > 0 THEN split(above)
     ELSE <<Entry("collected", u, row.RewardChip)>>

\* At a showdown: the last bet or raise, if no line after it calls, above the
\* most anybody else put in on the street, and within the last side pot.
showdownUncalled(l, ev) ==
  LET bets == Indices(l.entries, LAMBDA e : e.kind \in Aggressive)
      at == Max(bets)
      better == l.entries[at].user
      others == (DealtUserIds(l.deal[1]) \ {better})
      above == l.entries[at].amount - Max({getPlayerStreetCommitment(l.entries, o) : o \in others} \cup {0})
      within(amount) == IF ev.SidePot = <<>> THEN amount ELSE Least(amount, Last(ev.SidePot))
  IN IF bets = {} \/ Indices(After(l.entries, at), LAMBDA e : e.kind = "calls") # {}
     THEN <<>> ELSE ReturnedIfAny(better, within(above))

\* The pots without the uncalled bet, which is taken from the last ones.
WithoutUncalled(pots, amount) ==
  LET after(k) == SumSeq(SubSeq(pots, k + 1, Len(pots)))
  IN [k \in DOMAIN pots |-> pots[k] - Least(pots[k], Most(0, amount - after(k)))]

\* The ways to share one pot: it goes to the best ranked of those who still have
\* something to get, its odd chips to any of them who have more to get.
PotShares(pot, remaining, rank) ==
  LET active == {u \in DOMAIN remaining : remaining[u] > 0}
      group == {u \in active : \A o \in active : rank[u] <= rank[o]}
      each == pot \div Cardinality(group)
      candidates == {u \in group : remaining[u] > each}
  IN CASE pot <= 0 -> {<<>>}
       [] pot > 0 /\ (active = {} \/ \E u \in group : remaining[u] < each) -> {}
       [] OTHER -> {[u \in group |-> IF u \in odd THEN each + 1 ELSE each] :
                      odd \in kSubset(pot % Cardinality(group), candidates)}

\* Every way to split the pots, one after the other, so that the rewards come out.
allocatePots(pots, remaining, rank) ==
  LET left(before, share) == [u \in DOMAIN before |-> IF u \in DOMAIN share THEN before[u] - share[u] ELSE before[u]]
      place(states, pot) ==
        UNION {{[split |-> Append(st.split, share), left |-> left(st.left, share)] :
                  share \in PotShares(pot, st.left, rank)} : st \in states}
      splits == FoldLeft(place, {[split |-> <<>>, left |-> remaining]}, pots)
  IN {st.split : st \in {x \in splits : \A u \in DOMAIN remaining : x.left[u] <= 0}}

\* The lines of the pots, the last pot first.
buildCollectedEntries(ev, uncalled) ==
  LET winners == SelectSeq(ev.Results, LAMBDA r : r.RewardChip > 0)
      returned(u) == SumSeq([i \in DOMAIN uncalled |-> IF uncalled[i].user = u THEN uncalled[i].amount ELSE 0])
      back == SumSeq([i \in DOMAIN uncalled |-> uncalled[i].amount])
      users == {winners[i].UserId : i \in DOMAIN winners}
      remaining == [u \in users |-> UserRow(ev, u)[1].RewardChip - returned(u)]
      rank == [u \in users |-> Most(0, UserRow(ev, u)[1].HandRanking)]
      splits == allocatePots(WithoutUncalled(PotsOf(ev), back), remaining, rank)
      split == IF splits = {} THEN <<>> ELSE CHOOSE s \in splits : TRUE
      lines(share) == LET to == SetToSeq(DOMAIN share) IN [i \in DOMAIN to |-> Entry("collected", to[i], share[to[i]])]
  IN IF ev.SidePot = <<>> THEN [i \in DOMAIN winners |-> Entry("collected", winners[i].UserId, winners[i].RewardChip)]
     ELSE IF uncalled # <<>> /\ (uncalled[1].user \notin users \/ remaining[uncalled[1].user] < 0) THEN <<>>
     ELSE FoldRight(LAMBDA share, acc : acc \o lines(share), split, <<>>)

\* Who shows first: the last to bet on the last street, else the big blind.
getShowdownOrder(l, ev) ==
  LET seatUserIds == l.deal[1].SeatUserIds
      bets == Indices(OnStreet(l.entries), LAMBDA e : e.kind \in Aggressive)
      bb == Indices(l.entries, LAMBDA e : e.kind = "big blind")
      first == IF bets # {} THEN OnStreet(l.entries)[Max(bets)].user
               ELSE IF bb # {} THEN l.entries[Min(bb)].user ELSE seatUserIds[2]
      seat(u) == CHOOSE s \in DOMAIN seatUserIds : seatUserIds[s] = u
      turn(r) == (seat(r.UserId) + Len(seatUserIds) - seat(first)) % Len(seatUserIds)
  IN SortSeq(showdownParticipants(ev), LAMBDA a, b : turn(a) < turn(b))

\* The summary says of every player how the hand ended, and the pot before the
\* rake and without the uncalled bet (-1: unknown).
SummaryLines(l, ev, lines, rake) ==
  LET deal == l.deal[1]
      seats == SetToSortSeq(Occupied(deal), <)
      returned == FirstAmount(lines, LAMBDA e : e.kind = "uncalled")
      pot == IF rake = UnknownRake THEN -1 ELSE SumSeq(PotsOf(ev)) - returned + rake
      folds(u) == Indices(l.entries, LAMBDA e : e.kind = "folds" /\ e.user = u)
      fate(u) ==
        LET row == UserRow(ev, u)
            mine == FirstAmount(lines, LAMBDA e : e.kind = "uncalled" /\ e.user = u)
            street == StreetOf(SubSeq(l.entries, 1, Min(folds(u))))
        IN IF folds(u) # {} THEN Entry("folded", u, street)
           ELSE IF row = <<>>
           THEN (IF Indices(l.entries, LAMBDA e : e.user = u /\ e.kind \in Moves) = {}
                 THEN Entry("folded", u, PREFLOP) ELSE Entry("nothing said", u, 0))
           ELSE IF row[1].RewardChip = 0
           THEN (IF showdownParticipants(ev) = <<>> THEN Entry("nothing said", u, 0) ELSE Entry("lost", u, 0))
           ELSE Entry("won", u, row[1].RewardChip - (IF showdownParticipants(ev) = <<>> THEN mine ELSE 0))
  IN <<Entry("total pot", NoUser, pot)>> \o [i \in DOMAIN seats |-> fate(deal.SeatUserIds[seats[i]])]
addSummarySection(l, ev, lines, battleType) ==
  SummaryLines(l, ev, lines,
               IF isRingBattleType(battleType) THEN deriveHandRakeAccounting(l.deal[1], ev, battleType) ELSE 0)

\* A showdown: the uncalled bet first, then every hand in its turn, then the pots.
ShowdownEntries(ev, shown, uncalled) ==
  uncalled \o [i \in DOMAIN shown |-> Entry("shows", shown[i].UserId, 0)]
    \o buildCollectedEntries(ev, uncalled)

\* The streets nobody announced, and how the hand ended.
EndEntries(l, ev) ==
  LET winners == SelectSeq(ev.Results, LAMBDA r : r.RewardChip > 0)
  IN addMissingStreets(l)
       \o (IF showdownParticipants(ev) = <<>>
           THEN FoldLeft(LAMBDA acc, r : acc \o handleUncalledBet(l.entries, r), <<>>, winners)
           ELSE ShowdownEntries(ev, getShowdownOrder(l, ev), showdownUncalled(l, ev)))
Summarised(l, ev, ends, battleType) ==
  [l EXCEPT !.handId = ev.HandId, !.entries = @ \o ends \o addSummarySection(l, ev, ends, battleType)]

\* The check supplied for the big blind goes to the log at once and again with
\* the lines of the result; twice: its place, if there is one.
ClosedLog(l, ev, check, battleType) ==
  LET checked == [l EXCEPT !.entries = @ \o check, !.twice = IF check = <<>> THEN 0 ELSE Len(l.entries) + 1]
  IN Summarised(checked, ev, check \o EndEntries(checked, ev), battleType)
FixedLog(l, ev, battleType) ==
  ClosedLog([l EXCEPT !.board = fullBoard(l, ev)], ev, getMissingBBCheck(l, ev), battleType)

handleHandResultsEvent(l, ev, battleType) == FixedLog(fixAnteAllInChips(l, ev), ev, battleType)

\* HandLogStream: the hand is handed on when its results are in, and the state
\* of the hand is reset; a session that ends drops a hand in progress.
processSingleEvent(s, ev, battleType) ==
  IF ev.type = "EVT_DEAL" THEN [s EXCEPT !.log = handleDealEvent(ev)]
  ELSE IF s.log = NoLog THEN s
  ELSE CASE ev.type = "EVT_ACTION" -> [s EXCEPT !.log = handleActionEvent(s.log, ev)]
         [] ev.type = "EVT_DEAL_ROUND" -> [s EXCEPT !.log = handleDealRoundEvent(s.log, ev)]
         [] ev.type = "EVT_HAND_RESULTS" ->
              [log |-> NoLog, completed |-> Append(s.completed, handleHandResultsEvent(s.log, ev, battleType))]
         [] OTHER -> s

-----------------------------------------------------------------------------

\* What the stream makes of the events from the wire, in their order.
Fed(s, events) == FoldLeft(LAMBDA acc, ev : processSingleEvent(acc, ev, table.deal.battleType), s, events)

LogInit ==
  \E s \in {Fed([log |-> NoLog, completed |-> <<>>], wire)} :
    log = s.log /\ completed = s.completed

LogStep ==
  \E s \in {Fed([log |-> log, completed |-> completed], After(wire', Len(wire)))} :
    log' = s.log /\ completed' = s.completed

-----------------------------------------------------------------------------

AmountOf(entries, u, kinds) ==
  SumSeq([i \in DOMAIN entries |-> IF entries[i].user = u /\ entries[i].kind \in kinds THEN entries[i].amount ELSE 0])

\* What the lines say a player put in: the posts, and for every street the
\* last bet or raise and the calls after it (on the first, with the blind).
StreetSpans(entries) ==
  LET starts == Indices(entries, LAMBDA e : e.kind = "street")
      next(i) == Min({j \in starts : j > i} \cup {Len(entries) + 1})
  IN {SubSeq(entries, 1, next(i) - 1) : i \in starts}
PutIn(entries, u) ==
  AmountOf(entries, u, {"ante"}) + SumOver({<<StreetOf(span), getPlayerStreetCommitment(span, u)>> : span \in StreetSpans(entries)},
                                           LAMBDA p : p[2])
Got(entries, u) == AmountOf(entries, u, {"uncalled", "collected"})
=============================================================================
