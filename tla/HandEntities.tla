---------------------------- MODULE HandEntities ----------------------------
(***************************************************************************)
(* From the events of a hand to the rows that are stored: the live path    *)
(* (src/streams/aggregate-events-stream.ts, write-entity-stream.ts) and    *)
(* the batch path of imports and rebuilds (src/entity-converter.ts).  The  *)
(* two are separate code that must store the same rows.  Also the order in *)
(* which stored events are read back (src/utils/api-event-key.ts).         *)
(***************************************************************************)
EXTENDS HandStats, ChipAccounting

NoHand == [id |-> 0]

\* A hand being put together: the players, what was offered to the seat that
\* acts next, the street, and the rows so far.
EmptyHand ==
  [seatUserIds |-> <<>>, deal |-> NoHand, positions |-> <<>>, offered |-> {}, street |-> PREFLOP,
   phases |-> <<>>, actions |-> <<>>, stats |-> InitialStatState,
   seen |-> {}, rejected |-> FALSE, results |-> NoHand]

PlayerAt(h, seat) == IF seat \in DOMAIN h.seatUserIds THEN h.seatUserIds[seat] ELSE NoUser
BoardOf(h) == IF h.phases = <<>> THEN <<>> ELSE Last(h.phases).communityCards
InPlay(h, ev) ==
  {PlayerAt(h, s) : s \in {x \in DOMAIN ev.Snapshots : ev.Snapshots[x].BetStatus \in {"BET_ABLE", "ALL_IN"}}}

isShowdownParticipant(row) == row.RankType \notin {"NO_CALL", "FOLD_OPEN"}
hasResultsOutsideDealtLineup(seatUserIds, results) ==
  \E i \in DOMAIN results :
    ~ \E s \in DOMAIN seatUserIds : seatUserIds[s] = results[i].UserId /\ seatUserIds[s] # NoUser

\* The row of an action, with what the detectors say of it.
RecordAction(h, ev, phase, actionType) ==
  LET u == PlayerAt(h, ev.SeatIndex)
      c == DetectionContext(h.actions, u, phase, actionType, h.positions[u])
      row == [playerId |-> u, phase |-> phase, actionType |-> actionType, bet |-> ev.BetChip,
              pot |-> ev.Progress.Pot, sidePot |-> SumSeq(ev.Progress.SidePot), position |-> c.position,
              details |-> DetectActionDetails(c, h.stats)
                            \cup (IF ev.ActionType = "ALL_IN" THEN {"ALL_IN"} ELSE {})]
  IN [h EXCEPT !.street = phase, !.offered = ev.Progress.NextActionTypes,
               !.actions = Append(@, row), !.stats = UpdateStatState(c, @)]

\* Of a board that no deal of the flop announced, the players who did not fold
\* before it saw the flop; two players at the showdown make that phase.
FinalPhases(h, ev) ==
  LET board == BoardOf(h) \o ev.CommunityCards
      preflopFolded == {h.actions[i].playerId : i \in {j \in DOMAIN h.actions :
                          h.actions[j].phase = PREFLOP /\ h.actions[j].actionType = "FOLD"}}
      listed == {ev.Results[i].UserId : i \in DOMAIN ev.Results}
      dealt == {h.seatUserIds[s] : s \in DOMAIN h.seatUserIds} \ {NoUser}
      flop == IF Len(board) >= 3 /\ ~ \E i \in DOMAIN h.phases : h.phases[i].phase = FLOP
              THEN <<[phase |-> FLOP, seatUserIds |-> (dealt \ preflopFolded) \cap listed,
                      communityCards |-> SubSeq(board, 1, 3)]>>
              ELSE <<>>
      shown == {ev.Results[i].UserId : i \in {j \in DOMAIN ev.Results : isShowdownParticipant(ev.Results[j])}}
      showdown == IF Cardinality(shown) >= 2
                  THEN <<[phase |-> SHOWDOWN, seatUserIds |-> shown, communityCards |-> board]>> ELSE <<>>
  IN h.phases \o flop \o showdown

RiverCallsWon(actions, winners) ==
  [i \in DOMAIN actions |->
     IF "RIVER_CALL" \in actions[i].details /\ actions[i].playerId \in winners
     THEN [actions[i] EXCEPT !.details = @ \cup {"RIVER_CALL_WON"}] ELSE actions[i]]

\* The stored hand, once the results are in: its row, and the rows of its children.
HandRow(h, battleType, settlement) ==
  [id |-> h.results.HandId, seatUserIds |-> h.seatUserIds, battleType |-> battleType,
   bigBlindUserId |-> getBigBlindUserId(h.seatUserIds, h.deal.Game.BigBlindSeat),
   bigBlind |-> h.deal.Game.BigBlind, results |-> h.results.Results,
   winningPlayerIds |-> settlement.winningPlayerIds,
   playerChipAccounting |-> settlement.playerChipAccounting]
StoredRows(hand, actions, phases) ==
  [id |-> hand.id, hand |-> hand, actions |-> actions, phases |-> phases,
   contributions |-> derivePlayerHandStatContributions(hand, actions, phases)]
WithChildren(h, hand) ==
  StoredRows(hand, RiverCallsWon(h.actions, hand.winningPlayerIds), FinalPhases(h, h.results))
StoredHand(h, battleType, events) ==
  IF h.rejected \/ h.results = NoHand THEN NoHand
  ELSE WithChildren(h, HandRow(h, battleType, deriveHandSettlement(h.deal, h.results, battleType, events)))

-----------------------------------------------------------------------------
(* WriteEntityStream.toHandState *)

LiveDeal(h, ev) ==
  [EmptyHand EXCEPT !.seatUserIds = ev.SeatUserIds, !.deal = ev,
                    !.positions = getPositionMap(ev.SeatUserIds, ev.Game),
                    !.offered = ev.Progress.NextActionTypes, !.street = ev.Progress.Phase,
                    !.phases = <<[phase |-> ev.Progress.Phase, communityCards |-> <<>>,
                                  seatUserIds |-> DealtUserIds(ev)]>>]

LiveActionType(ev, offered, opensNewStreet) ==
  CASE ev.ActionType # "ALL_IN" -> ev.ActionType
    [] ev.ActionType = "ALL_IN" /\ (opensNewStreet \/ "BET" \in offered) -> "BET"
    [] OTHER -> IF "CALL" \in offered THEN "RAISE" ELSE "CALL"

LiveActionAsSent(h, ev) ==  \* mutant
  IF PlayerAt(h, ev.SeatIndex) = NoUser THEN [h EXCEPT !.offered = ev.Progress.NextActionTypes]
  ELSE RecordAction(h, ev, ev.Progress.Phase, LiveActionType(ev, h.offered, ev.Progress.Phase # h.street))

\* A seat nobody was dealt into only moves what is offered next.
LiveAction(h, ev) ==
  LET phase == resolveActionPhase(ev, h.street)
  IN IF PlayerAt(h, ev.SeatIndex) = NoUser THEN [h EXCEPT !.offered = ev.Progress.NextActionTypes]
     ELSE RecordAction(h, ev, phase, LiveActionType(ev, h.offered, phase # h.street))

LiveDealRound(h, ev) ==
  LET phase == ev.Progress.Phase
  IN IF phase \in h.seen THEN [h EXCEPT !.rejected = TRUE]
     ELSE [h EXCEPT !.seen = @ \cup {phase}, !.street = phase, !.offered = ev.Progress.NextActionTypes,
                    !.phases = Append(@, [phase |-> phase, seatUserIds |-> InPlay(h, ev),
                                          communityCards |-> BoardOf(h) \o ev.CommunityCards])]

LiveResults(h, ev) ==
  IF hasResultsOutsideDealtLineup(h.seatUserIds, ev.Results) THEN [h EXCEPT !.rejected = TRUE]
  ELSE [h EXCEPT !.results = ev]

LiveEvent(h, ev) ==
  CASE h.rejected -> h
    [] ~h.rejected /\ ev.type = "EVT_DEAL" -> LiveDeal(h, ev)
    [] ~h.rejected /\ ev.type = "EVT_ACTION" -> LiveAction(h, ev)
    [] ~h.rejected /\ ev.type = "EVT_DEAL_ROUND" -> LiveDealRound(h, ev)
    [] ~h.rejected /\ ev.type = "EVT_HAND_RESULTS" -> LiveResults(h, ev)

toHandState(events, battleType) ==
  StoredHand(FoldLeft(LiveEvent, EmptyHand, events), battleType, events)

-----------------------------------------------------------------------------
(* AggregateEventsStream: the buffer of the hand being played *)

\* agg: [events, battleType, lastTimestamp, hands (the hands stored), orphans
\* (results whose deal is not in the buffer, only acknowledged)].
NoEvents == [events |-> <<>>, battleType |-> "none", lastTimestamp |-> 0, hands |-> <<>>, orphans |-> 0]

Emptied(agg, hand) ==
  [agg EXCEPT !.events = <<>>, !.hands = IF hand = NoHand THEN @ ELSE Append(@, hand)]

AggregateResults(agg, ev) ==
  LET events == Append(agg.events, ev)
  IN IF events[1].type # "EVT_DEAL" THEN [agg EXCEPT !.events = <<>>, !.orphans = @ + 1]
     ELSE Emptied(agg, toHandState(events, agg.battleType))

\* A clock that went back drops what was buffered.
Aggregate(agg0, ev, timestamp) ==
  LET agg == [agg0 EXCEPT !.events = IF @ # <<>> /\ agg0.lastTimestamp > timestamp THEN <<>> ELSE @,
                          !.lastTimestamp = timestamp]
  IN CASE ev.type = "EVT_ENTRY_QUEUED" -> [agg EXCEPT !.battleType = ev.BattleType]
       [] ev.type = "EVT_DEAL" -> [agg EXCEPT !.events = <<ev>>]
       [] ev.type \in {"EVT_ACTION", "EVT_DEAL_ROUND"} -> [agg EXCEPT !.events = Append(@, ev)]
       [] ev.type = "EVT_HAND_RESULTS" -> AggregateResults(agg, ev)

-----------------------------------------------------------------------------
(* EntityConverter *)

BatchDeal(h, ev) ==
  [EmptyHand EXCEPT !.seatUserIds = ev.SeatUserIds, !.deal = ev,
                    !.positions = getPositionMap(ev.SeatUserIds, ev.Game),
                    !.offered = ev.Progress.NextActionTypes,
                    !.phases = <<[phase |-> PREFLOP, communityCards |-> <<>>,
                                  seatUserIds |-> DealtUserIds(ev)]>>]

normalizeAllInAction(ev, offered, opensNewStreet) ==
  IF ev.ActionType # "ALL_IN" THEN ev.ActionType
  ELSE IF opensNewStreet THEN "BET"
  ELSE IF "BET" \in offered THEN "BET"
  ELSE IF "CALL" \in offered THEN "RAISE" ELSE "CALL"

BatchAction(h, ev) ==
  LET u == PlayerAt(h, ev.SeatIndex)
      phase == resolveActionPhase(ev, h.street)
      opensNewStreet == phase # h.street
  IN IF u = NoUser THEN [h EXCEPT !.offered = ev.Progress.NextActionTypes]
     ELSE RecordAction(h, ev, phase, normalizeAllInAction(ev, h.offered, opensNewStreet))

BatchDealRoundKeepsOffer(h, ev) ==  \* mutant
  IF \E i \in DOMAIN h.phases : h.phases[i].phase = ev.Progress.Phase THEN [h EXCEPT !.rejected = TRUE]
  ELSE [h EXCEPT !.street = ev.Progress.Phase,
                 !.phases = Append(@, [phase |-> ev.Progress.Phase, seatUserIds |-> InPlay(h, ev),
                                       communityCards |-> BoardOf(h) \o ev.CommunityCards])]

BatchDealRound(h, ev) ==
  LET newPhase == ev.Progress.Phase
  IN IF \E i \in DOMAIN h.phases : h.phases[i].phase = newPhase THEN [h EXCEPT !.rejected = TRUE]
     ELSE [h EXCEPT !.street = newPhase, !.offered = ev.Progress.NextActionTypes,
                    !.phases = Append(@, [phase |-> newPhase, seatUserIds |-> InPlay(h, ev),
                                          communityCards |-> BoardOf(h) \o ev.CommunityCards])]

\* Results of other players are passed over: the hand never gets its id.
BatchResults(h, ev) ==
  IF hasResultsOutsideDealtLineup(h.seatUserIds, ev.Results) THEN h ELSE [h EXCEPT !.results = ev]

BatchEvent(h, ev) ==
  CASE h.rejected -> h
    [] ~h.rejected /\ ev.type = "EVT_DEAL" -> BatchDeal(h, ev)
    [] ~h.rejected /\ ev.type = "EVT_ACTION" -> BatchAction(h, ev)
    [] ~h.rejected /\ ev.type = "EVT_DEAL_ROUND" -> BatchDealRound(h, ev)
    [] ~h.rejected /\ ev.type = "EVT_HAND_RESULTS" -> BatchResults(h, ev)
    [] OTHER -> h

convertHandEvents(events, battleType) ==
  StoredHand(FoldLeft(BatchEvent, EmptyHand, events), battleType, events)

appendCurrentHand(conv) ==
  IF conv.events = <<>> THEN conv ELSE Emptied(conv, convertHandEvents(conv.events, conv.battleType))

\* Whatever arrives between a deal and its results stays in the buffer.
ConvertEvent(conv0, ev) ==
  LET conv == IF ev.type = "EVT_ENTRY_QUEUED" THEN [conv0 EXCEPT !.battleType = ev.BattleType] ELSE conv0
      buffered == [conv EXCEPT !.events = Append(@, ev)]
  IN CASE ev.type = "EVT_DEAL" -> [appendCurrentHand(conv) EXCEPT !.events = <<ev>>]
       [] ev.type # "EVT_DEAL" /\ conv.events = <<>> -> conv
       [] OTHER -> IF ev.type = "EVT_HAND_RESULTS" THEN appendCurrentHand(buffered) ELSE buffered

\* The hands of a list of events, its chunks and the last flush.
convertEventsToEntities(events) ==
  appendCurrentHand(FoldLeft(ConvertEvent, NoEvents, events)).hands

-----------------------------------------------------------------------------
(* The order of stored events: by time, kind and sequence number *)

ApiTypeId(ev) ==
  CASE ev.type = "EVT_ENTRY_QUEUED" -> 201 [] ev.type = "EVT_DEAL" -> 303
    [] ev.type = "EVT_ACTION" -> 304 [] ev.type = "EVT_DEAL_ROUND" -> 305
    [] ev.type = "EVT_HAND_RESULTS" -> 306

isProvenSnapshotBeforeAction(snapshot, action) ==
  /\ snapshot.type \in {"EVT_DEAL", "EVT_DEAL_ROUND"} /\ action.type = "EVT_ACTION"
  /\ action.SeatIndex \in DOMAIN snapshot.Snapshots
  /\ LET actor == snapshot.Snapshots[action.SeatIndex]
         additionalBet == action.BetChip - actor.BetChip
     IN /\ additionalBet >= 0
        /\ snapshot.Progress.Phase = action.Progress.Phase
        /\ snapshot.Progress.NextActionSeat = action.SeatIndex
        /\ action.Progress.Pot = snapshot.Progress.Pot + additionalBet
        /\ actor.Chip = action.Chip + additionalBet

orderApiEventsByKind(events, stamp) ==  \* mutant
  LET before(i, j) == \/ stamp[i] < stamp[j]
                      \/ stamp[i] = stamp[j] /\ ApiTypeId(events[i]) < ApiTypeId(events[j])
                      \/ stamp[i] = stamp[j] /\ ApiTypeId(events[i]) = ApiTypeId(events[j]) /\ i > j
      at == SortSeq([i \in DOMAIN events |-> i], before)
  IN [k \in DOMAIN at |-> events[at[k]]]

\* stamp: the time of every event; of two alike the one that came first has the
\* lower sequence number.  Of one millisecond the events keep the order of their
\* kinds, unless they are two of which the second is proven to come first.
orderApiEventsForReplay(events, stamp) ==
  LET before(i, j) ==
        \/ stamp[i] < stamp[j]
        \/ stamp[i] = stamp[j] /\ ApiTypeId(events[i]) < ApiTypeId(events[j])
        \/ stamp[i] = stamp[j] /\ ApiTypeId(events[i]) = ApiTypeId(events[j]) /\ i < j
      at == SortSeq([i \in DOMAIN events |-> i], before)
      group(k) == {i \in DOMAIN events : stamp[i] = stamp[at[k]]}
      swapped(k) == /\ k + 1 \in DOMAIN at /\ k >= 1 /\ group(k) = {at[k], at[k + 1]}
                    /\ isProvenSnapshotBeforeAction(events[at[k + 1]], events[at[k]])
  IN [k \in DOMAIN at |-> CASE swapped(k) -> events[at[k + 1]]
                            [] swapped(k - 1) -> events[at[k - 1]]
                            [] OTHER -> events[at[k]]]
=============================================================================
