----------------------------- MODULE HandExport -----------------------------
(***************************************************************************)
(* The exported hand history: src/utils/hand-log-exporter.ts looks up the  *)
(* raw events of every stored hand again and runs them through the         *)
(* processor of the hand log.  Names of players are not told apart from    *)
(* their ids here.                                                         *)
(***************************************************************************)
EXTENDS HandLog, HandEntities

\* Raw rows are [event, stamp].  A look-up begins five minutes before the deal,
\* which is before every row there is here, and ends with the result.
ResultOf(rows, hand) ==
  {i \in DOMAIN rows : rows[i].event.type = "EVT_HAND_RESULTS" /\ rows[i].event.HandId = hand.id}
UpTo(rows, stamp) == SelectSeq(rows, LAMBDA row : row.stamp <= stamp)

\* The stored rows in the order of replay: the k-th one has the k-th stamp.
Ordered(rows) ==
  LET stamps == [i \in DOMAIN rows |-> rows[i].stamp]
      events == orderApiEventsForReplay([i \in DOMAIN rows |-> rows[i].event], stamps)
      sorted == SortSeq(stamps, <)
  IN [k \in DOMAIN rows |-> [event |-> events[k], stamp |-> sorted[k]]]

\* From the last deal to the same players up to the result of the hand.
DealToResult(ordered, hand) ==
  LET step(acc, row) ==
        CASE acc.found -> acc
          [] ~acc.found /\ row.event.type = "EVT_DEAL" ->
               IF row.event.SeatUserIds = hand.seatUserIds THEN [acc EXCEPT !.events = <<row.event>>] ELSE acc
          [] OTHER -> IF acc.events = <<>> THEN acc
                      ELSE [events |-> Append(acc.events, row.event), found |-> ResultOf(<<row>>, hand) # {}]
  IN FoldLeft(step, [events |-> <<>>, found |-> FALSE], ordered).events

\* One hand: its rows are looked up and ordered; none if its result is missing.
getHandApiEvents(rows, hand) ==
  IF ResultOf(rows, hand) = {} THEN <<>>
  ELSE DealToResult(Ordered(UpTo(rows, rows[Min(ResultOf(rows, hand))].stamp)), hand)

\* Several: the rows up to the last result are ordered once for all hands.
Prefetched(rows, hands) ==
  LET results == {rows[i].stamp : i \in UNION {ResultOf(rows, hands[h]) : h \in DOMAIN hands}}
  IN Ordered(UpTo(rows, Max(results \cup {0})))
extractHandEvents(ordered, hand) ==
  IF ResultOf(ordered, hand) = {} THEN <<>>
  ELSE DealToResult(UpTo(ordered, ordered[Min(ResultOf(ordered, hand))].stamp), hand)

\* The lines the processor returns: those of the log, the supplied check once.
ToldOnce(l) == IF l.twice = 0 THEN l.entries ELSE RemoveAt(l.entries, l.twice)
LinesOf(s) == ToldOnce(IF s.completed = <<>> THEN s.log ELSE Last(s.completed))
processEvents(events, battleType) ==
  LinesOf(FoldLeft(LAMBDA s, ev : processSingleEvent(s, ev, battleType),
                   [log |-> NoLog, completed |-> <<>>], events))

\* The history of the hands, each with the battle type it was stored with; a
\* hand without events is skipped.
History(ordered, hands) ==
  LET found == SelectSeq(hands, LAMBDA hand : extractHandEvents(ordered, hand) # <<>>)
  IN [i \in DOMAIN found |-> processEvents(extractHandEvents(ordered, found[i]), found[i].battleType)]
exportMultipleHands(rows, hands) == History(Prefetched(rows, hands), hands)
=============================================================================
