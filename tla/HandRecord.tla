----------------------------- MODULE HandRecord -----------------------------
(***************************************************************************)
(* One hand from the wire to the rows: the events of HoldemTable arrive at *)
(* the live path and at the hand log one by one, and once the hand is over *)
(* the stored events are converted again, in the order their timestamps    *)
(* and kinds give.                                                         *)
(***************************************************************************)
EXTENDS HandExport, HandOracle, StatDefinitions, RecentHands, RealTimeStats

CONSTANTS
  MaxBurst  \* bound: events of the hand that get the same millisecond

VARIABLES
  stamps,   \* the time each event of the wire was received
  live,     \* the live buffer and the hands it stored
  rebuilt   \* the stored order that was converted and the hands it gave

vars == <<table, wire, log, completed, stamps, live, rebuilt>>

NotRebuilt == [order |-> <<>>, burst |-> 0, stamps |-> <<>>, hands |-> <<>>]

\* Events are two time units apart unless the clock is set back.
Received(back) ==
  LET start == IF stamps = <<>> THEN 1 ELSE Last(stamps) + 2 - back
  IN stamps' = stamps \o [i \in 1 .. Len(wire') - Len(wire) |-> start + 2 * (i - 1)]

Step(back) ==
  /\ Play
  /\ LogStep
  /\ Received(back)
  /\ live' = FoldLeft(LAMBDA agg, i : Aggregate(agg, wire'[i], stamps'[i]), live,
                      [k \in 1 .. Len(wire') - Len(wire) |-> Len(wire) + k])
  /\ UNCHANGED rebuilt

\* The clock is set back at most once, by more than an event takes.
Monotonic == \A i \in 1 .. Len(stamps) - 1 : stamps[i] < stamps[i + 1]
PlayOn == \E back \in {0} \cup (IF table.quirk = "clock" /\ Monotonic THEN {3} ELSE {}) : Step(back)

\* The events first..last of the wire got one millisecond.
Burst(first, last) == [i \in DOMAIN wire |-> IF i \in first .. last THEN stamps[first] ELSE stamps[i]]

Rebuild ==
  /\ table.done /\ rebuilt = NotRebuilt /\ Monotonic
  /\ \E first \in DOMAIN wire : \E last \in first .. Least(first + MaxBurst - 1, Len(wire)) :
       LET order == orderApiEventsForReplay(wire, Burst(first, last))
       IN /\ first = last => first = 1
          /\ first < last => order # wire /\ table.quirk = "none"
          /\ rebuilt' = [order |-> order, burst |-> last - first + 1, stamps |-> Burst(first, last),
                         hands |-> convertEventsToEntities(order)]
  /\ UNCHANGED <<table, wire, log, completed, stamps, live>>

Init ==
  /\ TableInit
  /\ LogInit
  /\ stamps = [i \in DOMAIN wire |-> 2 * i - 1]
  /\ live = FoldLeft(LAMBDA agg, i : Aggregate(agg, wire[i], stamps[i]), NoEvents, [k \in DOMAIN wire |-> k])
  /\ rebuilt = NotRebuilt

Next == PlayOn \/ Rebuild

Spec == Init /\ [][Next]_vars

-----------------------------------------------------------------------------

Converted == rebuilt # NotRebuilt
Finished == table.done /\ ~Converted /\ Last(wire).HandId = 1

\* What several stacks put in that the ante consumed whole is not known.
Guessed == Cardinality({s \in Seated(table.deal) : table.deal.start[s] <= table.deal.ante}) > 1

\* The options of a seat that times out are taken for those of the next seat,
\* so that an all-in after one may be stored as the CALL or RAISE it was not.
KindIsKnown(action) == "ALL_IN" \in action.details => table.quirk # "timeout"

\* Every hand stored live is the hand that was played: its actions are those of
\* the players in their order, each in its street and of its kind, and never
\* those of another table; and every hand played to its end is stored unless
\* the clock went back.  (AggregateEventsStream, WriteEntityStream.toHandState)
LiveHandIsTrue ==
  /\ \A h \in DOMAIN live.hands :
       LET actions == live.hands[h].actions
       IN ~Converted =>
          /\ live.hands[h].id = 1 /\ Len(actions) = Len(table.truth)
          /\ \A i \in DOMAIN actions :
               /\ actions[i].playerId = table.truth[i].playerId
               /\ actions[i].phase = table.truth[i].phase
               /\ KindIsKnown(actions[i]) => actions[i].actionType = table.truth[i].actionType
  /\ Finished /\ Monotonic => Len(live.hands) = 1

\* What a player put in, got and won is exactly what the table paid or unknown,
\* and known whenever no stack is hidden, at most one went in whole with the
\* ante and no chips were added; the winners are exactly those who won chips
\* that somebody else had called.
\* (deriveHandSettlement)
AccountingIsExactOrUnknown ==
  Finished => \A i \in DOMAIN live.hands :
    LET hand == live.hands[i].hand
        accounting == hand.playerChipAccounting
        known == {u \in DOMAIN accounting : accounting[u] # UnknownResult}
        winners == {u \in DOMAIN accounting : Won(SeatOf(u)) > Unmatched(SeatOf(u))}
        paidTo(s) == [grossPayout |-> Won(s), totalContribution |-> table.paid[s],
                      netChips |-> Won(s) - table.paid[s]]
    IN /\ \A u \in known : accounting[u] = paidTo(SeatOf(u))
       /\ hand.winningPlayerIds \subseteq winners
       /\ known = DOMAIN accounting => hand.winningPlayerIds = winners
       /\ table.quirk \in {"none", "timeout", "open"} /\ ~Guessed => known = DOMAIN accounting

\* A rebuild or an import stores exactly what the live path stored, if the
\* stored order is that of the wire; and it is when two events share a
\* millisecond, as long as there is one pot and the stacks add up.
\* (EntityConverter, orderApiEventsForReplay)
NoSidePot == \A i \in DOMAIN wire : wire[i].type = "EVT_ACTION" => wire[i].Progress.SidePot = <<>>
RebuildStoresTheSame ==
  Converted => /\ rebuilt.order = wire => rebuilt.hands = live.hands
               /\ rebuilt.burst <= 2 /\ NoSidePot => rebuilt.order = wire

\* Whatever events share a millisecond, a rebuild finds every action of the
\* hand, in its order, of the player who made it and in its street; only the
\* action that ends the hand may be counted to the street before.
\* (resolveActionPhase)
BurstsKeepTheMoves ==
  Converted /\ live.hands # <<>> =>
    /\ Len(rebuilt.hands) = 1
    /\ LET mine == rebuilt.hands[1].actions
           theirs == live.hands[1].actions
       IN /\ Len(mine) = Len(theirs)
          /\ \A i \in DOMAIN mine :
               /\ mine[i].playerId = theirs[i].playerId /\ mine[i].bet = theirs[i].bet
               /\ mine[i].phase # theirs[i].phase => i = Len(mine) /\ rebuilt.burst > 2
               /\ "ALL_IN" \notin mine[i].details => mine[i].actionType = theirs[i].actionType

\* A rebuild of the stored events keeps the hand: the same hand as the live one in the order
\* of the wire, and the same moves in any order that one millisecond allows.
RebuildKeepsTheHand == RebuildStoresTheSame /\ BurstsKeepTheMoves

\* The independent computation of the verify-stats tool gives every player the
\* fractions of the ledger, for any order of events that the wire can have.
\* When the ante takes several stacks whole the tool names the winners of the
\* main pot where the product names none (fallback, unresolved).
\* (runOracle, compareResults)
OracleAgrees ==
  Converted /\ ~Guessed /\ rebuilt.order = wire =>
    \A oracle \in {runOracle(rebuilt.order)} :
      IF rebuilt.hands = <<>> THEN oracle = <<>>
      ELSE compareResults(oracle, rebuilt.hands[1].contributions)

\* The contributions of the hands of a player, added up, are what the formulas
\* of the statistics make of all the rows.  (deriveCounters, calculate)
LedgerSumsTheRows ==
  Converted =>
    LET stored == live.hands \o rebuilt.hands
    IN \A u \in {table.deal.seats[s] : s \in Seated(table.deal)} :
         stored # <<>> => runLedgerPipeline(stored, u) = runLegacyPipeline(stored, u)

\* What is stored of the hands and what the tool recomputes from the wire give every player the
\* same fractions.
StatisticsAgree == OracleAgrees /\ LedgerSumsTheRows

\* Read back, the log takes from every player exactly the chips the table took
\* and gives back exactly what the server paid; only what several stacks put in
\* that the ante consumed whole is a guess (fixAnteAllInChips).
ChipsAreTold(entries) ==
  \A u \in Players : /\ ~Guessed => PutIn(entries, u) = table.paid[SeatOf(u)]
                     /\ Got(entries, u) = Won(SeatOf(u))

\* A bet that a showdown log says was returned is the part nobody matched (the
\* part of an ante that nobody matched is not told apart from the pot).
ReturnIsUnmatched(entries) ==
  \A u \in Players :
    LET returned == AmountOf(entries, u, {"uncalled"})
    IN Indices(entries, LAMBDA e : e.kind = "shows") # {} /\ returned > 0
         => IF \A s \in Seated(table.deal) : table.deal.start[s] >= table.deal.ante
            THEN returned = Unmatched(SeatOf(u)) ELSE returned <= Unmatched(SeatOf(u))

\* The pot of the summary is all that was put in and not returned, and known
\* unless a stack is hidden or chips were added; every fold is told with the
\* street it was made on.
SummaryIsTrue(entries) ==
  LET pots == {entries[i].amount : i \in Indices(entries, LAMBDA e : e.kind = "total pot")}
      returned == SumOver(Players, LAMBDA u : AmountOf(entries, u, {"uncalled"}))
      folded == {i \in DOMAIN table.truth : table.truth[i].actionType = "FOLD"}
      told == {<<entries[i].user, entries[i].amount>> :
                 i \in Indices(entries, LAMBDA e : e.kind = "folded")}
  IN /\ \A pot \in pots : IF pot = -1 THEN Guessed \/ table.quirk \in {"hidden", "rebuy"}
                          ELSE table.quirk # "rebuy" => pot = Total(table.paid) - returned
     /\ {<<table.truth[i].playerId, table.truth[i].phase>> : i \in folded} \subseteq told

\* The history exported from the stored rows is, for every stored hand, the log
\* of the hand if the stored order is that of the wire; a hand without a showdown
\* is paid out as the server paid it whatever the order; and an export of the
\* hand alone reads the same events.
ExportIsTheLog(rows, hands, history) ==
  /\ Len(history) = Len(hands)
  /\ \A i \in DOMAIN hands :
       /\ rebuilt.order = wire => history[i] = ToldOnce(completed[1])
       /\ Only(table) => \A u \in Players : Got(history[i], u) = Won(SeatOf(u))
       /\ getHandApiEvents(rows, hands[i]) = extractHandEvents(Prefetched(rows, hands), hands[i])

\* The log of every completed hand tells its chips, what was returned uncalled
\* and its summary as the table has them, and the export of the stored hands
\* finds the events of that log again.  (HandLogProcessor, HandLogExporter)
LogTellsTheHand ==
  IF Converted
  THEN LET rows == [i \in DOMAIN wire |-> [event |-> wire[i], stamp |-> rebuilt.stamps[i]]]
           hands == [i \in DOMAIN rebuilt.hands |-> rebuilt.hands[i].hand]
       IN ExportIsTheLog(rows, hands, exportMultipleHands(rows, hands))
  ELSE \A h \in DOMAIN completed :
         completed[h].handId = 1 => /\ ChipsAreTold(completed[h].entries)
                                    /\ ReturnIsUnmatched(completed[h].entries)
                                    /\ SummaryIsTrue(completed[h].entries)

MovesOf(u, phase) == {i \in DOMAIN table.truth : table.truth[i].playerId = u /\ table.truth[i].phase = phase}
FoldedPreflop(u) == \E i \in MovesOf(u, PREFLOP) : table.truth[i].actionType = "FOLD"
FinalBoard == IF Only(table) THEN Board(table.phase) ELSE Board(RIVER)

\* Every move of a street is told with its kind and the pot it was made into,
\* and the chips of all moves and posts are those the player put in.
StreetsAreTrue(entry, actions, u) ==
  LET s == SeatOf(u)
      lines == entry.postflopLines
      preflop == {actions[i].bet : i \in MovesOf(u, PREFLOP)} \cup {BlindPaid(table.deal, s)}
  IN /\ \A phase \in DOMAIN lines : \A k \in DOMAIN lines[phase] :
          LET move == lines[phase][k]
          IN /\ move.potBefore = table.truth[move.at].before
             /\ table.quirk # "timeout" => move.actionType = table.truth[move.at].actionType
     /\ table.paid[s] = AntePaid(table.deal, s) + Max(preflop)
          + SumOver({pk \in (DOMAIN lines) \X (1 .. MaxAggressive + 2) : pk[2] \in DOMAIN lines[pk[1]]},
                    LAMBDA pk : lines[pk[1]][pk[2]].increment)

\* The label says the fold, and of a raise which one it was; a size is told of
\* raises and cold calls only.  No hand is filtered out that cost the player
\* more than the posts or showed a flop.
LabelIsTrue(entry, u) ==
  LET s == SeatOf(u)
      label == entry.preflopLine
      raisesBefore == {i \in 1 .. entry.at - 1 : /\ table.truth[i].phase = PREFLOP
                                                 /\ table.truth[i].actionType = "RAISE"}
  IN /\ label.folded = FoldedPreflop(u)
     /\ label.kind = "walk" => u = table.deal.seats[table.deal.bbSeat] /\ MovesOf(u, PREFLOP) = {}
     /\ label.kind = "raise" /\ table.quirk # "timeout" => label.bets = Cardinality(raisesBefore) + 2
     /\ label.kind = "raise" /\ entry.amount > 0 => table.truth[entry.at].actionType = "RAISE"
     /\ entry.amount > 0 => label.kind \in {"raise", "cold call"}
     /\ ~isVoluntaryParticipation(entry) => /\ table.paid[s] = AntePaid(table.deal, s) + BlindPaid(table.deal, s)
                                            /\ FinalBoard = <<>> \/ table.status[s] = "folded"

\* The panel of recent hands tells of every hand what the player did, saw and
\* showed: moves, pots, the preflop line, the board, and no cards but the hero's
\* and those a showdown turned over.  (getRecentHands)
RecentHandIsTrue ==
  ~Converted => \A h \in DOMAIN live.hands : \A u \in {p \in Players : isDealtIn(live.hands[h].hand, p)} :
    LET hero == table.deal.hero # NoSeat /\ u = table.deal.seats[table.deal.hero]
    IN \A entry \in {RecentHand(live.hands[h], wire[2], u, hero)} :
       /\ StreetsAreTrue(entry, live.hands[h].actions, u)
       /\ LabelIsTrue(entry, u)
       /\ entry.board = FinalBoard
       /\ table.quirk # "timeout" => entry.sawFlop = (FinalBoard # <<>> /\ ~FoldedPreflop(u))
       /\ entry.holeCards # "none" => hero \/ table.status[SeatOf(u)] # "folded"
       /\ Len(formatPostflopLines(entry.postflopLines)) <= Most(0, Len(FinalBoard) - 2)

\* Whatever a player reads of a hand afterwards is the hand that was played: the log and the
\* exported history, and the panel of recent hands.
WhatIsReadIsTrue == LogTellsTheHand /\ RecentHandIsTrue
=============================================================================
