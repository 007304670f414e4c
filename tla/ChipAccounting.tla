--------------------------- MODULE ChipAccounting ---------------------------
(***************************************************************************)
(* src/utils/hand-chip-accounting.ts: what every player of a hand put in,  *)
(* got back and won, derived from the snapshots of the events of the hand. *)
(* RewardChip is a gross payout: it includes the part of a bet that nobody *)
(* called.  What cannot be derived exactly is unknown, never estimated.    *)
(* Events are the records of HoldemTable; Player and OtherPlayers of an    *)
(* event are its Snapshots, a function of the seats it describes.          *)
(***************************************************************************)
EXTENDS GameTypes, Sequences, FiniteSets, SequencesExt, FiniteSetsExt

UnknownStack == -1
UnknownResult == [grossPayout |-> -1, totalContribution |-> -1, netChips |-> 0]
UnknownSettlement == [contestedAward |-> -1, uncalledReturn |-> -1]

Occupied(deal) == {s \in DOMAIN deal.SeatUserIds : deal.SeatUserIds[s] # NoUser}
DealtUserIds(deal) == {deal.SeatUserIds[s] : s \in Occupied(deal)}
SeatOfUser(deal, u) == CHOOSE s \in Occupied(deal) : deal.SeatUserIds[s] = u
Sum(f) == FoldFunction(+, 0, f)
SumOver(S, Value(_)) == FoldSet(LAMBDA s, acc : acc + Value(s), 0, S)

isRingBattleType(battleType) == battleType \in {"RING_GAME", "FRIEND_RING_GAME"}
isTournament(battleType) ==
  battleType \in {"SIT_AND_GO", "TOURNAMENT", "FRIEND_SIT_AND_GO", "CLUB_MATCH"}

-----------------------------------------------------------------------------
(* The stack before the forced posts *)

isAnteContributor(deal, s) ==
  s \in DOMAIN deal.Snapshots => deal.Snapshots[s].BetStatus \in {"BET_ABLE", "ALL_IN"}

getPlayerChipsAfterAnte(deal, s) ==
  IF s \in DOMAIN deal.Snapshots
  THEN deal.Snapshots[s].Chip + deal.Snapshots[s].BetChip ELSE UnknownStack

countAnteContributors(deal) ==
  Cardinality({s \in Occupied(deal) : isAnteContributor(deal, s)})

\* A stack that the ante alone consumed is only known as the main pot's tier.
InferredShortStack(deal) ==
  LET anteAllIn == {s \in Occupied(deal) : /\ isAnteContributor(deal, s)
                                           /\ getPlayerChipsAfterAnte(deal, s) = 0}
      payers == countAnteContributors(deal)
      stack == deal.Progress.Pot \div payers
  IN IF \/ Cardinality(anteAllIn) > 1 /\ deal.Progress.SidePot # <<>>
        \/ payers = 0 \/ deal.Progress.Pot % payers # 0
        \/ stack \notin 1 .. deal.Game.Ante
     THEN UnknownStack ELSE stack

deriveStartingStack(deal, s) ==
  LET chips == getPlayerChipsAfterAnte(deal, s)
  IN IF chips = UnknownStack \/ ~isAnteContributor(deal, s) THEN chips
     ELSE IF chips > 0 \/ deal.Game.Ante = 0 THEN chips + deal.Game.Ante
     ELSE InferredShortStack(deal)

-----------------------------------------------------------------------------
(* Chips added in mid-hand (ring games only): within a street Chip + BetChip *)
(* of a seat stays the same, between streets it falls by the BetChip of the  *)
(* street.  An increase came from outside, a decrease refutes the record.    *)

\* m: stack and street bet last seen of every seat, the street they belong to,
\* the chips added, the street the table has reached, and whether all agreed.
observe(m, s, phase, chip, bet) ==
  IF ~m.ok \/ s \notin DOMAIN m.stack \/ phase < m.street[s] THEN m
  ELSE LET settled == IF phase = m.street[s] THEN m.stack[s] ELSE m.stack[s] - m.bet[s]
           delta == chip + bet - settled
       IN IF delta < 0 THEN [m EXCEPT !.ok = FALSE]
          ELSE [m EXCEPT !.stack[s] = chip + bet, !.bet[s] = bet, !.street[s] = phase,
                         !.inflow[s] = @ + delta]

ObserveAction(m, ev) ==
  LET ending == ev.Progress.NextActionSeat = HandEnding
      reached == IF ending \/ ev.Progress.Phase < m.reached THEN m.reached ELSE ev.Progress.Phase
  IN observe([m EXCEPT !.reached = reached], ev.SeatIndex,
             IF ending THEN reached ELSE ev.Progress.Phase, ev.Chip, ev.BetChip)

ObserveRound(m, ev) ==
  LET phase == ev.Progress.Phase
      fresh == {s \in DOMAIN ev.Snapshots : s \in DOMAIN m.street => phase > m.street[s]}
      seen == FoldSet(LAMBDA s, acc : observe(acc, s, phase, ev.Snapshots[s].Chip, ev.Snapshots[s].BetChip),
                      [m EXCEPT !.reached = IF phase > @ THEN phase ELSE @], fresh)
      stale == {s \in DOMAIN seen.street : seen.street[s] < phase}
  IN [seen EXCEPT !.stack = [s \in DOMAIN @ |-> IF s \in stale THEN @[s] - seen.bet[s] ELSE @[s]],
                  !.bet = [s \in DOMAIN @ |-> IF s \in stale THEN 0 ELSE @[s]],
                  !.street = [s \in DOMAIN @ |-> IF s \in stale THEN phase ELSE @[s]]]

ObserveHand(deal, events) ==
  LET start == [stack |-> [s \in Occupied(deal) |-> deal.Snapshots[s].Chip + deal.Snapshots[s].BetChip],
                bet |-> [s \in Occupied(deal) |-> deal.Snapshots[s].BetChip],
                street |-> [s \in Occupied(deal) |-> deal.Progress.Phase],
                inflow |-> [s \in Occupied(deal) |-> 0],
                reached |-> deal.Progress.Phase, ok |-> TRUE]
  IN FoldLeft(LAMBDA m, ev : IF ev.type = "EVT_ACTION" THEN ObserveAction(m, ev)
                             ELSE IF ev.type = "EVT_DEAL_ROUND" THEN ObserveRound(m, ev) ELSE m,
              start, events)

RewardOf(results, u) ==
  Sum([i \in {j \in DOMAIN results.Results : results.Results[j].UserId = u} |-> results.Results[i].RewardChip])

NoInflow(deal) == [s \in Occupied(deal) |-> 0]
deriveMidHandChipInflowNever(deal, results, events, battleType) == NoInflow(deal)  \* mutant

\* What the final stacks show beyond the payouts was added too; what they lack
\* is not held against the record.  No inflow if the record cannot be trusted.
deriveMidHandChipInflow(deal, results, events, battleType) ==
  IF ~isRingBattleType(battleType) \/ ~(Occupied(deal) \subseteq DOMAIN deal.Snapshots)
  THEN NoInflow(deal)
  ELSE LET m == ObserveHand(deal, events)
           excess(s) == IF s \notin DOMAIN results.Snapshots THEN 0
                        ELSE results.Snapshots[s].Chip + results.Snapshots[s].BetChip
                               - (m.stack[s] - m.bet[s] + RewardOf(results, deal.SeatUserIds[s]))
       IN IF ~m.ok THEN NoInflow(deal)
          ELSE [s \in Occupied(deal) |-> m.inflow[s] + (IF excess(s) > 0 THEN excess(s) ELSE 0)]

-----------------------------------------------------------------------------
(* The signed result of every player *)

SumSeq(q) == FoldLeft(+, 0, q)
GrossPot(results) == results.Pot + SumSeq(results.SidePot)
GrossPayout(results) == SumSeq([i \in DOMAIN results.Results |-> results.Results[i].RewardChip])

\* The results belong to this deal and pay out exactly the pots.
PayoutsBalance(deal, results) ==
  /\ \A i \in DOMAIN results.Results : results.Results[i].UserId \in DealtUserIds(deal)
  /\ \A i, j \in DOMAIN results.Results :
       results.Results[i].UserId = results.Results[j].UserId => i = j
  /\ GrossPot(results) = GrossPayout(results)

Starts(deal) == [s \in Occupied(deal) |-> deriveStartingStack(deal, s)]

\* The final stacks without the chips added.  The only one a tournament event
\* omits follows from the others, if it is that of a player with a result.
FinalStacks(deal, results, battleType, inflow, starts) ==
  LET seen == DOMAIN results.Snapshots \cap Occupied(deal)
      stack(s) == results.Snapshots[s].Chip + results.Snapshots[s].BetChip - inflow[s]
      missing == Occupied(deal) \ seen
      inferable == /\ isTournament(battleType) /\ Cardinality(missing) = 1
                   /\ \A s \in Occupied(deal) : starts[s] # UnknownStack
                   /\ \E i \in DOMAIN results.Results :
                        results.Results[i].UserId = deal.SeatUserIds[Min(missing)]
      inferred == Sum(starts) - SumOver(seen, stack)
  IN IF inferable THEN [s \in Occupied(deal) |-> IF s \in seen THEN stack(s) ELSE inferred]
     ELSE [s \in seen |-> stack(s)]

\* Tournament chips are zero-sum, rake only removes chips.
ChipsConserved(starts, finals, battleType) ==
  LET complete == \A s \in DOMAIN starts : starts[s] # UnknownStack /\ s \in DOMAIN finals
      delta == Sum(finals) - Sum(starts)
  IN IF complete THEN IF isTournament(battleType) THEN delta = 0 ELSE delta <= 0
     ELSE isTournament(battleType) \/ isRingBattleType(battleType)

\* What every player put in and got, from the stacks before and after the hand.
ResultsOf(deal, results, battleType, inflow, starts, finals) ==
  LET sound == /\ PayoutsBalance(deal, results) /\ ChipsConserved(starts, finals, battleType)
               /\ isTournament(battleType) => \A s \in DOMAIN finals : finals[s] >= 0
      result(u) ==
        LET s == SeatOfUser(deal, u)
            payout == RewardOf(results, u)
            contribution == starts[s] + payout - finals[s]
        IN IF \/ starts[s] = UnknownStack \/ s \notin DOMAIN finals
              \/ contribution \notin 0 .. starts[s] + inflow[s]
           THEN UnknownResult
           ELSE [grossPayout |-> payout, totalContribution |-> contribution,
                 netChips |-> payout - contribution]
  IN [u \in DealtUserIds(deal) |-> IF sound THEN result(u) ELSE UnknownResult]

derivePlayerHandChipAccounting(deal, results, battleType, inflow) ==
  ResultsOf(deal, results, battleType, inflow, Starts(deal),
            FinalStacks(deal, results, battleType, inflow, Starts(deal)))

UnknownRake == -1
RakeOf(accounting) ==
  LET rake == Sum([u \in DOMAIN accounting |-> accounting[u].totalContribution - accounting[u].grossPayout])
  IN IF rake < 0 \/ \E u \in DOMAIN accounting : accounting[u] = UnknownResult THEN UnknownRake ELSE rake
deriveHandRakeAccounting(deal, results, battleType) ==
  IF \/ ~isRingBattleType(battleType)
     \/ DOMAIN deal.Snapshots # Occupied(deal) \/ DOMAIN results.Snapshots # Occupied(deal)
  THEN UnknownRake
  ELSE RakeOf(derivePlayerHandChipAccounting(deal, results, battleType, NoInflow(deal)))

-----------------------------------------------------------------------------
(* Contested awards and uncalled returns *)

\* The contribution tiers: a tier one player reached is returned to that
\* player, a tier of several is won by the best ranked result among them.
Levels(contribution) ==
  SetToSortSeq({contribution[u] : u \in DOMAIN contribution} \ {0}, <)
TierOf(contribution, k) ==
  {u \in DOMAIN contribution : contribution[u] >= Levels(contribution)[k]}
TierStep(contribution, k) ==
  Levels(contribution)[k] - (IF k = 1 THEN 0 ELSE Levels(contribution)[k - 1])

uncalledReturns(contribution, u) ==
  Sum([k \in {j \in DOMAIN Levels(contribution) : TierOf(contribution, j) = {u}}
         |-> TierStep(contribution, k)])

Rank(row) == IF row.HandRanking > 0 THEN row.HandRanking ELSE 1
EligibleRows(results, tier) ==
  {results.Results[i] : i \in {j \in DOMAIN results.Results :
     /\ results.Results[j].UserId \in tier
     /\ \/ results.Results[j].HandRanking > 0
        \/ results.Results[j].RankType = "NO_CALL" /\ results.Results[j].RewardChip > 0}}
TierWinners(results, tier) ==
  LET rows == EligibleRows(results, tier)
  IN {row.UserId : row \in {r \in rows : \A o \in rows : Rank(r) <= Rank(o)}}

ContestedTiers(contribution) ==
  {TierOf(contribution, k) : k \in {j \in DOMAIN Levels(contribution) :
                                      Cardinality(TierOf(contribution, j)) > 1}}

\* Without every snapshot only the winner of the main pot is believed.
Unresolved(deal, results, accounting) ==
  LET incomplete == \E s \in Occupied(deal) :
                      s \notin DOMAIN deal.Snapshots \/ s \notin DOMAIN results.Snapshots
      believed == {i \in DOMAIN results.Results :
                     /\ results.Results[i].RewardChip > 0
                     /\ \/ results.Results[i].HandRanking = 1
                        \/ results.Results[i].RankType = "NO_CALL"}
  IN [playerChipAccounting |-> accounting,
      playerSettlements |-> [u \in DealtUserIds(deal) |-> UnknownSettlement],
      winningPlayerIds |-> IF incomplete THEN {results.Results[i].UserId : i \in believed} ELSE {}]

SettlementOf(accounting, contribution) ==
  [u \in DOMAIN accounting |->
     LET back == uncalledReturns(contribution, u)
     IN [contestedAward |-> accounting[u].grossPayout - back, uncalledReturn |-> back]]

\* The settlement that the chips suggest stands if the ranks of the hands agree.
Resolved(deal, results, accounting, settlement, tiers) ==
  LET users == DOMAIN accounting
      winners == UNION {TierWinners(results, tier) : tier \in tiers}
      resolved == /\ \A u \in users : accounting[u] # UnknownResult
                  /\ \A tier \in tiers : EligibleRows(results, tier) # {}
                  /\ \A u \in users : /\ settlement[u].contestedAward >= 0
                                      /\ settlement[u].contestedAward > 0 => u \in winners
                  /\ Sum([u \in users |-> accounting[u].grossPayout]) = GrossPayout(results)
  IN IF ~resolved THEN Unresolved(deal, results, accounting)
     ELSE [playerChipAccounting |-> accounting, playerSettlements |-> settlement,
           winningPlayerIds |-> {u \in users : settlement[u].contestedAward > 0}]

SettlementFrom(deal, results, accounting) ==
  LET contribution == [u \in DOMAIN accounting |-> accounting[u].totalContribution]
  IN Resolved(deal, results, accounting, SettlementOf(accounting, contribution), ContestedTiers(contribution))

deriveHandSettlement(deal, results, battleType, events) ==
  SettlementFrom(deal, results,
                 derivePlayerHandChipAccounting(deal, results, battleType,
                                                deriveMidHandChipInflow(deal, results, events, battleType)))
=============================================================================
