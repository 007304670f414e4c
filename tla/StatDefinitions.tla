--------------------------- MODULE StatDefinitions ---------------------------
(***************************************************************************)
(* The formulas of src/stats/core/*.ts, each of which computes one         *)
(* statistic of a player from all the stored rows, the way the HUD did     *)
(* before the ledger of contributions; the verify-stats tool still runs    *)
(* them (src/tools/verify-stats/pipeline.ts).  The ledger adds up          *)
(* HandStats!deriveCounters hand by hand and must come to the same.        *)
(***************************************************************************)
EXTENDS HandStats, FiniteSetsExt

\* stored: a sequence of stored hands [hand, actions, phases].  The context of
\* a player: the hands seated in, the own actions, the phases taken part in
\* (of two rows of one phase the later), and the hands won, which are looked
\* up among those with a flop or a showdown.
StatContext(stored, u) ==
  LET hands == {h \in DOMAIN stored : u \in Range(stored[h].hand.seatUserIds)}
      latest(h) == SelectSeq([i \in DOMAIN stored[h].phases |->
                     [i |-> i, phase |-> stored[h].phases[i].phase, seatUserIds |-> stored[h].phases[i].seatUserIds]],
                     LAMBDA p : \A j \in p.i + 1 .. Len(stored[h].phases) : stored[h].phases[j].phase # p.phase)
      phases == [h \in hands |-> SelectSeq(latest(h), LAMBDA p : u \in p.seatUserIds)]
  IN [playerId |-> u, hands |-> hands, phases |-> phases,
      actions |-> [h \in hands |-> OfPlayer(stored[h].actions, u)],
      bigBlindUserId |-> [h \in hands |-> stored[h].hand.bigBlindUserId],
      identified |-> {h \in hands : stored[h].hand.id # 0},
      layer |-> [h \in hands |-> classifyTableSizeLayer(stored[h].hand.seatUserIds)],
      winning |-> {h \in hands : /\ u \in stored[h].hand.winningPlayerIds
                                 /\ \E i \in DOMAIN phases[h] : phases[h][i].phase \in {FLOP, SHOWDOWN}}]

\* The number of actions, and the hands with one, that pass a test.
Actions(c, Test(_)) == FoldSet(LAMBDA h, acc : acc + CountOf(c.actions[h], Test), 0, c.hands)
ActionHands(c, Test(_)) == {h \in c.hands : \E i \in DOMAIN c.actions[h] : Test(c.actions[h][i])}
PhaseHands(c, phase) == {h \in c.hands : \E i \in DOMAIN c.phases[h] : c.phases[h][i].phase = phase}
Detail(c, d) == Actions(c, LAMBDA a : d \in a.details)
FlopDetail(c, d) == Actions(c, LAMBDA a : a.phase = FLOP /\ d \in a.details)
Postflop(c, types) == Actions(c, LAMBDA a : a.phase # PREFLOP /\ a.actionType \in types)
OpportunitiesWithWalks(c, hands) == Cardinality(hands)  \* mutant

\* Every hand but those won as the big blind without a decision.
Opportunities(c, hands) ==
  LET acted == ActionHands(c, LAMBDA a : a.phase = PREFLOP)
  IN Cardinality({h \in hands : ~(c.bigBlindUserId[h] = c.playerId /\ h \notin acted)})

handsStat(c) == <<Cardinality(c.hands), 0>>
vpipStat(c) == <<Detail(c, "VPIP"), Opportunities(c, c.hands)>>
pfrStat(c) ==
  <<Cardinality(ActionHands(c, LAMBDA a : a.phase = PREFLOP /\ a.actionType = "RAISE")),
    Opportunities(c, c.hands)>>
cbetStat(c) == <<FlopDetail(c, "CBET"), FlopDetail(c, "CBET_CHANCE")>>
cbetFoldStat(c) == <<Detail(c, "CBET_FOLD"), Detail(c, "CBET_FOLD_CHANCE")>>
threeBetStat(c) == <<Detail(c, "3BET"), Detail(c, "3BET_CHANCE")>>
threeBetFoldStat(c) == <<Detail(c, "3BET_FOLD"), Detail(c, "3BET_FOLD_CHANCE")>>
stealStat(c) == <<Detail(c, "STEAL"), Detail(c, "STEAL_CHANCE")>>
foldToStealStat(c) == <<Detail(c, "FOLD_TO_STEAL"), Detail(c, "FOLD_TO_STEAL_CHANCE")>>
riverCallAccuracyStat(c) == <<Detail(c, "RIVER_CALL_WON"), Detail(c, "RIVER_CALL")>>
afStat(c) == <<Postflop(c, {"BET", "RAISE"}), Postflop(c, {"CALL"})>>
afqStat(c) == <<Postflop(c, {"BET", "RAISE"}), Postflop(c, {"BET", "RAISE", "CALL", "FOLD"})>>

\* Of the hands that saw the flop, or acted on it, those shown down and those won.
\* All but wwsfNoAi count a hand only if its id is truthy.
OfBase(hands, base) == <<Cardinality(hands \cap base), Cardinality(base)>>
wtsdStat(c) == OfBase(PhaseHands(c, SHOWDOWN) \cap c.identified, PhaseHands(c, FLOP))
wwsfStat(c) == OfBase(c.winning \cap c.identified, PhaseHands(c, FLOP))
wtsdNoAiStat(c) ==
  OfBase(PhaseHands(c, SHOWDOWN) \cap c.identified, ActionHands(c, LAMBDA a : a.phase = FLOP))
wwsfNoAiStat(c) == OfBase(c.winning, ActionHands(c, LAMBDA a : a.phase = FLOP))
wsdStat(c) == OfBase(c.winning \cap c.identified, PhaseHands(c, SHOWDOWN))

groupHandsByLayer(c, layer) == {h \in c.hands : c.layer[h] = layer}
computeVpipForHands(c, hands) ==
  <<FoldSet(LAMBDA h, acc : acc + CountOf(c.actions[h], LAMBDA a : "VPIP" \in a.details), 0, hands),
    Opportunities(c, hands)>>

\* All the registered statistics, enabled or not.
runLegacyPipeline(stored, u) ==
  LET c == StatContext(stored, u)
      vpipOf(layer) == computeVpipForHands(c, groupHandsByLayer(c, layer))
  IN [hands |-> handsStat(c), vpip |-> vpipStat(c), pfr |-> pfrStat(c), cbet |-> cbetStat(c),
      cbetFold |-> cbetFoldStat(c), threeBet |-> threeBetStat(c), threeBetFold |-> threeBetFoldStat(c),
      steal |-> stealStat(c), foldToSteal |-> foldToStealStat(c), af |-> afStat(c), afq |-> afqStat(c),
      wtsd |-> wtsdStat(c), wwsf |-> wwsfStat(c), wtsdNoAi |-> wtsdNoAiStat(c),
      wwsfNoAi |-> wwsfNoAiStat(c), wsd |-> wsdStat(c), riverCallAccuracy |-> riverCallAccuracyStat(c),
      vpipF |-> vpipOf("full"), vpipF4p |-> vpipOf("4p"), vpipF3p |-> vpipOf("3p"), vpipFhu |-> vpipOf("hu")]

\* The ledger: the contributions of the hands the player sat in, added up.
runLedgerPipeline(stored, u) ==
  LET mine == {h \in DOMAIN stored : u \in DOMAIN stored[h].contributions}
      counters(h) == stored[h].contributions[u].counters
      sum(id, k) == FoldSet(LAMBDA h, acc : acc + counters(h)[id][k], 0, mine)
  IN [id \in DOMAIN counters(CHOOSE h \in mine : TRUE) |-> <<sum(id, 1), sum(id, 2)>>]
=============================================================================
