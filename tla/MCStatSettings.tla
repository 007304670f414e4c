--------------------------- MODULE MCStatSettings ---------------------------
EXTENDS StatSettings

MCVersion(h, t, b, l, p) == [handId |-> h, time |-> t, battle |-> b, table |-> l, position |-> p]
MCVersionsOf(h) ==
  CASE h = 1 -> {MCVersion(1, 10, "sng", "hu", "SB"), MCVersion(1, 30, "sng", "hu", "SB")}
    [] h = 2 -> {MCVersion(2, 20, "sng", "hu", "SB"), MCVersion(2, 20, "sng", "hu", "BB"),
                 MCVersion(2, 20, "ring", "hu", "BB")}
    [] h = 3 -> {MCVersion(3, 30, "sng", "hu", "BB"), MCVersion(3, 30, "sng", "full", "BB"),
                 MCVersion(3, Unknown, Unknown, "hu", Unknown)}
MCLayers == <<"hu", "3p", "full">>
MCBattlesOf == [sng |-> {"sng"}, ring |-> {"ring"}]
MCStats == [vpip |-> TRUE, fold |-> TRUE]
MCOptions(games, layers, limit, configs) ==
  [gameTypes |-> games, tableSize |-> layers, handLimit |-> limit, configs |-> configs]
\* A limit above the largest one, a gap between layers, a statistic that is missing.
MCOldOptions == {MCOptions({"sng", "ring"}, {"hu", "full"}, 3, [vpip |-> FALSE]),
                 MCOptions({"sng"}, {"hu"}, 1, MCStats)}

\* No step of the ledger reads or writes the settings, nor the other way round: every
\* pair of their states that can meet also meets when the settings move first.  Of
\* settings that have come to rest only what the property reads is kept.
MCLedgerRests == hands = [h \in HandIds |-> NotStored] /\ ~head /\ aggregate = NoAggregate
MCNext ==
  \/ MCLedgerRests /\ NextSettings /\ UNCHANGED ledger
  \/ Settled /\ popup.pc = "closed" /\ NextLedger /\ UNCHANGED settings
MCSpec == Init /\ [][MCNext]_vars
MCView == IF MCLedgerRests THEN vars ELSE <<ledger, stored, using>>
=============================================================================
