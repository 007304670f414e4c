---------------------------- MODULE LedgerWindow ----------------------------
(***************************************************************************)
(* What the statistics ledger keeps of one player and what it answers.  Of *)
(* every battle x table cell it keeps the rows of the newest hands only, as *)
(* many as the largest "latest hands" the popup offers; sums over all the   *)
(* hands are kept in an aggregate with one bucket per battle, table and     *)
(* position.  A read picks buckets, or the newest rows of some indexes.     *)
(*                                                                         *)
(* StatsLedger models the transactions between which all this may be        *)
(* interrupted and leaves the window out; here every write is one step.     *)
(* A counter vector is modelled by how often each hand version is summed in *)
(* it, of which every counter is a linear image.                            *)
(***************************************************************************)
EXTENDS Integers, FiniteSets

CONSTANTS
  HandIds,
  VersionsOf(_),  \* the records of a hand: [handId, time, battle, table, position]
  Known,          \* KNOWN_BATTLE_TYPES
  Tables,         \* ALL_TABLE_SIZE_LAYERS
  Latest,         \* MAX_STATS_LATEST_HANDS
  Unknown,        \* no timestamp, battle type, layer or position
  NotStored,      \* a hand that is not in the canonical tables
  Absent,         \* a hand the player is not seated in
  All             \* a filter that is undefined

Versions == UNION {VersionsOf(h) : h \in HandIds}

ASSUME LedgerAssumption ==
  /\ IsFiniteSet(HandIds) /\ HandIds \subseteq Nat /\ Latest \in Nat \ {0}
  /\ \A h \in HandIds :
       /\ IsFiniteSet(VersionsOf(h)) /\ {NotStored, Absent} \cap VersionsOf(h) = {}
       /\ \A v \in VersionsOf(h) : v.handId = h /\ (v.time # Unknown => v.time \in Nat)
  /\ All \notin Nat \cup Tables /\ \A S \in (SUBSET Tables) \cup SUBSET Known : S # All

VARIABLES
  hands,      \* the canonical version of every hand
  head,       \* is there an active generation?
  rows,       \* statHandContributions of the player
  aggregate   \* statPlayerAggregates of the player

ledger == <<hands, head, rows, aggregate>>

-----------------------------------------------------------------------------
\* Counter vectors.
NoCounters == [v \in Versions |-> 0]
CountersOf(v) == [NoCounters EXCEPT ![v] = 1]
addHandStatCounterVectors(left, right) == [v \in Versions |-> left[v] + right[v]]
subtractHandStatCounterVectors(left, right) == [v \in Versions |-> left[v] - right[v]]
\* The sum of the values of a function.
Total(f) ==
  LET sum[S \in SUBSET DOMAIN f] ==
        IF S = {} THEN 0 ELSE LET x == CHOOSE x \in S : TRUE IN sum[S \ {x}] + f[x]
  IN sum[DOMAIN f]
HandsCounter(counters) == Total(counters)
SumOf(S) == [v \in Versions |-> IF v \in S THEN 1 ELSE 0]

\* Rows.
recordFromContribution(v) ==
  [version |-> v, hasKnownBattle |-> v.battle \in Known, hasTimestamp |-> v.time # Unknown,
   sortTimestamp |-> IF v.time = Unknown THEN 0 ELSE v.time]
Record(h, v) == {recordFromContribution(r) : r \in {v} \cap VersionsOf(h)}
Newer(a, b) ==
  IF a.hasTimestamp # b.hasTimestamp THEN a.hasTimestamp
  ELSE IF a.sortTimestamp # b.sortTimestamp THEN a.sortTimestamp > b.sortTimestamp
  ELSE a.version.handId > b.version.handId
NewestOf(records, limit) == {a \in records : Cardinality({b \in records : Newer(b, a)}) < limit}
latestCellKey(record) == <<record.version.battle, record.version.table>>
trimRecordsToLatestCells(records) ==
  {a \in records : a \in NewestOf({b \in records : latestCellKey(b) = latestCellKey(a)}, Latest)}

\* Aggregates.
NoAggregate == [ready |-> FALSE, totals |-> NoCounters, buckets |-> {}, here |-> FALSE]
createAggregate(ready) == [ready |-> ready, totals |-> NoCounters, buckets |-> {}, here |-> TRUE]
bucketKey(v) == <<v.battle, v.table, v.position>>
BucketOf(buckets, key) ==
  CHOOSE b \in buckets \cup {[key |-> key, handsN |-> 0, counters |-> NoCounters]} :
    b.key = key /\ \A c \in buckets : c.key = key => b = c
applyContributionToAggregate(agg, record, direction) ==
  LET v == record.version
      old == BucketOf(agg.buckets, bucketKey(v))
      Move(counters) == IF direction = 1 THEN addHandStatCounterVectors(counters, CountersOf(v))
                        ELSE subtractHandStatCounterVectors(counters, CountersOf(v))
      new == [key |-> old.key, handsN |-> old.handsN + direction, counters |-> Move(old.counters)]
      kept == IF direction = -1 /\ (old \notin agg.buckets \/ new.handsN = 0) THEN {} ELSE {new}
  IN [ready |-> agg.ready, totals |-> Move(agg.totals),
      buckets |-> (agg.buckets \ {old}) \cup kept, here |-> agg.here]
Applied(agg, records, direction) ==
  LET after[S \in SUBSET records] ==
        IF S = {} THEN agg
        ELSE LET r == CHOOSE r \in S : TRUE
             IN applyContributionToAggregate(after[S \ {r}], r, direction)
  IN after[records]

Stored == {h \in HandIds : hands[h] # NotStored}
Seated == {hands[h] : h \in HandIds} \cap Versions
Contributions == {recordFromContribution(v) : v \in Seated}

InitLedger ==
  /\ hands \in [HandIds -> {NotStored}]
  /\ head = FALSE
  /\ rows = {}
  /\ aggregate = NoAggregate

-----------------------------------------------------------------------------
\* replaceHandsInGeneration: a row that goes, or moves in the window, may have kept
\* an older hand out of it, and only the hands themselves can tell which.
invalidatesNever(old, new) == FALSE  \* mutant
invalidatesWindow(old, new) ==
  \E o \in old :
    \A r \in new : \/ latestCellKey(r) # latestCellKey(o)
                   \/ r.hasTimestamp # o.hasTimestamp
                   \/ r.sortTimestamp # o.sortTimestamp
TrimCell(records, new) ==
  {a \in records : \A r \in new : latestCellKey(a) = latestCellKey(r) =>
     a \in NewestOf({b \in records : latestCellKey(b) = latestCellKey(r)}, Latest)}

\* A hand is committed live, for the first time or again in another version.
replaceCompletedHandContributions(h, v) ==
  LET old == {r \in rows : r.version.handId = h}
      new == Record(h, v)
      previous == IF hands[h] = NotStored THEN old ELSE Record(h, hands[h])
      initializesCompleteFreshHead == ~head /\ Stored \subseteq {h}
      replaced == Applied(Applied(aggregate, previous, -1), new, 1)
      started == Applied(createAggregate(initializesCompleteFreshHead /\ ~aggregate.here), new, 1)
  IN /\ hands' = [hands EXCEPT ![h] = v]
     /\ head' = TRUE
     /\ rows' = TrimCell((rows \ old) \cup new, new)
     /\ aggregate' = IF previous \cup new = {} THEN aggregate
                     ELSE IF ~invalidatesWindow(old, new) /\ aggregate.here THEN replaced
                     ELSE started
CommitHand == \E h \in HandIds : \E v \in VersionsOf(h) \cup {Absent} :
                replaceCompletedHandContributions(h, v)

\* The first read of a player who has no ready aggregate builds it from the hands.
BaselineRows == trimRecordsToLatestCells(Contributions)
Baseline == Applied(createAggregate(TRUE), Contributions, 1)
ensurePlayerBaseline ==
  /\ ~head \/ ~aggregate.ready
  /\ head' = TRUE /\ rows' = BaselineRows /\ aggregate' = Baseline
  /\ UNCHANGED hands

\* A rebuild publishes an empty generation for everybody; the deletion of all data
\* ends with a reload of the extension.
activateEmptyGenerationAfterCanonicalRebuild ==
  /\ Stored # {}
  /\ head' = TRUE /\ rows' = {} /\ aggregate' = NoAggregate
  /\ UNCHANGED hands
DeleteAllData ==
  /\ Stored # {}
  /\ hands' = [h \in HandIds |-> NotStored]
  /\ head' = FALSE /\ rows' = {} /\ aggregate' = NoAggregate

NextLedger ==
  \/ CommitHand
  \/ ensurePlayerBaseline
  \/ activateEmptyGenerationAfterCanonicalRebuild
  \/ DeleteAllData

-----------------------------------------------------------------------------
\* A read with filters [battleTypes, tableSizeLayers, latestHands].
\* A limit counts if it is positive.
normalizeStatsLatestHands(limit) ==
  IF limit \in {0, All} THEN All ELSE IF limit > Latest THEN Latest ELSE limit
normalizedFilters(filters) == [filters EXCEPT !.latestHands = normalizeStatsLatestHands(@)]
selectsEveryKnownBattleType(battles) == battles = Known
\* The prefixes of the index each query walks, from the newest row backwards.
IndexQueries(filters) ==
  LET battles == filters.battleTypes
      layers == filters.tableSizeLayers
      tablesOf(t) == IF t = All THEN {All} ELSE t
  IN IF battles = All THEN {[battle |-> All, table |-> t] : t \in tablesOf(layers)}
     ELSE IF selectsEveryKnownBattleType(battles)
     THEN {[battle |-> Known, table |-> t] : t \in tablesOf(layers)}
     ELSE {[battle |-> {b}, table |-> t] : b \in battles, t \in tablesOf(layers)}
Walked(kept, query) ==
  {r \in kept : /\ \/ query.battle = All
                   \/ query.battle = Known /\ r.hasKnownBattle
                   \/ query.battle # Known /\ r.version.battle \in query.battle
                /\ query.table \in {All, r.version.table}}
readLatestRows(kept, filters, limit) ==
  NewestOf(UNION {NewestOf(Walked(kept, q), limit) : q \in IndexQueries(filters)}, limit)

SelectedBuckets(agg, filters) ==
  {b \in agg.buckets : /\ filters.battleTypes = All \/ b.key[1] \in filters.battleTypes
                       /\ filters.tableSizeLayers = All \/ b.key[2] \in filters.tableSizeLayers}
HandsOfBuckets(buckets) == Total([b \in buckets |-> b.handsN])
CountersOfBuckets(buckets) == [v \in Versions |-> Total([b \in buckets |-> b.counters[v]])]
positionsFromContributionRows(records) ==
  {[position |-> p, handsN |-> Cardinality({r \in records : r.version.position = p}),
    counters |-> SumOf({r.version : r \in {s \in records : s.version.position = p}})] :
     p \in {r.version.position : r \in records}}
positionsFromAggregateBuckets(buckets) ==
  {LET mine == {b \in buckets : b.key[3] = p}
   IN [position |-> p, handsN |-> HandsOfBuckets(mine),
       counters |-> CountersOfBuckets(mine)] :
     p \in {b.key[3] : b \in buckets}}

readPlayerAtHead(agg, kept, filters) ==
  LET totalHands == HandsCounter(agg.totals)
      unfiltered == filters.battleTypes = All /\ filters.tableSizeLayers = All
      buckets == SelectedBuckets(agg, filters)
      matched == IF unfiltered THEN totalHands ELSE HandsOfBuckets(buckets)
      records == readLatestRows(kept, filters, filters.latestHands)
      newest == filters.latestHands # All
  IN [totalHands |-> totalHands, matchedHandsBeforeLimit |-> matched,
      counters |-> IF newest THEN SumOf({r.version : r \in records})
                   ELSE IF unfiltered THEN agg.totals ELSE CountersOfBuckets(buckets),
      positions |-> IF newest THEN positionsFromContributionRows(records)
                    ELSE positionsFromAggregateBuckets(buckets)]

\* A player who is not ready is read again after his baseline is built.
readLineupSnapshots(filters) ==
  IF head /\ aggregate.ready THEN readPlayerAtHead(aggregate, rows, normalizedFilters(filters))
  ELSE readPlayerAtHead(Baseline, BaselineRows, normalizedFilters(filters))
=============================================================================
