------------------------- MODULE StatsLedgerProofs -------------------------
(***************************************************************************)
(* Theorems about StatsLedger for every set of results, hands, players and  *)
(* baseline batches and every bound.                                        *)
(***************************************************************************)
EXTENDS StatsLedger, FiniteSetTheorems, TLAPS

USE DataAssumption, BoundsAssumption
USE DEF durable, markers, ledger, live, rebuilds, history

-----------------------------------------------------------------------------
\* The catch block has a hand to mark.
FailingHasHead == failing => pipeline # <<>>

\* A canonical row is a version of its own hand.
CanonicalOfItsHand == \A h \in Hands : canon[h] \in Results => HandOf[canon[h]] = h

\* Whatever is staged, or half replaced, is under the dirty marker of an existing head.
MarkersGuardRebuild ==
  /\ Present(staging) \/ hybrid => Present(dirty) /\ head # NoGen
  /\ Present(staging) => staging.gen # NoGen

\* A fence the scheduler asked to recover is among those the rebuild will clear.
ExplicitFencesListed == rb.pc \in {"snapshot", "replay"} => rb.explicit \subseteq rb.fences

AbsentNotReady == \A g \in Gens, p \in Players : agg[g][p].ready => agg[g][p].here

\* A batch works for players that exist, at a generation that exists, from a revision
\* that has been.
BatchUnderway(b) ==
  bld[b].pc # "idle" =>
    /\ bld[b].gen \in Gens
    /\ bld[b].todo # {}
    /\ bld[b].rev <= revision
    /\ bld[b].pc = "inspect" => bld[b].got = {}
    /\ head # NoGen

\* While the canonical revision stands, what a batch scanned is what there is.
ScanCurrent(b) ==
  bld[b].pc \in {"scan", "delete", "write"} /\ bld[b].rev = revision =>
    /\ "hands" \in bld[b].got => bld[b].hands = canon
    /\ "children" \in bld[b].got => bld[b].children = canon
ScanComplete(b) == bld[b].pc \in {"delete", "write"} => bld[b].got = {"hands", "children"}

\* While a batch still holds its player, the player's rows are those written so far.
Holds(b) ==
  /\ head = bld[b].gen
  /\ revision = bld[b].rev
  /\ agg[bld[b].gen][Target(b)].here
  /\ ~agg[bld[b].gen][Target(b)].ready
  /\ agg[bld[b].gen][Target(b)].build = b
RowsWritten(b) ==
  bld[b].pc = "write" /\ Holds(b) =>
    /\ bld[b].todoRows \subseteq Scanned(b)
    /\ rows[bld[b].gen][Target(b)] = Scanned(b) \ bld[b].todoRows

Structure ==
  FailingHasHead /\ CanonicalOfItsHand /\ MarkersGuardRebuild /\ ExplicitFencesListed
    /\ AbsentNotReady
BatchSound(b) == BatchUnderway(b) /\ ScanCurrent(b) /\ ScanComplete(b) /\ RowsWritten(b)
Baselines == \A b \in Builders : BatchSound(b)

IInv == TypeOK /\ Structure /\ Baselines /\ LedgerMatchesCanonical /\ PendingFenceHasOwner

-----------------------------------------------------------------------------
LEMMA LastType ==
  ASSUME NEW R \in SUBSET Results, R # {}
  PROVE  Last(R) \in R /\ \A s \in R : s <= Last(R)
BY ResultsAssumption DEF Last

LEMMA ReplayType ==
  ASSUME NEW R \in SUBSET Results
  PROVE  /\ Replay(R) \in Canonical
         /\ \A h \in Hands : Replay(R)[h] \in Results => HandOf[Replay(R)[h]] = h
<1> SUFFICES ASSUME NEW h \in Hands
             PROVE  /\ Replay(R)[h] \in Results \cup {NoHand}
                    /\ Replay(R)[h] \in Results => HandOf[Replay(R)[h]] = h
  BY DEF Replay, Canonical
<1> DEFINE versions == {r \in R \ refuted : HandOf[r] = h}
<1>1. CASE versions = {}
  BY <1>1 DEF Replay
<1>2. CASE versions # {}
  <2>1. Last(versions) \in versions
    BY <1>2, LastType, versions \in SUBSET Results
  <2> QED BY <1>2, <2>1 DEF Replay
<1> QED BY <1>1, <1>2

LEMMA NoBaselineType == NoBaseline \in BaselineRecord
BY DEF NoBaseline, BaselineRecord, Canonical

LEMMA NoRebuildType == NoRebuild \in RebuildRecord
BY DEF NoRebuild, RebuildRecord

LEMMA NoAggregateType ==
  /\ NoAggregate \in AggregateRecord
  /\ \A S : \A ready \in BOOLEAN, build \in Builders \cup {NoBuild} :
       Aggregate(ready, build, TotalsOf(S)) \in AggregateRecord
BY DEF NoAggregate, Aggregate, AggregateRecord, Zero, TotalsOf

LEMMA InitType == Init => TypeOK
<1> SUFFICES ASSUME Init PROVE TypeOK
  OBVIOUS
<1>1. canon \in Canonical
  BY ReplayType DEF Init
<1>2. agg \in [Gens -> [Players -> AggregateRecord]]
  BY NoAggregateType DEF Init
<1>3. rb \in RebuildRecord
  BY NoRebuildType DEF Init
<1>4. bld \in [Builders -> BaselineRecord]
  BY NoBaselineType DEF Init
<1>5. NoMarker \in Marker /\ 0 \in 0..MaxRevision /\ <<>> \in Seq(Results)
  BY DEF NoMarker, Marker
<1>6. rows \in [Gens -> [Players -> SUBSET Keys]]
  BY DEF Init
<1> QED BY <1>1, <1>2, <1>3, <1>4, <1>5, <1>6 DEF Init, TypeOK

-----------------------------------------------------------------------------
LEMMA ReplacedAggregateType ==
  ASSUME TypeOK, NEW g \in Gens, NEW h \in Hands, NEW p \in Players,
         NEW prev \in Results \cup {NoHand}, NEW r \in Results, NEW fresh \in BOOLEAN
  PROVE  ReplacedAggregate(g, h, p, prev, r, fresh) \in AggregateRecord
<1> DEFINE old == OldContributions(g, h, p, prev)
           a == agg[g][p]
           moved == Moved(a.totals, old, NewRow(r, p))
<1>1. a \in AggregateRecord
  BY DEF TypeOK
<1>2. moved \in [Keys -> Int]
  BY <1>1 DEF Moved, TotalsOf, AggregateRecord
<1>3. [a EXCEPT !.totals = moved] \in AggregateRecord
  BY <1>1, <1>2 DEF AggregateRecord
<1>4. Aggregate(fresh /\ ~a.here, NoBuild, TotalsOf(NewRow(r, p))) \in AggregateRecord
  BY <1>1, NoAggregateType, (fresh /\ ~a.here) \in BOOLEAN
<1> QED BY <1>1, <1>3, <1>4 DEF ReplacedAggregate

LEMMA CommitHandType == TypeOK /\ CommitHand => TypeOK'
<1> SUFFICES ASSUME TypeOK, CommitHand PROVE TypeOK'
  OBVIOUS
<1> DEFINE r == Head(pipeline)
           h == HandOf[r]
           fresh == head = NoGen /\ \A k \in Hands : canon[k] # NoHand => k = h
<1>1. r \in Results /\ h \in Hands /\ Tail(pipeline) \in Seq(Results)
  BY DEF TypeOK, CommitHand, Writing
<1>2. canon[h] \in Results \cup {NoHand}
  BY <1>1 DEF TypeOK, Canonical
<1>3. PICK g \in Gens :
        /\ head' = g
        /\ rows' = [rows EXCEPT ![g] =
                      [p \in Players |-> (@[p] \ OldRows(g, h, p)) \cup NewRow(r, p)]]
        /\ agg' = [agg EXCEPT ![g] =
                     [p \in Players |-> ReplacedAggregate(g, h, p, canon[h], r, fresh)]]
  BY DEF CommitHand
<1>4. agg' \in [Gens -> [Players -> AggregateRecord]]
  BY <1>1, <1>2, <1>3, ReplacedAggregateType, fresh \in BOOLEAN DEF TypeOK
<1>5. \A p \in Players : NewRow(r, p) \subseteq Keys
  BY <1>1 DEF NewRow, Keys
<1>6. rows' \in [Gens -> [Players -> SUBSET Keys]]
  BY <1>3, <1>5 DEF TypeOK
<1>7. revision' \in 0..MaxRevision /\ canon' \in Canonical
  BY <1>1 DEF TypeOK, CommitHand, BumpCanonicalRevision, Canonical
<1>8. fence' \in [Results -> {"none", "pending", "interrupted"}]
  BY <1>1 DEF TypeOK, CommitHand
<1> QED BY <1>1, <1>3, <1>4, <1>6, <1>7, <1>8 DEF TypeOK, CommitHand

LEMMA LiveType == TypeOK /\ FailingHasHead /\ LiveNext => TypeOK'
<1> SUFFICES ASSUME TypeOK, FailingHasHead, LiveNext PROVE TypeOK'
  OBVIOUS
<1>1. ASSUME NEW r \in Results, IngestResult(r) PROVE TypeOK'
  BY <1>1 DEF TypeOK, IngestResult
<1>2. CASE RejectHand
  BY <1>2 DEF TypeOK, RejectHand, Writing
<1>3. CASE FailHand
  BY <1>3 DEF TypeOK, FailHand, Writing
<1>4. CASE MarkFailed
  <2>1. pipeline # <<>>
    BY <1>4 DEF FailingHasHead, MarkFailed
  <2>4. Head(pipeline) \in Results /\ Tail(pipeline) \in Seq(Results)
    BY <2>1 DEF TypeOK
  <2>2. dirty' \in Marker
    BY <1>4 DEF TypeOK, MarkFailed, markCanonicalRebuildRequired, Marker
  <2>3. fence' \in [Results -> {"none", "pending", "interrupted"}]
    BY <1>4, <2>4 DEF TypeOK, MarkFailed
  <2> QED BY <1>4, <2>2, <2>3, <2>4 DEF TypeOK, MarkFailed, LeavePipeline
<1>5. CASE MarkFailedLost
  <2>1. pipeline # <<>>
    BY <1>5 DEF FailingHasHead, MarkFailedLost
  <2>2. Head(pipeline) \in Results /\ Tail(pipeline) \in Seq(Results)
    BY <2>1 DEF TypeOK
  <2> QED BY <1>5, <2>2 DEF TypeOK, MarkFailedLost, LeavePipeline
<1> QED BY <1>1, <1>2, <1>3, <1>4, <1>5, CommitHandType DEF LiveNext

LEMMA OperationType == TypeOK /\ OperationNext => TypeOK'
<1> SUFFICES ASSUME TypeOK, OperationNext PROVE TypeOK'
  OBVIOUS
<1>1. ASSUME NEW o \in {"download", "import"}, StartMerge(o) PROVE TypeOK'
  BY <1>1 DEF TypeOK, StartMerge, Claim
<1>2. MarkDirtyIfClean => dirty' \in Marker
  BY DEF TypeOK, MarkDirtyIfClean, Marker
<1>3. ASSUME NEW r \in Results, MergeResult(r) PROVE TypeOK'
  BY <1>2, <1>3 DEF TypeOK, MergeResult
<1>4. ASSUME NEW r \in Results, MergeRefutation(r) PROVE TypeOK'
  BY <1>2, <1>4 DEF TypeOK, MergeRefutation
<1>5. ASSUME NEW explicit \in SUBSET Results, BeginChunked(explicit)
      PROVE  rb' \in RebuildRecord /\ op' = "chunked"
  BY <1>5, NoRebuildType DEF BeginChunked, RebuildRecord
<1>6. CASE FinishDownload
  BY <1>5, <1>6 DEF TypeOK, FinishDownload
<1>7. CASE FinishImport
  BY <1>7 DEF TypeOK, FinishImport
<1>8. CASE AbortImport
  BY <1>8 DEF TypeOK, AbortImport
<1>9. CASE StartManualRebuild
  BY <1>9 DEF TypeOK, StartManualRebuild, Claim
<1>10. CASE StartRecovery
  BY <1>5, <1>10 DEF TypeOK, StartRecovery
<1> QED BY <1>1, <1>3, <1>4, <1>6, <1>7, <1>8, <1>9, <1>10 DEF OperationNext

LEMMA ReadChunkType == TypeOK /\ ReadChunk => TypeOK'
<1> SUFFICES ASSUME TypeOK, ReadChunk PROVE TypeOK'
  OBVIOUS
<1> DEFINE above == {r \in lake : r > rb.cursor}
           chunk == {r \in above : Cardinality({s \in above : s <= r}) <= ChunkSize}
           kept == chunk \ refuted
           cursor == IF chunk = {} THEN rb.cursor ELSE Last(chunk)
           end == Cardinality(chunk) < ChunkSize
<1>1. chunk \subseteq Results /\ kept \subseteq Results
  BY DEF TypeOK
<1>2. chunk # {} => Last(chunk) \in Results
  BY <1>1, LastType
<1>3. cursor \in Nat
  BY <1>2, ResultsAssumption DEF TypeOK, RebuildRecord
<1>4. {HandOf[r] : r \in kept} \subseteq Hands
  BY <1>1
<1>5. rb' = [rb EXCEPT !.batch = kept, !.done = @ \cup {HandOf[r] : r \in kept},
                       !.cursor = cursor, !.end = end]
  BY DEF ReadChunk
<1>6. end \in BOOLEAN
  OBVIOUS
<1> HIDE DEF kept, cursor, end
<1>7. rb' \in RebuildRecord
  BY <1>1, <1>3, <1>4, <1>5, <1>6 DEF TypeOK, RebuildRecord
<1>8. rejected' \subseteq Results
  BY DEF TypeOK, ReadChunk
<1> QED BY <1>7, <1>8 DEF TypeOK, ReadChunk

LEMMA RebuildType == TypeOK /\ RebuildNext => TypeOK'
<1> SUFFICES ASSUME TypeOK, RebuildNext PROVE TypeOK'
  OBVIOUS
<1>1. CASE PrepareStagingGeneration
  <2>1. PICK active \in Gens, g \in Gens :
          /\ head' = active
          /\ staging' = [gen |-> g, owner |-> "current"]
          /\ dirty' = [gen |-> g, owner |-> "current"]
          /\ rb' = [rb EXCEPT !.pc = "list", !.gen = g]
    BY <1>1 DEF PrepareStagingGeneration
  <2>2. staging' \in Marker /\ dirty' \in Marker
    BY <2>1 DEF Marker
  <2>3. rb' \in RebuildRecord
    BY <2>1 DEF TypeOK, RebuildRecord
  <2> QED BY <1>1, <2>1, <2>2, <2>3 DEF TypeOK, PrepareStagingGeneration
<1>2. CASE ListFences
  BY <1>2 DEF TypeOK, ListFences, InterruptedFences, RebuildRecord
<1>3. CASE SnapshotHands
  BY <1>3 DEF TypeOK, SnapshotHands, RebuildRecord
<1>4. CASE SaveRebuilt
  <2>1. PICK r \in rb.batch :
          /\ canon' = [canon EXCEPT ![HandOf[r]] = r]
          /\ rb' = [rb EXCEPT !.batch = @ \ {r}]
    BY <1>4 DEF SaveRebuilt
  <2>2. r \in Results
    BY DEF TypeOK, RebuildRecord
  <2>3. canon' \in Canonical
    BY <2>1, <2>2 DEF TypeOK, Canonical
  <2>4. rb' \in RebuildRecord
    BY <2>1 DEF TypeOK, RebuildRecord
  <2> QED BY <1>4, <2>3, <2>4 DEF TypeOK, SaveRebuilt, BumpCanonicalRevision
<1>5. Release => op' = "idle" /\ rb' \in RebuildRecord /\ snap' \subseteq Results
  BY NoRebuildType DEF Release
<1>6. NoMarker \in Marker
  BY DEF NoMarker, Marker
<1>7. CASE ActivateStagingGeneration
  <2>1. canon' \in Canonical /\ revision' \in 0..MaxRevision
    BY <1>7 DEF TypeOK, ActivateStagingGeneration, Canonical, BumpCanonicalRevision
  <2>2. fence' \in [Results -> {"none", "pending", "interrupted"}]
    BY <1>7 DEF TypeOK, ActivateStagingGeneration, ClearFences
  <2>3. head' \in Gens \cup {NoGen}
    BY <1>7 DEF TypeOK, ActivateStagingGeneration, RebuildRecord
  <2> QED BY <1>5, <1>6, <1>7, <2>1, <2>2, <2>3 DEF TypeOK, ActivateStagingGeneration
<1>8. CASE FailChunkedRebuild
  BY <1>5, <1>6, <1>8 DEF TypeOK, FailChunkedRebuild
<1>9. CASE SnapshotLake
  BY <1>9 DEF TypeOK, SnapshotLake
<1>10. CASE CommitFullRebuild
  <2>1. FullRebuildRows \in SUBSET Results
    BY DEF TypeOK, FullRebuildRows
  <2>2. canon' \in Canonical
    BY <1>10, <2>1, ReplayType DEF CommitFullRebuild
  <2>3. rejected' \subseteq Results /\ revision' \in 0..MaxRevision
    BY <1>10, <2>1 DEF TypeOK, CommitFullRebuild, BumpCanonicalRevision
  <2> QED BY <1>5, <1>6, <1>10, <2>2, <2>3 DEF TypeOK, CommitFullRebuild
<1>11. CASE FailFullRebuild
  BY <1>5, <1>11 DEF TypeOK, FailFullRebuild
<1> QED BY <1>1, <1>2, <1>3, <1>4, <1>7, <1>8, <1>9, <1>10, <1>11, ReadChunkType
        DEF RebuildNext

LEMMA RowsTableType ==
  ASSUME TypeOK, NEW g, NEW p, NEW S, g \in Gens /\ p \in Players => S \subseteq Keys,
         rows' = [rows EXCEPT ![g][p] = S]
  PROVE  rows' \in [Gens -> [Players -> SUBSET Keys]]
<1>1. CASE g \in Gens
  <2> DEFINE row == [rows[g] EXCEPT ![p] = S]
  <2>1. row \in [Players -> SUBSET Keys]
    <3>1. rows[g] \in [Players -> SUBSET Keys]
      BY <1>1 DEF TypeOK
    <3>2. p \in Players => S \in SUBSET Keys
      BY <1>1
    <3> QED BY <3>1, <3>2
  <2>2. rows' = [rows EXCEPT ![g] = row]
    OBVIOUS
  <2> HIDE DEF row
  <2> QED BY <2>1, <2>2 DEF TypeOK
<1>2. CASE g \notin Gens
  BY <1>2 DEF TypeOK
<1> QED BY <1>1, <1>2

LEMMA AggregateTableType ==
  ASSUME TypeOK, NEW g, NEW p, NEW a \in AggregateRecord, agg' = [agg EXCEPT ![g][p] = a]
  PROVE  agg' \in [Gens -> [Players -> AggregateRecord]]
BY DEF TypeOK

LEMMA BaselineType ==
  ASSUME TypeOK, NEW b \in Builders, BaselineNext(b)
  PROVE  TypeOK'
<1>1. bld[b] \in BaselineRecord
  BY DEF TypeOK
<1>2. ASSUME NEW ps \in SUBSET Players, NEW force \in BOOLEAN, StartBaseline(b, ps, force)
      PROVE  TypeOK'
  <2>1. PICK g \in Gens :
          /\ head' = g
          /\ bld' = [bld EXCEPT ![b] = [NoBaseline EXCEPT !.pc = "inspect", !.todo = ps,
                                                          !.force = force, !.gen = g]]
    BY <1>2 DEF StartBaseline
  <2>2. bld' \in [Builders -> BaselineRecord]
    BY <2>1, NoBaselineType DEF TypeOK, BaselineRecord
  <2> QED BY <1>2, <2>1, <2>2 DEF TypeOK, StartBaseline
<1>3. CASE InspectBaseline(b)
  <2> DEFINE required == {p \in bld[b].todo : bld[b].force \/ ~agg[bld[b].gen][p].ready}
  <2>1. required \in SUBSET Players
    BY <1>1 DEF BaselineRecord
  <2>2. PICK next \in {NoBaseline, [bld[b] EXCEPT !.pc = "scan", !.todo = required,
                                                    !.rev = revision]} :
          bld' = [bld EXCEPT ![b] = next]
    BY <1>3 DEF InspectBaseline
  <2> HIDE DEF required
  <2>3. next \in BaselineRecord
    BY <1>1, <2>1, NoBaselineType DEF TypeOK, BaselineRecord
  <2>4. bld' \in [Builders -> BaselineRecord]
    BY <2>2, <2>3 DEF TypeOK
  <2> QED BY <1>3, <2>4 DEF TypeOK, InspectBaseline
<1>4. CASE ScanHands(b)
  <2>1. bld' \in [Builders -> BaselineRecord]
    BY <1>1, <1>4 DEF TypeOK, ScanHands, BaselineRecord
  <2> QED BY <1>4, <2>1 DEF TypeOK, ScanHands
<1>5. CASE ScanChildren(b)
  <2>1. bld' \in [Builders -> BaselineRecord]
    BY <1>1, <1>5 DEF TypeOK, ScanChildren, BaselineRecord
  <2> QED BY <1>5, <2>1 DEF TypeOK, ScanChildren
<1>6. Finish(b) \in BaselineRecord
  BY <1>1, NoBaselineType DEF Finish, BaselineRecord
<1>7. Zero = TotalsOf({})
  BY DEF Zero, TotalsOf
<1>9. CASE InitializeBaseline(b)
  <2>4. [bld[b] EXCEPT !.pc = "delete"] \in BaselineRecord
    BY <1>1 DEF BaselineRecord
  <2>1. bld' \in [Builders -> BaselineRecord]
    BY <1>6, <1>9, <2>4 DEF TypeOK, InitializeBaseline
  <2>2. Aggregate(FALSE, b, Zero) \in AggregateRecord
    BY <1>7, NoAggregateType
  <2>3. agg' \in [Gens -> [Players -> AggregateRecord]]
    BY <1>9, <2>2, AggregateTableType DEF TypeOK, InitializeBaseline
  <2> QED BY <1>9, <2>1, <2>3 DEF TypeOK, InitializeBaseline
<1>10. CASE DeleteBaselineRows(b)
  <2> DEFINE t == rows[bld[b].gen][Target(b)]
  <2>1. PICK k \in t : rows' = [rows EXCEPT ![bld[b].gen][Target(b)] = t \ {k}]
    BY <1>10 DEF DeleteBaselineRows
  <2>2. bld[b].gen \in Gens /\ Target(b) \in Players => t \ {k} \subseteq Keys
    BY DEF TypeOK
  <2>3. rows' \in [Gens -> [Players -> SUBSET Keys]]
    BY <2>1, <2>2, RowsTableType
  <2> QED BY <1>10, <2>3 DEF TypeOK, DeleteBaselineRows
<1>11. Scanned(b) \subseteq Keys
  BY DEF Scanned, Derived, Keys
<1>12. CASE BeginBaselineWrites(b)
  <2>1. bld' \in [Builders -> BaselineRecord]
    BY <1>1, <1>11, <1>12 DEF TypeOK, BeginBaselineWrites, BaselineRecord
  <2> QED BY <1>12, <2>1 DEF TypeOK, BeginBaselineWrites
<1>13. CASE WriteBaselineRows(b)
  <2> DEFINE t == rows[bld[b].gen][Target(b)]
  <2>1. PICK k \in bld[b].todoRows :
          /\ rows' = [rows EXCEPT ![bld[b].gen][Target(b)] = t \cup {k}]
          /\ bld' = [bld EXCEPT ![b].todoRows = @ \ {k}]
    BY <1>13 DEF WriteBaselineRows
  <2>2. bld[b].gen \in Gens /\ Target(b) \in Players => t \cup {k} \subseteq Keys
    BY <1>1 DEF TypeOK, BaselineRecord
  <2>3. rows' \in [Gens -> [Players -> SUBSET Keys]]
    BY <2>1, <2>2, RowsTableType
  <2>4. bld' \in [Builders -> BaselineRecord]
    BY <1>1, <2>1 DEF TypeOK, BaselineRecord
  <2> QED BY <1>13, <2>3, <2>4 DEF TypeOK, WriteBaselineRows
<1>14. CASE PublishBaseline(b)
  <2>1. bld' \in [Builders -> BaselineRecord]
    BY <1>6, <1>14 DEF TypeOK, PublishBaseline
  <2>2. Aggregate(TRUE, NoBuild, TotalsOf(Scanned(b))) \in AggregateRecord
    BY NoAggregateType
  <2>3. agg' \in [Gens -> [Players -> AggregateRecord]]
    BY <1>14, <2>2, AggregateTableType DEF PublishBaseline
  <2> QED BY <1>14, <2>1, <2>3 DEF TypeOK, PublishBaseline
<1>15. CASE SupersedeBaseline(b)
  BY <1>15, NoBaselineType DEF TypeOK, SupersedeBaseline
<1> QED BY <1>2, <1>3, <1>4, <1>5, <1>9, <1>10, <1>12, <1>13, <1>14, <1>15
        DEF BaselineNext

LEMMA MaintenanceType ==
  ASSUME TypeOK,
         \/ \E g \in Gens, p \in Players : CollectGeneration(g, p)
         \/ Restart
         \/ DeleteAllData
         \/ UNCHANGED vars
  PROVE  TypeOK'
<1>1. ASSUME NEW g \in Gens, NEW p \in Players, CollectGeneration(g, p) PROVE TypeOK'
  <2>1. \/ rows' = [rows EXCEPT ![g][p] = {}] /\ agg' = agg
        \/ agg' = [agg EXCEPT ![g][p] = NoAggregate] /\ rows' = rows
    BY <1>1 DEF CollectGeneration
  <2>2. /\ rows' \in [Gens -> [Players -> SUBSET Keys]]
        /\ agg' \in [Gens -> [Players -> AggregateRecord]]
    BY <2>1, NoAggregateType, RowsTableType, AggregateTableType DEF TypeOK
  <2> QED BY <1>1, <2>1, <2>2 DEF TypeOK, CollectGeneration
<1>2. ForgetMemory =>
        /\ pipeline' \in Seq(Results) /\ failing' \in BOOLEAN /\ forced' \subseteq Results
        /\ op' = "idle" /\ rb' \in RebuildRecord /\ snap' \subseteq Results
        /\ bld' \in [Builders -> BaselineRecord]
  BY NoBaselineType, NoRebuildType, <<>> \in Seq(Results) DEF ForgetMemory, Release
<1>3. CASE Restart
  <2>1. \A m \in Marker : Disown(m) \in Marker
    BY DEF Marker, Disown
  <2> QED BY <1>2, <1>3, <2>1 DEF TypeOK, Restart
<1>4. CASE DeleteAllData
  <2>1. NoMarker \in Marker /\ 0 \in 0..MaxRevision
    BY DEF NoMarker, Marker
  <2>2. agg' \in [Gens -> [Players -> AggregateRecord]]
    BY <1>4, NoAggregateType DEF DeleteAllData
  <2>3. rows' \in [Gens -> [Players -> SUBSET Keys]] /\ canon' \in Canonical
    BY <1>4 DEF DeleteAllData, Canonical
  <2> QED BY <1>2, <1>4, <2>1, <2>2, <2>3 DEF TypeOK, DeleteAllData
<1>5. CASE UNCHANGED vars
  BY <1>5 DEF TypeOK, vars
<1> QED BY <1>1, <1>3, <1>4, <1>5

LEMMA NextType == TypeOK /\ FailingHasHead /\ [Next]_vars => TypeOK'
BY LiveType, OperationType, RebuildType, BaselineType, MaintenanceType DEF Next

-----------------------------------------------------------------------------
\* What each group of actions leaves alone.
LEMMA LiveFrame == LiveNext => UNCHANGED <<refuted, staging, rebuilds, bld, hybrid>>
BY DEF LiveNext, IngestResult, CommitHand, RejectHand, FailHand, MarkFailed, MarkFailedLost

LEMMA OperationFrame ==
  OperationNext =>
    UNCHANGED <<canon, fence, head, staging, revision, ledger, live, bld, history>>
BY DEF OperationNext, StartMerge, MergeResult, MergeRefutation, FinishDownload, FinishImport,
       AbortImport, StartManualRebuild, StartRecovery

LEMMA RebuildFrame ==
  RebuildNext => UNCHANGED <<lake, refuted, ledger, pipeline, failing, bld>>
BY DEF RebuildNext, PrepareStagingGeneration, ListFences, SnapshotHands, ReadChunk,
       SaveRebuilt, ActivateStagingGeneration, FailChunkedRebuild, SnapshotLake,
       CommitFullRebuild, FailFullRebuild

LEMMA BaselineFrame ==
  ASSUME NEW b \in Builders, BaselineNext(b)
  PROVE  UNCHANGED <<lake, refuted, canon, fence, markers, revision, live, rebuilds, history>>
BY DEF BaselineNext, StartBaseline, InspectBaseline, ScanHands, ScanChildren,
       InitializeBaseline, DeleteBaselineRows, BeginBaselineWrites, WriteBaselineRows,
       PublishBaseline, SupersedeBaseline

LEMMA CollectFrame ==
  ASSUME NEW g \in Gens, NEW p \in Players, CollectGeneration(g, p)
  PROVE  /\ UNCHANGED <<lake, refuted, canon, fence, head, markers, revision, live, rebuilds,
                        bld, history>>
         /\ g # head
BY DEF CollectGeneration

-----------------------------------------------------------------------------
LEMMA FailingHasHeadStep == TypeOK /\ FailingHasHead /\ [Next]_vars => FailingHasHead'
<1> SUFFICES ASSUME TypeOK, FailingHasHead, [Next]_vars PROVE FailingHasHead'
  OBVIOUS
<1> USE DEF FailingHasHead
<1>1. CASE LiveNext
  <2>1. ASSUME NEW r \in Results, IngestResult(r) PROVE FailingHasHead'
    BY <2>1 DEF TypeOK, IngestResult
  <2> QED BY <1>1, <2>1 DEF LiveNext, CommitHand, RejectHand, FailHand, MarkFailed,
                            MarkFailedLost, LeavePipeline, Writing
<1>2. CASE Restart \/ DeleteAllData
  BY <1>2 DEF Restart, DeleteAllData, ForgetMemory
<1>3. CASE UNCHANGED <<pipeline, failing>>
  BY <1>3
<1> QED BY <1>1, <1>2, <1>3, OperationFrame, RebuildFrame, BaselineFrame, CollectFrame
        DEF Next, vars

LEMMA CanonicalOfItsHandStep ==
  TypeOK /\ CanonicalOfItsHand /\ [Next]_vars => CanonicalOfItsHand'
<1> SUFFICES ASSUME TypeOK, CanonicalOfItsHand, [Next]_vars PROVE CanonicalOfItsHand'
  OBVIOUS
<1> USE DEF CanonicalOfItsHand
<1>1. ASSUME NEW r \in Results, canon' = [canon EXCEPT ![HandOf[r]] = r]
      PROVE  CanonicalOfItsHand'
  BY <1>1 DEF TypeOK, Canonical
<1>2. CASE CommitHand
  <2>1. Head(pipeline) \in Results
    BY <1>2 DEF TypeOK, CommitHand, Writing
  <2> QED BY <1>1, <1>2, <2>1 DEF CommitHand
<1>3. CASE SaveRebuilt
  BY <1>1, <1>3 DEF TypeOK, SaveRebuilt, RebuildRecord
<1>4. CASE ActivateStagingGeneration
  BY <1>4 DEF ActivateStagingGeneration
<1>5. CASE CommitFullRebuild
  <2>1. FullRebuildRows \in SUBSET Results
    BY DEF TypeOK, FullRebuildRows
  <2> QED BY <1>5, <2>1, ReplayType DEF CommitFullRebuild
<1>6. CASE DeleteAllData
  BY <1>6 DEF DeleteAllData
<1>7. CASE UNCHANGED canon
  BY <1>7
<1>8. LiveNext => CommitHand \/ UNCHANGED canon
  BY DEF LiveNext, IngestResult, RejectHand, FailHand, MarkFailed, MarkFailedLost
<1>9. RebuildNext => \/ SaveRebuilt \/ ActivateStagingGeneration \/ CommitFullRebuild
                     \/ UNCHANGED canon
  BY DEF RebuildNext, PrepareStagingGeneration, ListFences, SnapshotHands, ReadChunk,
         FailChunkedRebuild, SnapshotLake, FailFullRebuild
<1>10. Restart => UNCHANGED canon
  BY DEF Restart
<1> QED BY <1>2, <1>3, <1>4, <1>5, <1>6, <1>7, <1>8, <1>9, <1>10, OperationFrame,
           BaselineFrame, CollectFrame DEF Next, vars

LEMMA ExplicitFencesListedStep ==
  TypeOK /\ ExplicitFencesListed /\ [Next]_vars => ExplicitFencesListed'
<1> SUFFICES ASSUME TypeOK, ExplicitFencesListed, [Next]_vars PROVE ExplicitFencesListed'
  OBVIOUS
<1> USE DEF ExplicitFencesListed
<1>1. rb \in RebuildRecord
  BY DEF TypeOK
<1>2. CASE Release
  BY <1>2 DEF Release, NoRebuild
<1>3. ASSUME NEW explicit, BeginChunked(explicit) PROVE ExplicitFencesListed'
  BY <1>3 DEF BeginChunked, NoRebuild
<1>4. CASE PrepareStagingGeneration \/ ListFences
  <2>1. PrepareStagingGeneration => rb'.pc = "list"
    BY <1>1 DEF PrepareStagingGeneration, RebuildRecord
  <2>2. ListFences => rb'.explicit \subseteq rb'.fences
    BY <1>1 DEF ListFences, RebuildRecord
  <2> QED BY <1>4, <2>1, <2>2
<1>5. CASE SnapshotHands \/ ReadChunk \/ SaveRebuilt
  BY <1>1, <1>5 DEF SnapshotHands, ReadChunk, SaveRebuilt, RebuildRecord
<1>6. CASE UNCHANGED rb
  BY <1>6
<1>7. OperationNext => (\E explicit : BeginChunked(explicit)) \/ UNCHANGED rb
  BY DEF OperationNext, StartMerge, MergeResult, MergeRefutation, FinishDownload,
         FinishImport, AbortImport, StartManualRebuild, StartRecovery
<1>8. RebuildNext => \/ PrepareStagingGeneration \/ ListFences
                     \/ SnapshotHands \/ ReadChunk \/ SaveRebuilt
                     \/ Release \/ UNCHANGED rb
  BY DEF RebuildNext, ActivateStagingGeneration, FailChunkedRebuild, SnapshotLake,
         CommitFullRebuild, FailFullRebuild
<1>9. Restart \/ DeleteAllData => Release
  BY DEF Restart, DeleteAllData, ForgetMemory
<1> QED BY <1>2, <1>3, <1>4, <1>5, <1>6, <1>7, <1>8, <1>9, LiveFrame, BaselineFrame,
           CollectFrame DEF Next, vars

LEMMA MarkersGuardRebuildStep ==
  TypeOK /\ MarkersGuardRebuild /\ [Next]_vars => MarkersGuardRebuild'
<1> SUFFICES ASSUME TypeOK, MarkersGuardRebuild, [Next]_vars PROVE MarkersGuardRebuild'
  OBVIOUS
<1> USE DEF MarkersGuardRebuild, Present
<1>1. \A g \in Gens : g # NoGen
  BY DEF Gens, NoGen
<1>2. ASSUME UNCHANGED <<staging, hybrid>>,
             head' = head \/ head' \in Gens,
             dirty' = dirty \/ Present(dirty')
      PROVE  MarkersGuardRebuild'
  BY <1>1, <1>2
<1>3. CASE LiveNext
  <2>1. head' = head \/ head' \in Gens
    BY <1>3 DEF LiveNext, IngestResult, CommitHand, RejectHand, FailHand, MarkFailed,
                MarkFailedLost
  <2>2. dirty' = dirty \/ Present(dirty')
    BY <1>3 DEF LiveNext, IngestResult, CommitHand, RejectHand, FailHand, MarkFailed,
                MarkFailedLost, markCanonicalRebuildRequired
  <2> QED BY <1>2, <1>3, <2>1, <2>2, LiveFrame
<1>4. CASE OperationNext
  <2>1. dirty' = dirty \/ Present(dirty')
    BY <1>4 DEF OperationNext, StartMerge, MergeResult, MergeRefutation, MarkDirtyIfClean,
                FinishDownload, FinishImport, AbortImport, StartManualRebuild, StartRecovery
  <2> QED BY <1>2, <1>4, <2>1, OperationFrame
<1>5. CASE PrepareStagingGeneration
  BY <1>1, <1>5 DEF PrepareStagingGeneration
<1>6. CASE SaveRebuilt
  BY <1>6 DEF SaveRebuilt, OwnsRebuild, Owns
<1>7. CASE ActivateStagingGeneration \/ CommitFullRebuild \/ DeleteAllData
  BY <1>7 DEF ActivateStagingGeneration, CommitFullRebuild, DeleteAllData, NoMarker
<1>8. CASE FailChunkedRebuild
  BY <1>8 DEF FailChunkedRebuild, NoMarker
<1>9. CASE UNCHANGED <<staging, dirty, head, hybrid>>
  BY <1>9
<1>10. RebuildNext => \/ PrepareStagingGeneration \/ SaveRebuilt \/ ActivateStagingGeneration
                      \/ CommitFullRebuild \/ FailChunkedRebuild
                      \/ UNCHANGED <<staging, dirty, head, hybrid>>
  BY DEF RebuildNext, ListFences, SnapshotHands, ReadChunk, SnapshotLake, FailFullRebuild
<1>11. ASSUME NEW b \in Builders, BaselineNext(b) PROVE MarkersGuardRebuild'
  <2>1. head' = head \/ head' \in Gens
    BY <1>11 DEF BaselineNext, StartBaseline, InspectBaseline, ScanHands, ScanChildren,
                 InitializeBaseline, DeleteBaselineRows, BeginBaselineWrites,
                 WriteBaselineRows, PublishBaseline, SupersedeBaseline
  <2> QED BY <1>2, <1>11, <2>1, BaselineFrame
<1>12. CASE Restart
  BY <1>12 DEF Restart, Disown, TypeOK, Marker
<1> QED BY <1>3, <1>4, <1>5, <1>6, <1>7, <1>8, <1>9, <1>10, <1>11, <1>12, CollectFrame
        DEF Next, vars

LEMMA PendingFenceHasOwnerStep ==
  TypeOK /\ FailingHasHead /\ ExplicitFencesListed /\ PendingFenceHasOwner /\ [Next]_vars
    => PendingFenceHasOwner'
<1> SUFFICES ASSUME TypeOK, FailingHasHead, ExplicitFencesListed, PendingFenceHasOwner,
                    [Next]_vars,
                    NEW r \in Results, fence'[r] = "pending"
             PROVE  r \in forced' \/ \E i \in DOMAIN pipeline' : pipeline'[i] = r
  BY DEF PendingFenceHasOwner
<1> DEFINE Owned == r \in forced \/ \E i \in DOMAIN pipeline : pipeline[i] = r
<1>1. fence[r] = "pending" => Owned
  BY DEF PendingFenceHasOwner
<1>2. CASE LiveNext
  <2>1. ASSUME pipeline # <<>>, pipeline' = Tail(pipeline), forced \subseteq forced',
               r = Head(pipeline) => r \in forced', Owned
        PROVE  Owned'
    <3>1. CASE r \in forced
      BY <2>1, <3>1
    <3>2. ASSUME NEW i \in DOMAIN pipeline, pipeline[i] = r, i # 1 PROVE Owned'
      <4>1. i - 1 \in DOMAIN Tail(pipeline) /\ Tail(pipeline)[i - 1] = r
        BY <2>1, <3>2 DEF TypeOK
      <4> QED BY <2>1, <4>1
    <3>3. ASSUME pipeline[1] = r PROVE Owned'
      BY <2>1, <3>3 DEF TypeOK
    <3> QED BY <2>1, <3>1, <3>2, <3>3
  <2>2. ASSUME NEW s \in Results, IngestResult(s) PROVE Owned'
    <3>1. CASE s = r
      <4>1. Len(pipeline) + 1 \in DOMAIN pipeline' /\ pipeline'[Len(pipeline) + 1] = r
        BY <2>2, <3>1 DEF TypeOK, IngestResult
      <4> QED BY <4>1
    <3>2. CASE s # r
      <4>1. Owned
        BY <1>1, <2>2, <3>2 DEF TypeOK, IngestResult
      <4>2. \A i \in DOMAIN pipeline : i \in DOMAIN pipeline' /\ pipeline'[i] = pipeline[i]
        BY <2>2 DEF TypeOK, IngestResult
      <4> QED BY <2>2, <4>1, <4>2 DEF IngestResult
    <3> QED BY <3>1, <3>2
  <2>3. CASE CommitHand \/ RejectHand
    <3>1. pipeline # <<>> /\ Head(pipeline) \in Results /\ Head(pipeline) # r
      BY <2>3 DEF TypeOK, CommitHand, RejectHand, Writing
    <3>2. Owned
      BY <1>1, <2>3, <3>1 DEF TypeOK, CommitHand, RejectHand
    <3>3. pipeline' = Tail(pipeline) /\ forced' = forced
      BY <2>3 DEF CommitHand, RejectHand
    <3> QED BY <2>1, <3>1, <3>2, <3>3
  <2>4. CASE FailHand
    BY <1>1, <2>4 DEF FailHand
  <2>5. CASE MarkFailed \/ MarkFailedLost
    <3>1. pipeline # <<>> /\ pipeline' = Tail(pipeline)
            /\ forced' = forced \cup {Head(pipeline)}
      BY <2>5 DEF FailingHasHead, MarkFailed, MarkFailedLost, LeavePipeline
    <3>2. fence[r] = "pending"
      BY <2>5, <3>1 DEF TypeOK, MarkFailed, MarkFailedLost
    <3> QED BY <1>1, <2>1, <3>1, <3>2
  <2> QED BY <1>2, <2>2, <2>3, <2>4, <2>5 DEF LiveNext
<1>3. CASE ActivateStagingGeneration
  <2>1. fence[r] = "pending" /\ r \notin rb.fences
    BY <1>3 DEF ActivateStagingGeneration, ClearFences
  <2>2. r \notin rb.explicit
    BY <1>3, <2>1 DEF ExplicitFencesListed, ActivateStagingGeneration
  <2> QED BY <1>1, <1>3, <2>1, <2>2 DEF ActivateStagingGeneration
<1>4. CASE CommitFullRebuild \/ DeleteAllData \/ Restart
  BY <1>4 DEF CommitFullRebuild, DeleteAllData, Restart
<1>5. CASE UNCHANGED <<fence, forced, pipeline>>
  BY <1>1, <1>5
<1>6. RebuildNext => \/ ActivateStagingGeneration \/ CommitFullRebuild
                     \/ UNCHANGED <<fence, forced, pipeline>>
  BY DEF RebuildNext, PrepareStagingGeneration, ListFences, SnapshotHands, ReadChunk,
         SaveRebuilt, FailChunkedRebuild, SnapshotLake, FailFullRebuild
<1> QED BY <1>2, <1>3, <1>4, <1>5, <1>6, OperationFrame, BaselineFrame, CollectFrame
        DEF Next, vars

LEMMA AbsentNotReadyStep ==
  TypeOK /\ AbsentNotReady /\ [Next]_vars => AbsentNotReady'
<1> SUFFICES ASSUME TypeOK, AbsentNotReady, [Next]_vars PROVE AbsentNotReady'
  OBVIOUS
<1> USE DEF AbsentNotReady
<1>1. ASSUME NEW g, NEW p, NEW a, agg' = [agg EXCEPT ![g][p] = a], a.ready => a.here
      PROVE  AbsentNotReady'
  BY <1>1 DEF TypeOK
<1>2. CASE CommitHand
  <2> DEFINE r == Head(pipeline)
             h == HandOf[r]
             fresh == head = NoGen /\ \A k \in Hands : canon[k] # NoHand => k = h
  <2>1. PICK g \in Gens :
          agg' = [agg EXCEPT ![g] =
                    [p \in Players |-> ReplacedAggregate(g, h, p, canon[h], r, fresh)]]
    BY <1>2 DEF CommitHand
  <2>2. ASSUME NEW p \in Players,
               NEW a, a = ReplacedAggregate(g, h, p, canon[h], r, fresh), a.ready
        PROVE  a.here
    <3>1. agg[g][p] \in AggregateRecord
      BY DEF TypeOK
    <3> QED BY <2>2, <3>1 DEF ReplacedAggregate, Aggregate, AggregateRecord
  <2> QED BY <2>1, <2>2 DEF TypeOK
<1>3. ASSUME NEW b \in Builders, BaselineNext(b) PROVE AbsentNotReady'
  <2>1. CASE InitializeBaseline(b)
    <3> DEFINE a == Aggregate(FALSE, b, Zero)
    <3>1. agg' = agg \/ agg' = [agg EXCEPT ![bld[b].gen][Target(b)] = a]
      BY <2>1 DEF InitializeBaseline
    <3>2. a.ready => a.here
      BY DEF Aggregate
    <3> HIDE DEF a
    <3> QED BY <1>1, <3>1, <3>2
  <2>2. CASE PublishBaseline(b)
    BY <1>1, <2>2 DEF PublishBaseline, Aggregate
  <2>3. CASE UNCHANGED agg
    BY <2>3
  <2> QED BY <1>3, <2>1, <2>2, <2>3
          DEF BaselineNext, StartBaseline, InspectBaseline, ScanHands, ScanChildren,
              DeleteBaselineRows, BeginBaselineWrites, WriteBaselineRows, SupersedeBaseline
<1>4. ASSUME NEW g \in Gens, NEW p \in Players, CollectGeneration(g, p)
      PROVE  AbsentNotReady'
  <2>1. agg' = agg \/ agg' = [agg EXCEPT ![g][p] = NoAggregate]
    BY <1>4 DEF CollectGeneration
  <2>2. NoAggregate.ready => NoAggregate.here
    BY DEF NoAggregate
  <2> QED BY <1>1, <2>1, <2>2
<1>5. CASE DeleteAllData
  BY <1>5 DEF DeleteAllData, NoAggregate
<1>6. CASE UNCHANGED agg
  BY <1>6
<1>7. LiveNext => CommitHand \/ UNCHANGED agg
  BY DEF LiveNext, IngestResult, RejectHand, FailHand, MarkFailed, MarkFailedLost
<1>8. Restart => UNCHANGED agg
  BY DEF Restart
<1> QED BY <1>2, <1>3, <1>4, <1>5, <1>6, <1>7, <1>8, OperationFrame, RebuildFrame
        DEF Next, vars

LEMMA StructureStep ==
  TypeOK /\ Structure /\ [Next]_vars => Structure'
BY FailingHasHeadStep, CanonicalOfItsHandStep, MarkersGuardRebuildStep,
   ExplicitFencesListedStep, AbsentNotReadyStep DEF Structure

-----------------------------------------------------------------------------
\* Baselines.  What other actions may do to a batch.
LEMMA IdleBaselines == (\A b \in Builders : bld'[b].pc = "idle") => Baselines'
BY DEF Baselines, BatchSound, BatchUnderway, ScanCurrent, ScanComplete, RowsWritten

LEMMA SameTarget ==
  ASSUME NEW b, bld'[b] = bld[b]
  PROVE  Target(b)' = Target(b) /\ Scanned(b)' = Scanned(b)
<1>1. Target(b)' = Target(b)
  BY DEF Target
<1> QED BY <1>1 DEF Scanned, Derived

LEMMA UntouchedBaselines ==
  ASSUME Baselines, UNCHANGED <<bld, revision, canon, rows, agg, head>>
  PROVE  Baselines'
<1> SUFFICES ASSUME NEW b \in Builders
             PROVE  BatchSound(b)'
  BY DEF Baselines
<1>1. Target(b)' = Target(b) /\ Scanned(b)' = Scanned(b)
  BY SameTarget
<1> QED BY <1>1 DEF Baselines, BatchSound, BatchUnderway, ScanCurrent, ScanComplete, RowsWritten, Holds

\* The head is only created while no batch is running.
LEMMA CreatedHeadBaselines ==
  ASSUME Baselines, UNCHANGED <<bld, revision, canon, rows, agg>>,
         NEW g, EnsureActiveHead(g), head' = g
  PROVE  Baselines'
<1>1. CASE head = NoGen
  BY <1>1, IdleBaselines DEF Baselines, BatchSound, BatchUnderway
<1>2. CASE head # NoGen
  BY <1>2, UntouchedBaselines DEF EnsureActiveHead
<1> QED BY <1>1, <1>2

\* A canonical change leaves every batch with a revision that has passed.
LEMMA OvertakenBaselines ==
  ASSUME TypeOK, Baselines, bld' = bld, revision' = revision + 1, head' # NoGen
  PROVE  Baselines'
<1> SUFFICES ASSUME NEW b \in Builders
             PROVE  BatchSound(b)'
  BY DEF Baselines
<1>1. revision \in Nat /\ bld[b].rev \in Nat
  BY DEF TypeOK, BaselineRecord
<1>2. bld[b].pc # "idle" => bld[b].rev <= revision /\ bld[b].rev # revision'
  BY <1>1 DEF Baselines, BatchSound, BatchUnderway
<1>3. BatchUnderway(b)'
  BY <1>1, <1>2 DEF Baselines, BatchSound, BatchUnderway
<1>4. ScanCurrent(b)'
  BY <1>2 DEF ScanCurrent
<1>5. ScanComplete(b)'
  BY DEF Baselines, BatchSound, ScanComplete
<1>6. RowsWritten(b)'
  BY <1>2 DEF RowsWritten, Holds
<1> QED BY <1>3, <1>4, <1>5, <1>6 DEF BatchSound

LEMMA LiveBaselines == TypeOK /\ Baselines /\ LiveNext => Baselines'
<1> SUFFICES ASSUME TypeOK, Baselines, LiveNext PROVE Baselines'
  OBVIOUS
<1>1. CASE CommitHand
  <2>1. head' # NoGen
    BY <1>1 DEF CommitHand, Gens, NoGen
  <2> QED BY <1>1, <2>1, OvertakenBaselines DEF CommitHand, BumpCanonicalRevision
<1>2. CASE UNCHANGED <<bld, revision, canon, rows, agg, head>>
  BY <1>2, UntouchedBaselines
<1> QED BY <1>1, <1>2 DEF LiveNext, IngestResult, RejectHand, FailHand, MarkFailed,
                          MarkFailedLost

LEMMA RebuildBaselines ==
  TypeOK /\ MarkersGuardRebuild /\ Baselines /\ RebuildNext => Baselines'
<1> SUFFICES ASSUME TypeOK, MarkersGuardRebuild, Baselines, RebuildNext PROVE Baselines'
  OBVIOUS
<1>1. bld' = bld /\ rows' = rows /\ agg' = agg
  BY RebuildFrame
<1>2. CASE PrepareStagingGeneration
  <2>1. PICK active : EnsureActiveHead(active) /\ head' = active
    BY <1>2 DEF PrepareStagingGeneration
  <2> QED BY <1>1, <1>2, <2>1, CreatedHeadBaselines DEF PrepareStagingGeneration
<1>3. CASE SaveRebuilt \/ ActivateStagingGeneration
  <2>1. head' # NoGen
    BY <1>3 DEF SaveRebuilt, ActivateStagingGeneration, OwnsRebuild, Owns,
                MarkersGuardRebuild, Present
  <2> QED BY <1>1, <1>3, <2>1, OvertakenBaselines
          DEF SaveRebuilt, ActivateStagingGeneration, BumpCanonicalRevision
<1>4. CASE CommitFullRebuild
  <2>1. head' # NoGen
    BY <1>4 DEF CommitFullRebuild, Gens, NoGen
  <2> QED BY <1>1, <1>4, <2>1, OvertakenBaselines DEF CommitFullRebuild, BumpCanonicalRevision
<1>5. CASE UNCHANGED <<revision, canon, head>>
  BY <1>1, <1>5, UntouchedBaselines
<1>6. RebuildNext => \/ PrepareStagingGeneration \/ SaveRebuilt \/ ActivateStagingGeneration
                     \/ CommitFullRebuild \/ UNCHANGED <<revision, canon, head>>
  BY DEF RebuildNext, ListFences, SnapshotHands, ReadChunk, SnapshotLake, FailChunkedRebuild,
         FailFullRebuild
<1> QED BY <1>2, <1>3, <1>4, <1>5, <1>6

LEMMA CollectBaselines ==
  ASSUME TypeOK, Baselines, NEW g \in Gens, NEW p \in Players, CollectGeneration(g, p)
  PROVE  Baselines'
<1>1. UNCHANGED <<bld, revision, canon, head>> /\ g # head
  BY CollectFrame
<1>2. \A k \in Gens : k = head => rows'[k] = rows[k] /\ agg'[k] = agg[k]
  BY <1>1 DEF TypeOK, CollectGeneration
<1>3. ASSUME NEW b \in Builders PROVE RowsWritten(b)'
  <2>1. Target(b)' = Target(b) /\ Scanned(b)' = Scanned(b)
    BY <1>1, SameTarget
  <2>2. bld[b].pc # "idle" => bld[b].gen \in Gens
    BY DEF Baselines, BatchSound, BatchUnderway
  <2> QED BY <1>1, <1>2, <2>1, <2>2 DEF Baselines, BatchSound, RowsWritten, Holds
<1> QED BY <1>1, <1>3 DEF Baselines, BatchSound, BatchUnderway, ScanCurrent, ScanComplete

\* A batch keeps its soundness when another one moves.
LEMMA OtherBatch ==
  ASSUME TypeOK, Baselines, NEW c \in Builders,
         bld'[c] = bld[c], UNCHANGED <<canon, revision>>,
         bld[c].pc # "idle" => head' = head,
         bld[c].pc = "write" /\ Holds(c)' =>
           Holds(c) /\ rows'[bld[c].gen][Target(c)] = rows[bld[c].gen][Target(c)]
  PROVE  BatchSound(c)'
<1>1. Target(c)' = Target(c) /\ Scanned(c)' = Scanned(c)
  BY SameTarget
<1>2. BatchSound(c)
  BY DEF Baselines
<1>3. BatchUnderway(c)' /\ ScanCurrent(c)' /\ ScanComplete(c)'
  BY <1>2 DEF BatchSound, BatchUnderway, ScanCurrent, ScanComplete
<1>4. RowsWritten(c)'
  BY <1>1, <1>2 DEF BatchSound, RowsWritten
<1> QED BY <1>3, <1>4 DEF BatchSound

LEMMA StartBaselineSound ==
  ASSUME TypeOK, Baselines, NEW b \in Builders, NEW ps \in SUBSET Players,
         NEW force \in BOOLEAN, StartBaseline(b, ps, force)
  PROVE  Baselines'
<1>1. PICK g \in Gens :
        /\ EnsureActiveHead(g)
        /\ head' = g
        /\ bld' = [bld EXCEPT ![b] = [NoBaseline EXCEPT !.pc = "inspect", !.todo = ps,
                                                        !.force = force, !.gen = g]]
  BY DEF StartBaseline
<1>2. UNCHANGED <<canon, revision, agg, rows>> /\ ps # {}
  BY DEF StartBaseline
<1>3. /\ bld'[b].pc = "inspect" /\ bld'[b].todo = ps /\ bld'[b].gen = g
      /\ bld'[b].rev = 0 /\ bld'[b].got = {}
  BY <1>1 DEF TypeOK, NoBaseline
<1>4. BatchSound(b)'
  <2>1. head' # NoGen /\ 0 <= revision'
    BY <1>1, <1>2 DEF TypeOK, Gens, NoGen
  <2> QED BY <1>2, <1>3, <2>1
          DEF BatchSound, BatchUnderway, ScanCurrent, ScanComplete, RowsWritten
<1>5. ASSUME NEW c \in Builders, c # b PROVE BatchSound(c)'
  <2>1. bld'[c] = bld[c]
    BY <1>1, <1>5 DEF TypeOK
  <2>2. bld[c].pc # "idle" => head' = head
    BY <1>1 DEF Baselines, BatchSound, BatchUnderway, EnsureActiveHead
  <2>3. Target(c)' = Target(c)
    BY <2>1, SameTarget
  <2>4. bld[c].pc = "write" /\ Holds(c)' => Holds(c)
    BY <1>2, <2>1, <2>2, <2>3 DEF Holds
  <2> QED BY <1>2, <2>1, <2>2, <2>4, OtherBatch
<1> QED BY <1>4, <1>5 DEF Baselines

\* Where a batch works, and what an update of one place of a table does elsewhere.
LEMMA BatchPlace ==
  ASSUME TypeOK, NEW b \in Builders, BatchSound(b), bld[b].pc # "idle"
  PROVE  bld[b].gen \in Gens /\ Target(b) \in bld[b].todo /\ Target(b) \in Players
<1>1. bld[b].todo \subseteq Players /\ bld[b].todo # {} /\ bld[b].gen \in Gens
  BY DEF TypeOK, BaselineRecord, BatchSound, BatchUnderway
<1>2. Target(b) \in bld[b].todo
  BY <1>1 DEF Target
<1> QED BY <1>1, <1>2

LEMMA AggregateUpdate ==
  ASSUME TypeOK, NEW g \in Gens, NEW p \in Players, NEW a, agg' = [agg EXCEPT ![g][p] = a],
         NEW k \in Gens, NEW q \in Players
  PROVE  agg'[k][q] = IF k = g /\ q = p THEN a ELSE agg[k][q]
BY DEF TypeOK

LEMMA RowsUpdate ==
  ASSUME TypeOK, NEW g \in Gens, NEW p \in Players, NEW S, rows' = [rows EXCEPT ![g][p] = S],
         NEW k \in Gens, NEW q \in Players
  PROVE  rows'[k][q] = IF k = g /\ q = p THEN S ELSE rows[k][q]
BY DEF TypeOK

\* The steps that only read.
LEMMA ReadingBatchSound ==
  ASSUME TypeOK, Baselines, NEW b \in Builders,
         InspectBaseline(b) \/ ScanHands(b) \/ ScanChildren(b) \/ SupersedeBaseline(b)
  PROVE  Baselines'
<1>1. UNCHANGED <<canon, revision, agg, rows, head>>
  BY DEF InspectBaseline, ScanHands, ScanChildren, SupersedeBaseline
<1>2. bld[b] \in BaselineRecord /\ BatchSound(b)
  BY DEF TypeOK, Baselines
<1>3. BatchSound(b)'
  <2>1. CASE bld'[b] = NoBaseline
    BY <2>1 DEF NoBaseline, BatchSound, BatchUnderway, ScanCurrent, ScanComplete, RowsWritten
  <2>2. CASE InspectBaseline(b) /\ bld'[b] # NoBaseline
    <3> DEFINE required == {p \in bld[b].todo : bld[b].force \/ ~agg[bld[b].gen][p].ready}
    <3>1. required # {} /\ bld[b].pc = "inspect"
            /\ bld'[b] = [bld[b] EXCEPT !.pc = "scan", !.todo = required, !.rev = revision]
      BY <2>2 DEF InspectBaseline, TypeOK
    <3> HIDE DEF required
    <3>2. /\ bld'[b].pc = "scan" /\ bld'[b].todo = required /\ bld'[b].rev = revision
          /\ bld'[b].gen = bld[b].gen /\ bld'[b].got = bld[b].got
      BY <1>2, <3>1 DEF BaselineRecord
    <3>3. revision <= revision
      BY DEF TypeOK
    <3> QED BY <1>1, <1>2, <3>1, <3>2, <3>3
            DEF BatchSound, BatchUnderway, ScanCurrent, ScanComplete, RowsWritten
  <2>3. CASE ScanHands(b)
    <3>1. bld'[b] = [bld[b] EXCEPT !.hands = canon, !.got = @ \cup {"hands"}]
            /\ bld[b].pc = "scan"
      BY <2>3 DEF ScanHands, TypeOK
    <3> QED BY <1>1, <1>2, <3>1 DEF BaselineRecord, BatchSound, BatchUnderway, ScanCurrent,
                                    ScanComplete, RowsWritten
  <2>4. CASE ScanChildren(b)
    <3>1. bld'[b] = [bld[b] EXCEPT !.children = canon, !.got = @ \cup {"children"}]
            /\ bld[b].pc = "scan"
      BY <2>4 DEF ScanChildren, TypeOK
    <3> QED BY <1>1, <1>2, <3>1 DEF BaselineRecord, BatchSound, BatchUnderway, ScanCurrent,
                                    ScanComplete, RowsWritten
  <2> QED BY <2>1, <2>2, <2>3, <2>4 DEF SupersedeBaseline, TypeOK
<1>4. ASSUME NEW c \in Builders, c # b PROVE BatchSound(c)'
  <2>1. bld'[c] = bld[c]
    BY <1>4 DEF InspectBaseline, ScanHands, ScanChildren, SupersedeBaseline, TypeOK
  <2>2. Target(c)' = Target(c)
    BY <2>1, SameTarget
  <2>3. bld[c].pc = "write" /\ Holds(c)' => Holds(c)
    BY <1>1, <2>1, <2>2 DEF Holds
  <2> QED BY <1>1, <2>1, <2>3, OtherBatch
<1> QED BY <1>3, <1>4 DEF Baselines

LEMMA FinishedPlayerSound ==
  ASSUME TypeOK, NEW b \in Builders, BatchSound(b), bld'[b] = Finish(b),
         bld[b].pc \in {"scan", "write"}, UNCHANGED <<canon, revision, head>>
  PROVE  BatchSound(b)'
<1>1. CASE bld[b].todo = {Target(b)}
  BY <1>1 DEF Finish, NoBaseline, BatchSound, BatchUnderway, ScanCurrent, ScanComplete,
              RowsWritten
<1>2. CASE bld[b].todo # {Target(b)}
  <2>1. bld'[b] = [bld[b] EXCEPT !.pc = "scan", !.todo = @ \ {Target(b)}]
    BY <1>2 DEF Finish
  <2>2. bld[b] \in BaselineRecord
    BY DEF TypeOK
  <2>3. /\ bld'[b].pc = "scan" /\ bld'[b].todo = bld[b].todo \ {Target(b)}
        /\ bld'[b].rev = bld[b].rev /\ bld'[b].gen = bld[b].gen /\ bld'[b].got = bld[b].got
        /\ bld'[b].hands = bld[b].hands /\ bld'[b].children = bld[b].children
    BY <2>1, <2>2 DEF BaselineRecord
  <2> QED BY <1>2, <2>3 DEF BatchSound, BatchUnderway, ScanCurrent, ScanComplete, RowsWritten
<1> QED BY <1>1, <1>2

LEMMA InitializeSound ==
  ASSUME TypeOK, Baselines, NEW b \in Builders, InitializeBaseline(b)
  PROVE  Baselines'
<1>1. UNCHANGED <<canon, revision, rows, head>> /\ bld[b].pc = "scan"
        /\ bld[b].got = {"hands", "children"}
  BY DEF InitializeBaseline
<1>2. bld[b] \in BaselineRecord /\ BatchSound(b)
  BY DEF TypeOK, Baselines
<1>3. BatchSound(b)'
  <2>1. CASE bld' = [bld EXCEPT ![b] = Finish(b)]
    <3>1. bld'[b] = Finish(b)
      BY <2>1 DEF TypeOK
    <3> QED BY <1>1, <1>2, <3>1, FinishedPlayerSound
  <2>2. CASE bld' = [bld EXCEPT ![b].pc = "delete"]
    <3>1. bld'[b] = [bld[b] EXCEPT !.pc = "delete"]
      BY <2>2 DEF TypeOK
    <3> QED BY <1>1, <1>2, <3>1 DEF BaselineRecord, BatchSound, BatchUnderway, ScanCurrent,
                                    ScanComplete, RowsWritten
  <2> QED BY <2>1, <2>2 DEF InitializeBaseline
<1>4. ASSUME NEW c \in Builders, c # b PROVE BatchSound(c)'
  <2>1. bld'[c] = bld[c]
    BY <1>4 DEF InitializeBaseline, TypeOK
  <2>2. Target(c)' = Target(c)
    BY <2>1, SameTarget
  <2>3. ASSUME bld[c].pc = "write", Holds(c)' PROVE Holds(c)
    <3>1. PICK a : /\ agg' = agg \/ agg' = [agg EXCEPT ![bld[b].gen][Target(b)] = a]
                   /\ a.build = b
      <4>1. agg' = agg \/ agg' = [agg EXCEPT ![bld[b].gen][Target(b)] = Aggregate(FALSE, b, Zero)]
        BY DEF InitializeBaseline
      <4>2. Aggregate(FALSE, b, Zero).build = b
        BY DEF Aggregate
      <4> QED BY <4>1, <4>2
    <3>2. CASE agg' = agg
      BY <1>1, <2>1, <2>2, <2>3, <3>2 DEF Holds
    <3>3. CASE agg' # agg
      <4>1. /\ bld[b].gen \in Gens /\ Target(b) \in Players
            /\ bld[c].gen \in Gens /\ Target(c) \in Players
        BY <1>1, <1>2, <2>3, BatchPlace DEF Baselines
      <4>2. agg'[bld[c].gen][Target(c)].build = c
        BY <2>1, <2>2, <2>3 DEF Holds
      <4>3. agg'[bld[c].gen][Target(c)] = agg[bld[c].gen][Target(c)]
        BY <1>4, <3>1, <3>3, <4>1, <4>2, AggregateUpdate
      <4> QED BY <1>1, <2>1, <2>2, <2>3, <4>3 DEF Holds
    <3> QED BY <3>2, <3>3
  <2> QED BY <1>1, <2>1, <2>3, OtherBatch
<1> QED BY <1>3, <1>4 DEF Baselines

\* Rows are deleted and written under the build token of their batch.
LEMMA WritingBatchSound ==
  ASSUME TypeOK, Baselines, NEW b \in Builders,
         DeleteBaselineRows(b) \/ BeginBaselineWrites(b) \/ WriteBaselineRows(b)
  PROVE  Baselines'
<1>1. UNCHANGED <<canon, revision, agg, head>> /\ bld[b].pc # "idle"
  BY DEF DeleteBaselineRows, BeginBaselineWrites, WriteBaselineRows
<1>2. Holds(b)
  BY DEF DeleteBaselineRows, BeginBaselineWrites, WriteBaselineRows, BuildFence,
         BaselineFence, Holds
<1>3. bld[b] \in BaselineRecord /\ BatchSound(b)
  BY DEF TypeOK, Baselines
<1>4. bld[b].gen \in Gens /\ Target(b) \in Players
  BY <1>1, <1>3, BatchPlace
<1> DEFINE t == rows[bld[b].gen][Target(b)]
<1>5. BatchSound(b)'
  <2>1. CASE DeleteBaselineRows(b)
    BY <1>1, <1>3, <2>1 DEF DeleteBaselineRows, BatchSound, BatchUnderway, ScanCurrent,
                            ScanComplete, RowsWritten
  <2>2. CASE BeginBaselineWrites(b)
    <3>1. /\ bld'[b] = [bld[b] EXCEPT !.pc = "write", !.todoRows = Scanned(b)]
          /\ bld[b].pc = "delete" /\ t = {} /\ rows' = rows
      BY <2>2 DEF BeginBaselineWrites, TypeOK
    <3>2. /\ bld'[b].pc = "write" /\ bld'[b].todoRows = Scanned(b)
          /\ bld'[b].todo = bld[b].todo /\ bld'[b].gen = bld[b].gen
          /\ bld'[b].rev = bld[b].rev /\ bld'[b].got = bld[b].got
          /\ bld'[b].hands = bld[b].hands /\ bld'[b].children = bld[b].children
      BY <1>3, <3>1 DEF BaselineRecord
    <3>3. Target(b)' = Target(b)
      BY <3>2 DEF Target
    <3>4. Scanned(b)' = Scanned(b)
      BY <3>2, <3>3 DEF Scanned, Derived
    <3>5. RowsWritten(b)'
      BY <3>1, <3>2, <3>3, <3>4 DEF RowsWritten
    <3> QED BY <1>1, <1>3, <3>1, <3>2, <3>5 DEF BatchSound, BatchUnderway, ScanCurrent,
                                                ScanComplete
  <2>3. CASE WriteBaselineRows(b)
    <3>1. PICK k \in bld[b].todoRows :
            /\ rows' = [rows EXCEPT ![bld[b].gen][Target(b)] = t \cup {k}]
            /\ bld' = [bld EXCEPT ![b].todoRows = @ \ {k}]
      BY <2>3 DEF WriteBaselineRows
    <3>2. bld'[b] = [bld[b] EXCEPT !.todoRows = @ \ {k}] /\ bld[b].pc = "write"
      BY <2>3, <3>1 DEF WriteBaselineRows, TypeOK
    <3>3. /\ bld'[b].pc = "write" /\ bld'[b].todoRows = bld[b].todoRows \ {k}
          /\ bld'[b].todo = bld[b].todo /\ bld'[b].gen = bld[b].gen
          /\ bld'[b].rev = bld[b].rev /\ bld'[b].got = bld[b].got
          /\ bld'[b].hands = bld[b].hands /\ bld'[b].children = bld[b].children
      BY <1>3, <3>2 DEF BaselineRecord
    <3>4. Target(b)' = Target(b)
      BY <3>3 DEF Target
    <3>5. Scanned(b)' = Scanned(b)
      BY <3>3, <3>4 DEF Scanned, Derived
    <3>6. rows'[bld[b].gen][Target(b)] = t \cup {k}
      BY <1>4, <3>1 DEF TypeOK
    <3>7. bld[b].todoRows \subseteq Scanned(b) /\ t = Scanned(b) \ bld[b].todoRows
      BY <1>2, <1>3, <3>2 DEF BatchSound, RowsWritten
    <3>8. RowsWritten(b)'
      BY <3>3, <3>4, <3>5, <3>6, <3>7 DEF RowsWritten
    <3> QED BY <1>1, <1>3, <3>2, <3>3, <3>8 DEF BatchSound, BatchUnderway, ScanCurrent,
                                                ScanComplete
  <2> QED BY <2>1, <2>2, <2>3
<1>6. ASSUME NEW c \in Builders, c # b PROVE BatchSound(c)'
  <2>1. bld'[c] = bld[c]
    BY <1>6 DEF DeleteBaselineRows, BeginBaselineWrites, WriteBaselineRows, TypeOK
  <2>2. Target(c)' = Target(c)
    BY <2>1, SameTarget
  <2>3. ASSUME bld[c].pc = "write", Holds(c)'
        PROVE  Holds(c) /\ rows'[bld[c].gen][Target(c)] = rows[bld[c].gen][Target(c)]
    <3>1. Holds(c)
      BY <1>1, <2>1, <2>2, <2>3 DEF Holds
    <3>2. bld[c].gen \in Gens /\ Target(c) \in Players
      BY <2>3, BatchPlace DEF Baselines
    <3>3. bld[c].gen # bld[b].gen \/ Target(c) # Target(b)
      BY <1>2, <1>6, <3>1 DEF Holds
    <3>4. rows' = rows \/ \E S : rows' = [rows EXCEPT ![bld[b].gen][Target(b)] = S]
      BY DEF DeleteBaselineRows, BeginBaselineWrites, WriteBaselineRows
    <3>5. ASSUME NEW S, rows' = [rows EXCEPT ![bld[b].gen][Target(b)] = S]
          PROVE  rows'[bld[c].gen][Target(c)] = rows[bld[c].gen][Target(c)]
      BY <1>4, <3>2, <3>3, <3>5, RowsUpdate
    <3> QED BY <3>1, <3>4, <3>5
  <2> QED BY <1>1, <2>1, <2>3, OtherBatch
<1> QED BY <1>5, <1>6 DEF Baselines

LEMMA PublishSound ==
  ASSUME TypeOK, Baselines, NEW b \in Builders, PublishBaseline(b)
  PROVE  Baselines'
<1>1. UNCHANGED <<canon, revision, rows, head>> /\ bld[b].pc = "write"
  BY DEF PublishBaseline
<1>2. BatchSound(b)'
  <2>1. bld'[b] = Finish(b)
    BY DEF PublishBaseline, TypeOK
  <2> QED BY <1>1, <2>1, FinishedPlayerSound DEF Baselines
<1>3. ASSUME NEW c \in Builders, c # b PROVE BatchSound(c)'
  <2>1. bld'[c] = bld[c]
    BY <1>3 DEF PublishBaseline, TypeOK
  <2>2. Target(c)' = Target(c)
    BY <2>1, SameTarget
  <2>3. ASSUME bld[c].pc = "write", Holds(c)' PROVE Holds(c)
    <3>1. /\ bld[b].gen \in Gens /\ Target(b) \in Players
          /\ bld[c].gen \in Gens /\ Target(c) \in Players
      BY <1>1, <2>3, BatchPlace DEF Baselines
    <3> DEFINE a == Aggregate(TRUE, NoBuild, TotalsOf(Scanned(b)))
    <3>2. agg' = [agg EXCEPT ![bld[b].gen][Target(b)] = a] /\ a.build = NoBuild
      BY DEF PublishBaseline, Aggregate
    <3> HIDE DEF a
    <3>3. agg'[bld[c].gen][Target(c)].build = c
      BY <2>1, <2>2, <2>3 DEF Holds
    <3>4. agg'[bld[c].gen][Target(c)] = agg[bld[c].gen][Target(c)]
      BY <3>1, <3>2, <3>3, AggregateUpdate
    <3> QED BY <1>1, <2>1, <2>2, <2>3, <3>4 DEF Holds
  <2> QED BY <1>1, <2>1, <2>3, OtherBatch
<1> QED BY <1>2, <1>3 DEF Baselines

LEMMA BaselinesStep ==
  TypeOK /\ MarkersGuardRebuild /\ Baselines /\ [Next]_vars => Baselines'
<1> SUFFICES ASSUME TypeOK, MarkersGuardRebuild, Baselines, [Next]_vars PROVE Baselines'
  OBVIOUS
<1>1. CASE OperationNext \/ UNCHANGED vars
  BY <1>1, OperationFrame, UntouchedBaselines DEF vars
<1>2. ASSUME NEW b \in Builders, BaselineNext(b) PROVE Baselines'
  BY <1>2, StartBaselineSound, ReadingBatchSound, InitializeSound, WritingBatchSound,
     PublishSound DEF BaselineNext
<1>3. CASE Restart \/ DeleteAllData
  BY <1>3, IdleBaselines DEF Restart, DeleteAllData, ForgetMemory, NoBaseline
<1> QED BY <1>1, <1>2, <1>3, LiveBaselines, RebuildBaselines, CollectBaselines DEF Next

-----------------------------------------------------------------------------
\* The ledger.  Read from the canonical tables, no hand is torn.
LEMMA ContributionsOf ==
  ASSUME TypeOK, NEW p \in Players
  PROVE  Contributions(p) = {r \in Results : canon[HandOf[r]] = r /\ p \in Lineup[r]}
BY DEF Contributions, Derived

LEMMA FreshGenerationEmpty ==
  ASSUME TypeOK, AbsentNotReady, NEW g, NEW S, NextGeneration(g, S), NEW p \in Players
  PROVE  g \in Gens /\ ~agg[g][p].here /\ ~agg[g][p].ready /\ rows[g][p] = {}
<1>1. g \in Gens /\ ~(g < g)
  BY DEF NextGeneration, Gens
<1>2. ~Occupied(g)
  BY <1>1 DEF NextGeneration
<1> QED BY <1>1, <1>2 DEF Occupied, AbsentNotReady

LEMMA MovedTotals ==
  ASSUME NEW C, NEW old, NEW new, old \subseteq C, (C \ old) \cap new = {}
  PROVE  Moved(TotalsOf(C), old, new) = TotalsOf((C \ old) \cup new)
BY DEF Moved, TotalsOf

LEMMA CommitHandLedger ==
  ASSUME TypeOK, Structure, LedgerMatchesCanonical, CommitHand, ~Present(dirty),
         NEW p \in Players, agg'[head'][p].ready
  PROVE  /\ agg'[head'][p].totals = TotalsOf(Contributions(p)')
         /\ rows'[head'][p] = Contributions(p)'
<1> DEFINE r == Head(pipeline)
           h == HandOf[r]
           prev == canon[h]
           fresh == head = NoGen /\ \A k \in Hands : canon[k] # NoHand => k = h
           C == Contributions(p)
           new == NewRow(r, p)
<1>1. r \in Results /\ h \in Hands /\ prev \in Results \cup {NoHand}
  BY DEF TypeOK, CommitHand, Writing, Canonical
<1>2. PICK g \in Gens :
        /\ EnsureActiveHead(g)
        /\ head' = g
        /\ rows' = [rows EXCEPT ![g] =
                      [q \in Players |-> (@[q] \ OldRows(g, h, q)) \cup NewRow(r, q)]]
        /\ agg' = [agg EXCEPT ![g] =
                     [q \in Players |-> ReplacedAggregate(g, h, q, prev, r, fresh)]]
  BY DEF CommitHand
<1> DEFINE a == agg[g][p]
           old == OldContributions(g, h, p, prev)
           moved == Moved(a.totals, old, new)
<1>3. /\ agg'[g][p] = ReplacedAggregate(g, h, p, prev, r, fresh)
      /\ rows'[g][p] = (rows[g][p] \ OldRows(g, h, p)) \cup new
  BY <1>2 DEF TypeOK
<1>4. a \in AggregateRecord
  BY DEF TypeOK
<1>5. \/ old = {} /\ new = {} /\ agg'[g][p] = a
      \/ a.here /\ agg'[g][p].ready = a.ready /\ agg'[g][p].totals = moved
      \/ agg'[g][p].ready = (fresh /\ ~a.here) /\ agg'[g][p].totals = TotalsOf(new)
  BY <1>3, <1>4 DEF ReplacedAggregate, Aggregate, AggregateRecord
<1>6. canon' = [canon EXCEPT ![h] = r]
  BY DEF CommitHand
<1>7. C = {s \in Results : canon[HandOf[s]] = s /\ p \in Lineup[s]}
  BY ContributionsOf
<1>8. new = {s \in {r} : p \in Lineup[s]}
  BY DEF NewRow
<1>9. Contributions(p)' = (C \ {s \in C : HandOf[s] = h}) \cup new
  <2>1. Contributions(p)' = {s \in Results : canon'[HandOf[s]] = s /\ p \in Lineup[s]}
    BY CommitHandType, ContributionsOf, <1>6 DEF TypeOK, Contributions, Derived
  <2>2. \A s \in Results : canon'[HandOf[s]] = IF HandOf[s] = h THEN r ELSE canon[HandOf[s]]
    BY <1>1, <1>6 DEF TypeOK, Canonical
  <2> QED BY <1>1, <1>7, <1>8, <2>1, <2>2
<1> HIDE DEF r, fresh, C, new, prev
<1>10. CASE head # NoGen
  <2>1. g = head /\ ~fresh
    BY <1>2, <1>10 DEF EnsureActiveHead, fresh
  <2>2. a.ready
    BY <1>2, <1>5, <2>1
  <2>3. a.totals = TotalsOf(C) /\ rows[g][p] = C
    BY <1>10, <2>1, <2>2 DEF LedgerMatchesCanonical, C
  <2>4. OldRows(g, h, p) = {s \in C : HandOf[s] = h}
    BY <1>7, <2>3 DEF OldRows
  <2>5. old = {s \in C : HandOf[s] = h}
    <3>1. CASE prev = NoHand
      BY <2>4, <3>1 DEF OldContributions
    <3>2. CASE prev \in Results
      <4>1. HandOf[prev] = h
        BY <1>1, <3>2 DEF Structure, CanonicalOfItsHand, prev
      <4>2. old = {s \in {prev} : p \in Lineup[s]}
        BY <3>2 DEF OldContributions
      <4> QED BY <1>7, <3>2, <4>1, <4>2 DEF prev
    <3> QED BY <1>1, <3>1, <3>2
  <2>6. rows'[g][p] = Contributions(p)'
    BY <1>3, <1>9, <2>3, <2>4
  <2>7. Contributions(p)' = (C \ old) \cup new
    BY <1>9, <2>5
  <2>8. old \subseteq C
    BY <2>5
  <2>9. (C \ old) \cap new = {}
    BY <1>8, <2>5
  <2> HIDE DEF old
  <2>10. agg'[g][p].totals = TotalsOf(Contributions(p)')
    <3>1. CASE agg'[g][p].totals = moved
      <4>1. moved = TotalsOf((C \ old) \cup new)
        BY <2>3, <2>8, <2>9, MovedTotals
      <4> QED BY <2>7, <3>1, <4>1
    <3>2. CASE old = {} /\ new = {} /\ agg'[g][p] = a
      <4>1. Contributions(p)' = C
        BY <2>7, <3>2
      <4> QED BY <2>3, <3>2, <4>1
    <3> QED BY <1>2, <1>5, <2>1, <3>1, <3>2
  <2> QED BY <1>2, <2>6, <2>10
<1>11. CASE head = NoGen
  <2>1. ~a.here /\ ~a.ready /\ rows[g][p] = {}
    BY <1>2, <1>11, FreshGenerationEmpty DEF EnsureActiveHead, Structure
  <2>2. fresh /\ agg'[g][p].totals = TotalsOf(new)
    BY <1>2, <1>5, <2>1
  <2>3. C = {s \in C : HandOf[s] = h}
    BY <1>7, <2>2 DEF fresh
  <2>4. Contributions(p)' = new
    BY <1>9, <2>3
  <2>5. rows'[g][p] = new
    BY <1>3, <2>1
  <2> QED BY <1>2, <2>2, <2>4, <2>5
<1> QED BY <1>10, <1>11

LEMMA BaselineLedger ==
  ASSUME TypeOK, Structure, Baselines, LedgerMatchesCanonical, NEW b \in Builders,
         BaselineNext(b), ~Present(dirty), head' # NoGen,
         NEW p \in Players, agg'[head'][p].ready
  PROVE  /\ agg'[head'][p].totals = TotalsOf(Contributions(p))
         /\ rows'[head'][p] = Contributions(p)
<1> DEFINE g == bld[b].gen
           q == Target(b)
           Matches(a, S) == a.totals = TotalsOf(Contributions(p)) /\ S = Contributions(p)
<1>1. head # NoGen /\ agg[head][p].ready => Matches(agg[head][p], rows[head][p])
  BY DEF LedgerMatchesCanonical
<1>2. BatchSound(b)
  BY DEF Baselines
<1>3. ASSUME bld[b].pc # "idle"
      PROVE  g \in Gens /\ q \in Players /\ head # NoGen
  BY <1>2, <1>3, BatchPlace DEF BatchSound, BatchUnderway
<1>4. ASSUME NEW ps \in SUBSET Players, NEW force \in BOOLEAN, StartBaseline(b, ps, force)
      PROVE  Matches(agg'[head'][p], rows'[head'][p])
  <2>1. PICK k \in Gens : EnsureActiveHead(k) /\ head' = k
    BY <1>4 DEF StartBaseline
  <2>2. agg' = agg /\ rows' = rows
    BY <1>4 DEF StartBaseline
  <2>3. head # NoGen
    BY <2>1, <2>2, FreshGenerationEmpty DEF EnsureActiveHead, Structure
  <2> QED BY <1>1, <2>1, <2>2, <2>3 DEF EnsureActiveHead
<1>5. CASE UNCHANGED <<head, agg, rows>>
  BY <1>1, <1>5
<1>6. CASE InitializeBaseline(b)
  <2> DEFINE a == Aggregate(FALSE, b, Zero)
  <2>1. g \in Gens /\ q \in Players /\ head # NoGen /\ head' = g /\ head = g /\ rows' = rows
    BY <1>3, <1>6 DEF InitializeBaseline, BaselineFence
  <2>2. agg' = agg \/ agg' = [agg EXCEPT ![g][q] = a]
    BY <1>6 DEF InitializeBaseline
  <2>3. ~a.ready
    BY DEF Aggregate
  <2> HIDE DEF a, g, q
  <2>4. agg'[g][p] = agg[g][p]
    BY <2>1, <2>2, <2>3, AggregateUpdate
  <2> QED BY <1>1, <2>1, <2>4
<1>7. CASE DeleteBaselineRows(b) \/ WriteBaselineRows(b)
  <2>1. /\ g \in Gens /\ q \in Players /\ head # NoGen
        /\ head' = g /\ head = g /\ agg' = agg /\ ~agg[g][q].ready
    BY <1>3, <1>7 DEF DeleteBaselineRows, WriteBaselineRows, BuildFence, BaselineFence
  <2>2. PICK S : rows' = [rows EXCEPT ![g][q] = S]
    BY <1>7 DEF DeleteBaselineRows, WriteBaselineRows
  <2> HIDE DEF g, q
  <2>3. rows'[g][p] = rows[g][p]
    BY <2>1, <2>2, RowsUpdate
  <2> QED BY <1>1, <2>1, <2>3
<1>8. CASE PublishBaseline(b)
  <2> DEFINE a == Aggregate(TRUE, NoBuild, TotalsOf(Scanned(b)))
  <2>1. /\ g \in Gens /\ q \in Players /\ head # NoGen /\ head' = g /\ head = g
        /\ rows' = rows /\ bld[b].pc = "write" /\ bld[b].rev = revision
        /\ bld[b].todoRows = {} /\ Holds(b)
    BY <1>3, <1>8 DEF PublishBaseline, BuildFence, BaselineFence, Holds
  <2>2. agg' = [agg EXCEPT ![g][q] = a]
    BY <1>8 DEF PublishBaseline
  <2>3. bld[b].hands = canon /\ bld[b].children = canon
    BY <1>2, <2>1 DEF BatchSound, ScanCurrent, ScanComplete
  <2>4. Scanned(b) = Contributions(q)
    BY <2>3 DEF Scanned, Contributions
  <2>5. rows[g][q] = Contributions(q)
    BY <1>2, <2>1, <2>4 DEF BatchSound, RowsWritten
  <2>6. a.totals = TotalsOf(Contributions(q))
    BY <2>4 DEF Aggregate
  <2> HIDE DEF a, g, q
  <2>7. agg'[g][p] = IF p = q THEN a ELSE agg[g][p]
    BY <2>1, <2>2 DEF TypeOK
  <2> QED BY <1>1, <2>1, <2>5, <2>6, <2>7
<1> QED BY <1>4, <1>5, <1>6, <1>7, <1>8
        DEF BaselineNext, InspectBaseline, ScanHands, ScanChildren, BeginBaselineWrites,
            SupersedeBaseline

LEMMA LedgerStep ==
  TypeOK /\ Structure /\ Baselines /\ LedgerMatchesCanonical /\ [Next]_vars
    => LedgerMatchesCanonical'
<1> SUFFICES ASSUME TypeOK, Structure, Baselines, LedgerMatchesCanonical, [Next]_vars,
                    head' # NoGen, ~Present(dirty'),
                    NEW p \in Players, agg'[head'][p].ready
             PROVE  /\ agg'[head'][p].totals = TotalsOf(Contributions(p)')
                    /\ rows'[head'][p] = Contributions(p)'
  BY DEF LedgerMatchesCanonical
<1> DEFINE Goal == /\ agg'[head'][p].totals = TotalsOf(Contributions(p)')
                   /\ rows'[head'][p] = Contributions(p)'
<1>1. ASSUME UNCHANGED <<canon, head>>, agg'[head] = agg[head], rows'[head] = rows[head],
             ~Present(dirty)
      PROVE  Goal
  <2>1. Contributions(p)' = Contributions(p)
    BY <1>1 DEF Contributions, Derived
  <2> QED BY <1>1, <2>1 DEF LedgerMatchesCanonical
<1>2. CASE LiveNext
  <2>1. ~Present(dirty)
    BY <1>2 DEF LiveNext, IngestResult, CommitHand, RejectHand, FailHand, MarkFailed,
                MarkFailedLost, markCanonicalRebuildRequired, Present
  <2>2. CASE CommitHand
    BY <2>1, <2>2, CommitHandLedger
  <2>3. CASE UNCHANGED <<canon, head, agg, rows>>
    BY <1>1, <2>1, <2>3
  <2> QED BY <1>2, <2>2, <2>3 DEF LiveNext, IngestResult, RejectHand, FailHand, MarkFailed,
                                  MarkFailedLost
<1>3. CASE OperationNext
  <2>1. ~Present(dirty)
    BY <1>3 DEF OperationNext, StartMerge, MergeResult, MergeRefutation, MarkDirtyIfClean,
                FinishDownload, FinishImport, AbortImport, StartManualRebuild, StartRecovery,
                Present
  <2> QED BY <1>1, <1>3, <2>1, OperationFrame
<1>4. CASE RebuildNext
  <2>1. agg' = agg /\ rows' = rows
    BY <1>4, RebuildFrame
  <2>2. PrepareStagingGeneration => Present(dirty')
    BY DEF PrepareStagingGeneration, Present
  <2>6. SaveRebuilt => Present(dirty')
    BY DEF SaveRebuilt, OwnsRebuild, Owns, Present
  <2>3. CASE ActivateStagingGeneration
    <3>1. head' \in Gens /\ ~Occupied(head')
      BY <2>3 DEF ActivateStagingGeneration, TypeOK, RebuildRecord
    <3> QED BY <2>1, <3>1 DEF Occupied, Structure, AbsentNotReady
  <2>4. CASE CommitFullRebuild
    <3>1. PICK g \in Gens : NextGeneration(g, {head, staging.gen}) /\ head' = g
      BY <2>4 DEF CommitFullRebuild
    <3> QED BY <2>1, <3>1, FreshGenerationEmpty DEF Structure
  <2>5. CASE UNCHANGED <<canon, head, dirty>>
    BY <1>1, <2>1, <2>5
  <2> QED BY <1>4, <2>2, <2>3, <2>4, <2>5, <2>6
          DEF RebuildNext, ListFences, SnapshotHands, ReadChunk, SnapshotLake,
              FailChunkedRebuild, FailFullRebuild
<1>5. ASSUME NEW b \in Builders, BaselineNext(b) PROVE Goal
  <2>1. canon' = canon /\ dirty' = dirty
    BY <1>5, BaselineFrame
  <2>2. Contributions(p)' = Contributions(p)
    BY <2>1 DEF Contributions, Derived
  <2> QED BY <1>5, <2>1, <2>2, BaselineLedger
<1>6. ASSUME NEW g \in Gens, NEW q \in Players, CollectGeneration(g, q) PROVE Goal
  <2>1. UNCHANGED <<canon, head, dirty>> /\ g # head
    BY <1>6, CollectFrame
  <2>2. agg'[head] = agg[head] /\ rows'[head] = rows[head]
    BY <1>6, <2>1 DEF CollectGeneration, TypeOK
  <2> QED BY <1>1, <2>1, <2>2
<1>7. CASE Restart
  <2>1. ~Present(dirty)
    BY <1>7 DEF Restart, Disown, Present
  <2> QED BY <1>1, <1>7, <2>1 DEF Restart
<1>8. CASE DeleteAllData
  BY <1>8 DEF DeleteAllData
<1>9. CASE UNCHANGED vars
  BY <1>1, <1>9 DEF vars
<1> QED BY <1>2, <1>3, <1>4, <1>5, <1>6, <1>7, <1>8, <1>9 DEF Next

LEMMA InitInductive == Init => IInv
<1> SUFFICES ASSUME Init PROVE IInv
  OBVIOUS
<1>1. FailingHasHead /\ ExplicitFencesListed
  BY DEF Init, FailingHasHead, ExplicitFencesListed, NoRebuild
<1>2. CanonicalOfItsHand
  BY ReplayType DEF Init, CanonicalOfItsHand
<1>3. MarkersGuardRebuild
  BY DEF Init, MarkersGuardRebuild, NoMarker, Present
<1>4. AbsentNotReady
  BY DEF Init, AbsentNotReady, NoAggregate
<1>5. Baselines
  BY DEF Init, NoBaseline, Baselines, BatchSound, BatchUnderway, ScanCurrent, ScanComplete,
         RowsWritten
<1>6. LedgerMatchesCanonical /\ PendingFenceHasOwner
  BY DEF Init, LedgerMatchesCanonical, PendingFenceHasOwner
<1> QED BY <1>1, <1>2, <1>3, <1>4, <1>5, <1>6, InitType DEF IInv, Structure

LEMMA NextInductive == IInv /\ [Next]_vars => IInv'
BY NextType, StructureStep, BaselinesStep, LedgerStep, PendingFenceHasOwnerStep
   DEF IInv, Structure

\* Every reachable state satisfies the inductive invariant.
THEOREM Inductive == Spec => []IInv
BY InitInductive, NextInductive, PTL DEF Spec

\* Every variable keeps its type.
THEOREM TypeCorrect == Spec => []TypeOK
<1>1. IInv => TypeOK
  BY DEF IInv
<1> QED BY <1>1, Inductive, PTL

\* With no rebuild pending, what the HUD reads of the active generation is the sum of
\* its player's canonical hands.
THEOREM LedgerCorrect == Spec => []LedgerMatchesCanonical
<1>1. IInv => LedgerMatchesCanonical
  BY DEF IInv
<1> QED BY <1>1, Inductive, PTL

\* A pending fence of this worker is always in the stream or with the scheduler.
THEOREM FencesOwned == Spec => []PendingFenceHasOwner
<1>1. IInv => PendingFenceHasOwner
  BY DEF IInv
<1> QED BY <1>1, Inductive, PTL

-----------------------------------------------------------------------------
\* Nothing becomes ready while the canonical tables are half replaced.
LEMMA HybridStep ==
  ASSUME TypeOK, Structure, Baselines, Next, hybrid, hybrid',
         NEW p \in Players, agg'[head'][p].ready
  PROVE  agg[head][p].ready
<1>1. Present(dirty) /\ head # NoGen
  BY DEF Structure, MarkersGuardRebuild
<1>2. CASE UNCHANGED <<head, agg>>
  BY <1>2
<1>3. CASE CommitHand
  <2> DEFINE r == Head(pipeline)
             h == HandOf[r]
             fresh == head = NoGen /\ \A k \in Hands : canon[k] # NoHand => k = h
  <2>1. PICK g \in Gens :
          /\ EnsureActiveHead(g)
          /\ head' = g
          /\ agg' = [agg EXCEPT ![g] =
                       [q \in Players |-> ReplacedAggregate(g, h, q, canon[h], r, fresh)]]
    BY <1>3 DEF CommitHand
  <2>2. g = head /\ ~fresh
    BY <1>1, <2>1 DEF EnsureActiveHead
  <2>3. agg'[g][p] = ReplacedAggregate(g, h, p, canon[h], r, fresh)
    BY <2>1 DEF TypeOK
  <2>4. agg[g][p] \in AggregateRecord
    BY DEF TypeOK
  <2> QED BY <2>1, <2>2, <2>3, <2>4 DEF ReplacedAggregate, Aggregate, AggregateRecord
<1>4. LiveNext => CommitHand \/ UNCHANGED <<head, agg>>
  BY DEF LiveNext, IngestResult, RejectHand, FailHand, MarkFailed, MarkFailedLost
<1>5. RebuildNext => UNCHANGED <<head, agg>>
  BY <1>1 DEF RebuildNext, PrepareStagingGeneration, EnsureActiveHead, ListFences,
              SnapshotHands, ReadChunk, SaveRebuilt, ActivateStagingGeneration,
              FailChunkedRebuild, SnapshotLake, CommitFullRebuild, FailFullRebuild
<1>6. ASSUME NEW b \in Builders, BaselineNext(b) PROVE UNCHANGED <<head, agg>>
  BY <1>1, <1>6 DEF BaselineNext, StartBaseline, EnsureActiveHead, InspectBaseline, ScanHands,
                    ScanChildren, InitializeBaseline, DeleteBaselineRows,
                    BeginBaselineWrites, WriteBaselineRows, PublishBaseline,
                    SupersedeBaseline, BuildFence, BaselineFence, HasCanonicalRebuildMarker
<1>7. ASSUME NEW g \in Gens, NEW q \in Players, CollectGeneration(g, q)
      PROVE  agg[head][p].ready
  <2>1. head' = head /\ g # head /\ head \in Gens
    BY <1>1, <1>7, CollectFrame DEF TypeOK
  <2>2. agg'[head] = agg[head]
    BY <1>7, <2>1 DEF CollectGeneration, TypeOK
  <2> QED BY <2>1, <2>2
<1>8. Restart => UNCHANGED <<head, agg>>
  BY DEF Restart
<1>9. ~DeleteAllData
  BY DEF DeleteAllData
<1> QED BY <1>2, <1>3, <1>4, <1>5, <1>6, <1>7, <1>8, <1>9, OperationFrame DEF Next

\* However a rebuild stops, no step publishes a baseline over the hybrid it left.
THEOREM HybridUnread == Spec => NothingPublishedWhileHybrid
<1>1. IInv /\ [Next]_vars =>
        [hybrid /\ hybrid' =>
           \A p \in Players : agg'[head'][p].ready => agg[head][p].ready]_vars
  BY HybridStep DEF IInv
<1> QED BY <1>1, Inductive, PTL DEF Spec, NothingPublishedWhileHybrid

-----------------------------------------------------------------------------
(* No result is lost.  What the worker still has to do with a result, and    *)
(* what the rebuild has read of the Lake.                                    *)

\* Whatever is in the stream, fenced, scheduled, scanned or canonical came from the Lake.
KnownFromLake ==
  /\ snap \subseteq lake /\ forced \subseteq lake
  /\ rb.explicit \subseteq lake /\ rb.fences \subseteq lake /\ rb.batch \subseteq lake
  /\ \A i \in DOMAIN pipeline : pipeline[i] \in lake
  /\ \A r \in Results : fence[r] # "none" => r \in lake
  /\ \A h \in Hands : canon[h] # NoHand => canon[h] \in lake
  /\ \A h \in rb.prev : \E r \in lake : HandOf[r] = h

\* The chunked rebuild has the slot, and has read nothing before it replays.
RebuildInSlot ==
  /\ rb.pc # "idle" => op = "chunked"
  /\ rb.pc # "replay" => rb.cursor = 0 /\ ~rb.end /\ rb.batch = {} /\ rb.done = {}

\* The replay is yet to read r, has derived its hand or has refused it; or r came after the
\* replay had read past it, and its hand was none of those before the rebuild.
Unread(r) == r > rb.cursor /\ ~rb.end
Replayed(r) == HandOf[r] \in rb.done \/ r \in refuted \cap rejected
Late(r) ==
  /\ HandOf[r] \notin rb.prev /\ r \notin rb.fences
  /\ fence[r] = "none" => canon[HandOf[r]] # NoHand \/ r \in rejected
ReplayCovers ==
  rb.pc = "replay" =>
    /\ \A r \in lake : Unread(r) \/ Replayed(r) \/ Late(r)
    /\ \A h \in rb.done : canon[h] # NoHand \/ \E r \in rb.batch : HandOf[r] = h

LakeInv == KnownFromLake /\ RebuildInSlot /\ ReplayCovers /\ NoLostResult

LEMMA ResultsFinite ==
  ASSUME NEW R \in SUBSET Results
  PROVE  IsFiniteSet(R) /\ R \in SUBSET Nat
<1>1. R \in SUBSET Nat
  BY ResultsAssumption
<1>2. CASE R = {}
  BY <1>1, <1>2, FS_EmptySet
<1>3. CASE R # {}
  <2>1. PICK n \in R : \A r \in R : r <= n
    BY <1>3, ResultsAssumption
  <2> QED BY <1>1, <2>1, FS_BoundedSetOfNaturals
<1> QED BY <1>1, <1>2, <1>3

LEMMA FirstOf ==
  ASSUME NEW R \in SUBSET Results, R # {}
  PROVE  \E r \in R : \A s \in R : r <= s
<1>1. R \subseteq Nat
  BY ResultsFinite
<1>2. PICK r \in R : \A s \in R : ~(<<s, r>> \in OpToRel(<, Nat))
  BY <1>1, NatLessThanWellFounded, WFMin
<1>3. \A s \in R : ~(s < r)
  BY <1>1, <1>2, Zenon DEF OpToRel
<1> QED BY <1>1, <1>3

\* A page holds the rows above the cursor up to a point, and is full when there are more
\* (processInReplayChunks).
LEMMA PageIsPrefix ==
  ASSUME NEW above \in SUBSET Results, NEW page,
         page = {r \in above : Cardinality({s \in above : s <= r}) <= ChunkSize},
         NEW r \in above \ page
  PROVE  (page # {} => Last(page) < r) /\ ~(Cardinality(page) < ChunkSize)
<1> DEFINE upTo(q) == {s \in above : s <= q}
<1>1. page \subseteq above /\ above \in SUBSET Results /\ page \in SUBSET Results
  OBVIOUS
<1>2. IsFiniteSet(above) /\ IsFiniteSet(page) /\ above \subseteq Nat /\ \A q : IsFiniteSet(upTo(q))
  BY <1>1, ResultsFinite
<1>3. \A q : Cardinality(upTo(q)) \in Nat
  BY <1>2, FS_CardinalityType
<1>4. \A q \in above : q \in page <=> Cardinality(upTo(q)) <= ChunkSize
  OBVIOUS
<1> HIDE DEF upTo
<1>5. \A q, c \in above : q <= c => upTo(q) \subseteq upTo(c)
  <2> TAKE q, c \in above
  <2> HAVE q <= c
  <2>1. \A s \in above : s \in Nat /\ q \in Nat /\ c \in Nat
    BY <1>2
  <2>2. \A s \in above : s <= q => s <= c
    BY <2>1
  <2> QED BY <2>2, Zenon DEF upTo
<1>6. \A q, c \in above : q <= c /\ c \in page => q \in page
  <2> TAKE q, c \in above
  <2> HAVE q <= c /\ c \in page
  <2>1. Cardinality(upTo(q)) <= Cardinality(upTo(c))
    BY <1>2, <1>5, FS_Subset
  <2> QED BY <1>3, <1>4, <2>1
<1>7. page # {} => Last(page) < r
  <2> HAVE page # {}
  <2>1. Last(page) \in page
    BY <1>1, LastType
  <2>2. Last(page) \in above /\ r \in above /\ ~(r <= Last(page))
    BY <1>1, <1>6, <2>1
  <2>3. Last(page) \in Nat /\ r \in Nat
    BY <1>2, <2>2
  <2> QED BY <2>2, <2>3
<1>8. ~(Cardinality(page) < ChunkSize)
  <2>1. PICK m \in above \ page : \A s \in above \ page : m <= s
    BY <1>1, FirstOf, above \ page \in SUBSET Results
  <2>2. upTo(m) \subseteq page \cup {m}
    <3>1. \A s \in above : s \in Nat /\ m \in Nat /\ (s \in page \/ m <= s)
      BY <1>2, <2>1
    <3>2. \A s \in above : s <= m => s \in page \/ s = m
      BY <3>1
    <3> QED BY <3>2, Zenon DEF upTo
  <2>3. IsFiniteSet(page \cup {m}) /\ Cardinality(page \cup {m}) = Cardinality(page) + 1
    <3>1. IsFiniteSet(page) /\ m \notin page
      BY <1>2, <2>1
    <3> HIDE DEF upTo
    <3> QED BY <3>1, FS_AddElement
  <2>4. Cardinality(upTo(m)) <= Cardinality(page) + 1
    <3>1. Cardinality(upTo(m)) <= Cardinality(page \cup {m})
      BY <2>2, <2>3, FS_Subset
    <3> QED BY <2>3, <3>1
  <2>5. Cardinality(page) \in Nat
    BY <1>2, FS_CardinalityType
  <2> QED BY <1>3, <1>4, <2>1, <2>4, <2>5
<1> QED BY <1>7, <1>8

-----------------------------------------------------------------------------
LEMMA KnownFromLakeStep ==
  TypeOK /\ FailingHasHead /\ CanonicalOfItsHand /\ KnownFromLake /\ [Next]_vars => KnownFromLake'
<1> SUFFICES ASSUME TypeOK, FailingHasHead, CanonicalOfItsHand, KnownFromLake, [Next]_vars
             PROVE  KnownFromLake'
  OBVIOUS
<1> USE DEF KnownFromLake
<1>1. rb \in RebuildRecord /\ pipeline \in Seq(Results)
  BY DEF TypeOK
<1>2. CASE LiveNext
  <2>1. snap' = snap /\ rb' = rb
    BY <1>2, LiveFrame
  <2>2. ASSUME NEW r \in Results, IngestResult(r) PROVE KnownFromLake'
    <3>1. \A i \in DOMAIN pipeline' : pipeline'[i] \in lake \cup {r}
      BY <1>1, <2>2 DEF IngestResult
    <3> QED BY <2>1, <2>2, <3>1 DEF TypeOK, IngestResult
  <2>3. pipeline # <<>> =>
          /\ Head(pipeline) \in lake /\ Head(pipeline) \in Results
          /\ \A i \in DOMAIN Tail(pipeline) : Tail(pipeline)[i] \in lake
    BY <1>1
  <2>4. CASE CommitHand
    BY <2>1, <2>3, <2>4 DEF TypeOK, Canonical, CommitHand, Writing
  <2>5. CASE RejectHand
    BY <2>1, <2>3, <2>5 DEF TypeOK, RejectHand, Writing
  <2>6. CASE FailHand
    BY <2>1, <2>6 DEF FailHand
  <2>7. CASE MarkFailed \/ MarkFailedLost
    <3>1. pipeline # <<>>
      BY <2>7 DEF FailingHasHead, MarkFailed, MarkFailedLost
    <3> QED BY <2>1, <2>3, <2>7, <3>1 DEF TypeOK, MarkFailed, MarkFailedLost, LeavePipeline
  <2> QED BY <1>2, <2>2, <2>4, <2>5, <2>6, <2>7 DEF LiveNext
<1>3. CASE OperationNext
  <2>1. UNCHANGED <<canon, fence, pipeline, forced>> /\ lake \subseteq lake' /\ snap' = snap
    BY <1>3 DEF OperationNext, StartMerge, MergeResult, MergeRefutation, FinishDownload, FinishImport,
                AbortImport, StartManualRebuild, StartRecovery
  <2>2. rb' = rb \/ \E explicit \in SUBSET forced : BeginChunked(explicit)
    BY <1>3 DEF OperationNext, StartMerge, MergeResult, MergeRefutation, FinishDownload, FinishImport,
                AbortImport, StartManualRebuild, StartRecovery
  <2>3. /\ rb'.explicit \subseteq lake /\ rb'.fences \subseteq lake /\ rb'.batch \subseteq lake
        /\ \A h \in rb'.prev : \E r \in lake : HandOf[r] = h
    BY <2>2 DEF BeginChunked, NoRebuild
  <2> QED BY <2>1, <2>3
<1>4. Release =>
        /\ snap' = {} /\ rb'.explicit = {} /\ rb'.fences = {} /\ rb'.batch = {} /\ rb'.prev = {}
  BY DEF Release, NoRebuild
<1>5. CASE RebuildNext
  <2>1. lake' = lake /\ pipeline' = pipeline
    BY <1>5, RebuildFrame
  <2>2. CASE PrepareStagingGeneration
    <3>1. PICK g \in Gens : rb' = [rb EXCEPT !.pc = "list", !.gen = g]
      BY <2>2 DEF PrepareStagingGeneration
    <3>2. UNCHANGED <<canon, fence, forced, snap>>
      BY <2>2 DEF PrepareStagingGeneration
    <3> QED BY <1>1, <2>1, <3>1, <3>2 DEF RebuildRecord
  <2>3. CASE ListFences
    <3>1. InterruptedFences \subseteq lake
      BY DEF InterruptedFences
    <3> QED BY <1>1, <2>1, <2>3, <3>1 DEF ListFences, RebuildRecord
  <2>4. CASE SnapshotHands
    <3>1. \A h \in Hands : canon[h] # NoHand => \E r \in lake : HandOf[r] = h
      BY DEF CanonicalOfItsHand, TypeOK, Canonical
    <3> QED BY <1>1, <2>1, <2>4, <3>1 DEF SnapshotHands, RebuildRecord
  <2>5. CASE ReadChunk
    <3>1. \E batch \in SUBSET lake : \E done, cursor, end :
            rb' = [rb EXCEPT !.batch = batch, !.done = done, !.cursor = cursor, !.end = end]
      BY <2>5 DEF ReadChunk
    <3>2. UNCHANGED <<canon, fence, forced, snap>>
      BY <2>5 DEF ReadChunk
    <3> QED BY <1>1, <2>1, <3>1, <3>2 DEF RebuildRecord
  <2>6. CASE SaveRebuilt
    BY <1>1, <2>1, <2>6 DEF SaveRebuilt, RebuildRecord, TypeOK, Canonical
  <2>7. CASE ActivateStagingGeneration
    BY <1>4, <2>1, <2>7 DEF ActivateStagingGeneration, ClearFences
  <2>8. CASE CommitFullRebuild
    <3>1. FullRebuildRows \in SUBSET lake /\ FullRebuildRows \in SUBSET Results
      BY DEF FullRebuildRows, TypeOK
    <3>2. \A h \in Hands : Replay(FullRebuildRows)[h] # NoHand => Replay(FullRebuildRows)[h] \in lake
      <4> TAKE h \in Hands
      <4> DEFINE versions == {r \in FullRebuildRows \ refuted : HandOf[r] = h}
      <4>1. versions # {} => Last(versions) \in versions
        BY <3>1, LastType, versions \in SUBSET Results
      <4> QED BY <3>1, <4>1 DEF Replay
    <3> QED BY <1>4, <2>1, <2>8, <3>2 DEF CommitFullRebuild
  <2>9. CASE FailChunkedRebuild \/ FailFullRebuild
    BY <1>4, <2>1, <2>9 DEF FailChunkedRebuild, FailFullRebuild
  <2>10. CASE SnapshotLake
    BY <2>1, <2>10 DEF SnapshotLake
  <2> QED BY <1>5, <2>2, <2>3, <2>4, <2>5, <2>6, <2>7, <2>8, <2>9, <2>10 DEF RebuildNext
<1>6. CASE UNCHANGED <<lake, canon, fence, live, rebuilds>>
  BY <1>6
<1>7. CASE Restart
  BY <1>4, <1>7 DEF Restart, ForgetMemory
<1>8. CASE DeleteAllData
  BY <1>4, <1>8 DEF DeleteAllData, ForgetMemory
<1> QED BY <1>2, <1>3, <1>5, <1>6, <1>7, <1>8, BaselineFrame, CollectFrame DEF Next, vars

LEMMA RebuildInSlotStep == TypeOK /\ RebuildInSlot /\ [Next]_vars => RebuildInSlot'
<1> SUFFICES ASSUME TypeOK, RebuildInSlot, [Next]_vars PROVE RebuildInSlot'
  OBVIOUS
<1> USE DEF RebuildInSlot
<1>1. rb \in RebuildRecord
  BY DEF TypeOK
<1>2. CASE UNCHANGED rb /\ (op' = op \/ rb.pc = "idle")
  BY <1>2
<1>3. CASE Release
  BY <1>3 DEF Release, NoRebuild
<1>4. CASE OperationNext
  <2>1. CASE \E explicit : BeginChunked(explicit)
    BY <2>1 DEF BeginChunked, NoRebuild
  <2>2. CASE UNCHANGED rb /\ (op' = op \/ rb.pc = "idle")
    BY <2>2
  <2> QED BY <1>4, <2>1, <2>2 DEF OperationNext, StartMerge, Claim, MergeResult, MergeRefutation,
             FinishDownload, FinishImport, AbortImport, StartManualRebuild, StartRecovery
<1>5. CASE RebuildNext
  <2>1. CASE PrepareStagingGeneration
    <3>1. PICK g \in Gens : rb' = [rb EXCEPT !.pc = "list", !.gen = g] /\ op' = op /\ rb.pc = "prepare"
      BY <2>1 DEF PrepareStagingGeneration
    <3> QED BY <1>1, <3>1 DEF RebuildRecord
  <2>2. CASE ListFences \/ SnapshotHands
    BY <1>1, <2>2 DEF ListFences, SnapshotHands, RebuildRecord
  <2>3. CASE ReadChunk
    <3>1. rb.pc = "replay" /\ op' = op /\ \E batch, done, cursor, end :
            rb' = [rb EXCEPT !.batch = batch, !.done = done, !.cursor = cursor, !.end = end]
      BY <2>3 DEF ReadChunk
    <3> QED BY <1>1, <3>1 DEF RebuildRecord
  <2>4. CASE SaveRebuilt
    <3>1. PICK r \in rb.batch : rb' = [rb EXCEPT !.batch = rb.batch \ {r}] /\ op' = op
      BY <2>4 DEF SaveRebuilt
    <3>2. rb.pc = "replay"
      BY <1>1, <3>1 DEF RebuildRecord
    <3> QED BY <1>1, <3>1, <3>2 DEF RebuildRecord
  <2>5. CASE SnapshotLake
    BY <1>2, <2>5 DEF SnapshotLake
  <2> QED BY <1>3, <1>5, <2>1, <2>2, <2>3, <2>4, <2>5
          DEF RebuildNext, ActivateStagingGeneration, FailChunkedRebuild, CommitFullRebuild, FailFullRebuild
<1>6. CASE Restart \/ DeleteAllData
  BY <1>3, <1>6 DEF Restart, DeleteAllData, ForgetMemory
<1>7. CASE UNCHANGED rebuilds
  BY <1>2, <1>7
<1> QED BY <1>4, <1>5, <1>6, <1>7, LiveFrame, BaselineFrame, CollectFrame DEF Next, vars

\* A step that leaves the rebuild alone and takes no hand away.
LEMMA CoverKept ==
  ASSUME ReplayCovers, rb' = rb, refuted' = refuted, rejected \subseteq rejected',
         rb.pc = "replay" =>
           /\ \A h \in rb.done : canon[h] # NoHand => canon'[h] # NoHand
           /\ \A r \in lake' : (r \in lake /\ (Late(r) => Late(r)')) \/ Late(r)'
  PROVE  ReplayCovers'
<1> SUFFICES ASSUME rb.pc = "replay"
             PROVE  /\ \A r \in lake' : Unread(r)' \/ Replayed(r)' \/ Late(r)'
                    /\ \A h \in rb.done : canon'[h] # NoHand \/ \E r \in rb.batch : HandOf[r] = h
  BY DEF ReplayCovers
<1>1. \A r : (Unread(r) => Unread(r)') /\ (Replayed(r) => Replayed(r)')
  BY DEF Unread, Replayed
<1> QED BY <1>1 DEF ReplayCovers

LEMMA LiveCovers ==
  ASSUME OneResultPerHand, TypeOK, FailingHasHead, KnownFromLake, RebuildInSlot, ReplayCovers, LiveNext
  PROVE  ReplayCovers'
<1>1. rb' = rb /\ refuted' = refuted
  BY LiveFrame
<1>2. ASSUME lake' = lake, rejected \subseteq rejected',
             \A h \in Hands : canon[h] # NoHand => canon'[h] # NoHand,
             \A r \in Results : fence'[r] = "none" =>
               fence[r] = "none" \/ canon'[HandOf[r]] # NoHand \/ r \in rejected'
      PROVE  ReplayCovers'
  <2>1. \A r \in lake : r \in Results /\ HandOf[r] \in Hands
    BY DEF TypeOK
  <2>2. \A r \in lake : Late(r) => Late(r)'
    BY <1>1, <1>2, <2>1 DEF Late
  <2>3. rb.done \subseteq Hands
    BY DEF TypeOK, RebuildRecord
  <2> QED BY <1>1, <1>2, <2>2, <2>3, CoverKept
<1>3. ASSUME NEW r \in Results, IngestResult(r) PROVE ReplayCovers'
  <2>1. lake' = lake \cup {r} /\ r \notin lake /\ canon' = canon /\ rejected' = rejected
    BY <1>3 DEF IngestResult
  <2>2. fence'[r] # "none" /\ \A s \in Results : s # r => fence'[s] = fence[s]
    BY <1>3 DEF IngestResult, TypeOK
  <2>3. HandOf[r] \notin rb.prev /\ r \notin rb.fences
    BY <2>1 DEF KnownFromLake, OneResultPerHand, TypeOK
  <2>4. Late(r)'
    BY <1>1, <2>2, <2>3 DEF Late
  <2>5. \A s \in lake : Late(s) => Late(s)'
    BY <1>1, <2>1, <2>2 DEF Late, TypeOK
  <2> QED BY <1>1, <2>1, <2>4, <2>5, CoverKept
<1>4. pipeline # <<>> => Head(pipeline) \in Results
  BY DEF TypeOK
<1>5. CASE CommitHand
  <2>1. /\ lake' = lake /\ rejected' = rejected /\ Head(pipeline) \in Results
        /\ canon' = [canon EXCEPT ![HandOf[Head(pipeline)]] = Head(pipeline)]
        /\ fence' = [fence EXCEPT ![Head(pipeline)] = "none"]
    BY <1>4, <1>5 DEF CommitHand, Writing
  <2>2. /\ canon'[HandOf[Head(pipeline)]] = Head(pipeline)
        /\ \A h \in Hands : canon'[h] = canon[h] \/ canon'[h] = Head(pipeline)
    BY <2>1 DEF TypeOK, Canonical
  <2>3. \A r \in Results : r # Head(pipeline) => fence'[r] = fence[r]
    BY <2>1 DEF TypeOK
  <2> QED BY <1>2, <2>1, <2>2, <2>3
<1>6. CASE RejectHand
  <2>1. \A r \in Results : r # Head(pipeline) => fence'[r] = fence[r]
    BY <1>6 DEF RejectHand, TypeOK
  <2> QED BY <1>2, <1>6, <2>1 DEF RejectHand
<1>7. CASE FailHand
  BY <1>2, <1>7 DEF FailHand
<1>8. CASE MarkFailed \/ MarkFailedLost
  <2>1. \A r \in Results : fence'[r] = "none" => fence[r] = "none"
    BY <1>8 DEF MarkFailed, MarkFailedLost, TypeOK
  <2> QED BY <1>2, <1>8, <2>1 DEF MarkFailed, MarkFailedLost
<1> QED BY <1>3, <1>5, <1>6, <1>7, <1>8 DEF LiveNext

\* A page of the replay: its rows are derived or refused, those above stay unread.
LEMMA ReadChunkCovers ==
  ASSUME TypeOK, ReplayCovers, ReadChunk
  PROVE  ReplayCovers'
<1> DEFINE above == {r \in lake : r > rb.cursor}
           chunk == {r \in above : Cardinality({s \in above : s <= r}) <= ChunkSize}
           kept == chunk \ refuted
           done == rb.done \cup {HandOf[r] : r \in kept}
           cursor == IF chunk = {} THEN rb.cursor ELSE Last(chunk)
           end == Cardinality(chunk) < ChunkSize
<1>1. /\ rb.pc = "replay" /\ rb.batch = {} /\ ~rb.end
      /\ rb' = [rb EXCEPT !.batch = kept, !.done = done, !.cursor = cursor, !.end = end]
      /\ rejected' = rejected \cup (chunk \cap refuted)
      /\ lake' = lake /\ refuted' = refuted /\ canon' = canon /\ fence' = fence
  BY DEF ReadChunk
<1>2. above \in SUBSET Results
  BY DEF TypeOK
<1>3. \A r \in above \ chunk : (chunk # {} => Last(chunk) < r) /\ ~end
  BY <1>2, PageIsPrefix
<1>4. chunk \subseteq above /\ above \subseteq lake /\ \A r \in above : r > rb.cursor
  OBVIOUS
<1>5. \A r \in lake : r \in above \/ ~(r > rb.cursor)
  OBVIOUS
<1>6. \A r \in Results : r \in Nat
  BY ResultsAssumption
<1>7. rb \in RebuildRecord
  BY DEF TypeOK
<1> HIDE DEF above, chunk, end
<1>8. \A r \in above \ chunk : r > cursor /\ ~end
  <2> TAKE r \in above \ chunk
  <2>1. CASE chunk = {}
    BY <1>3, <1>4, <2>1
  <2>2. CASE chunk # {}
    <3>1. Last(chunk) \in Results /\ r \in Results
      BY <1>2, <1>4, <2>2, LastType, chunk \in SUBSET Results
    <3> QED BY <1>3, <1>6, <2>2, <3>1
  <2> QED BY <2>1, <2>2
<1> HIDE DEF kept, done, cursor
<1>9. rb'.batch = kept /\ rb'.done = done /\ rb'.cursor = cursor /\ rb'.end = end
      /\ rb'.prev = rb.prev /\ rb'.fences = rb.fences /\ rb'.pc = "replay"
  BY <1>1, <1>7 DEF RebuildRecord
<1>10. ASSUME NEW r \in lake PROVE Unread(r)' \/ Replayed(r)' \/ Late(r)'
  <2>1. CASE r \in above \ chunk
    BY <1>8, <1>9, <2>1 DEF Unread
  <2>2. CASE r \in chunk
    BY <1>1, <1>9, <2>2 DEF Replayed, done, kept
  <2>3. CASE r \notin above
    <3>1. Replayed(r) \/ Late(r)
      BY <1>1, <1>5, <2>3 DEF ReplayCovers, Unread
    <3>2. Replayed(r) => Replayed(r)'
      BY <1>1, <1>9 DEF Replayed, done
    <3>3. Late(r) => Late(r)'
      BY <1>1, <1>9 DEF Late
    <3> QED BY <3>1, <3>2, <3>3
  <2> QED BY <2>1, <2>2, <2>3
<1>11. ASSUME NEW h \in rb'.done PROVE canon'[h] # NoHand \/ \E r \in rb'.batch : HandOf[r] = h
  BY <1>1, <1>9, <1>11 DEF ReplayCovers, done
<1> QED BY <1>1, <1>10, <1>11 DEF ReplayCovers

LEMMA RebuildCovers ==
  ASSUME TypeOK, KnownFromLake, RebuildInSlot, ReplayCovers, RebuildNext
  PROVE  ReplayCovers'
<1>1. rb \in RebuildRecord
  BY DEF TypeOK
<1>2. CASE rb'.pc # "replay"
  BY <1>2 DEF ReplayCovers
<1>3. CASE PrepareStagingGeneration
  <2>1. PICK g \in Gens : rb' = [rb EXCEPT !.pc = "list", !.gen = g]
    BY <1>3 DEF PrepareStagingGeneration
  <2> QED BY <1>1, <1>2, <2>1 DEF RebuildRecord
<1>4. CASE ListFences
  BY <1>1, <1>2, <1>4 DEF ListFences, RebuildRecord
<1>5. CASE SnapshotHands
  <2>1. rb'.cursor = 0 /\ ~rb'.end /\ rb'.done = {} /\ lake' = lake
    BY <1>1, <1>5 DEF SnapshotHands, RebuildInSlot, RebuildRecord
  <2>2. \A r \in lake : r > 0
    BY ResultsAssumption DEF TypeOK
  <2>3. \A r \in lake' : Unread(r)'
    BY <2>1, <2>2 DEF Unread
  <2> QED BY <2>1, <2>3 DEF ReplayCovers
<1>6. CASE SaveRebuilt
  <2>1. PICK r \in rb.batch :
          /\ canon' = [canon EXCEPT ![HandOf[r]] = r] /\ rb' = [rb EXCEPT !.batch = rb.batch \ {r}]
          /\ lake' = lake /\ fence' = fence /\ refuted' = refuted /\ rejected' = rejected
    BY <1>6 DEF SaveRebuilt
  <2>2. r \in Results
    BY <1>1 DEF RebuildRecord
  <2>3. /\ canon'[HandOf[r]] = r /\ r # NoHand /\ r \in Results
        /\ \A h \in Hands : h # HandOf[r] => canon'[h] = canon[h]
    BY <2>1, <2>2 DEF TypeOK, Canonical
  <2>4. \A h \in Hands : canon[h] # NoHand => canon'[h] # NoHand
    BY <2>3
  <2>5. /\ rb'.cursor = rb.cursor /\ rb'.end = rb.end /\ rb'.done = rb.done /\ rb'.prev = rb.prev
        /\ rb'.fences = rb.fences /\ rb'.batch = rb.batch \ {r} /\ rb'.pc = "replay" /\ rb.pc = "replay"
    <3>1. rb.pc = "replay"
      BY <1>1, <2>1 DEF RebuildInSlot, RebuildRecord
    <3> QED BY <1>1, <2>1, <3>1 DEF RebuildRecord
  <2>6. \A s \in lake : /\ Unread(s) => Unread(s)'
                        /\ Replayed(s) => Replayed(s)'
                        /\ Late(s) => Late(s)'
    BY <2>1, <2>4, <2>5 DEF Unread, Replayed, Late, TypeOK
  <2>7. \A h \in rb'.done : canon'[h] # NoHand \/ \E s \in rb'.batch : HandOf[s] = h
    <3> TAKE h \in rb'.done
    <3>1. h \in Hands
      BY <1>1, <2>5 DEF RebuildRecord
    <3> QED BY <2>3, <2>4, <2>5, <3>1 DEF ReplayCovers
  <2> QED BY <2>1, <2>5, <2>6, <2>7 DEF ReplayCovers
<1>7. CASE Release
  BY <1>2, <1>7 DEF Release, NoRebuild
<1>8. CASE SnapshotLake
  BY <1>1, <1>2, <1>8 DEF SnapshotLake, RebuildInSlot
<1> QED BY <1>3, <1>4, <1>5, <1>6, <1>7, <1>8, ReadChunkCovers
        DEF RebuildNext, ActivateStagingGeneration, FailChunkedRebuild, CommitFullRebuild, FailFullRebuild

LEMMA ReplayCoversStep ==
  ASSUME OneResultPerHand, TypeOK, FailingHasHead, KnownFromLake, RebuildInSlot, ReplayCovers, [Next]_vars
  PROVE  ReplayCovers'
<1>1. CASE rb'.pc # "replay"
  BY <1>1 DEF ReplayCovers
<1>2. CASE OperationNext
  <2>1. rb' = rb \/ \E explicit : BeginChunked(explicit)
    BY <1>2 DEF OperationNext, StartMerge, MergeResult, MergeRefutation, FinishDownload, FinishImport,
                AbortImport, StartManualRebuild, StartRecovery
  <2>2. op # "chunked"
    BY <1>2 DEF OperationNext, StartMerge, Claim, MergeResult, MergeRefutation, FinishDownload,
                FinishImport, AbortImport, StartManualRebuild, StartRecovery
  <2>3. rb'.pc # "replay"
    BY <2>1, <2>2 DEF RebuildInSlot, BeginChunked, NoRebuild
  <2> QED BY <1>1, <2>3
<1>3. CASE Restart \/ DeleteAllData
  BY <1>1, <1>3 DEF Restart, DeleteAllData, ForgetMemory, Release, NoRebuild
<1>4. CASE UNCHANGED <<lake, refuted, canon, fence, rejected, rb>>
  BY <1>4, CoverKept DEF Late
<1> QED BY <1>2, <1>3, <1>4, LiveCovers, RebuildCovers, BaselineFrame, CollectFrame DEF Next, vars

-----------------------------------------------------------------------------
\* The activation of the staging generation keeps the hand of every result of the Lake.
LEMMA ActivationKeeps ==
  ASSUME TypeOK, RebuildInSlot, ReplayCovers, ActivateStagingGeneration, NEW r \in lake
  PROVE  /\ fence'[r] = "none" => canon'[HandOf[r]] # NoHand \/ r \in rejected
         /\ HandOf[r] \in rb.prev \ rb.done => r \in refuted
<1>1. /\ rb.pc = "replay" /\ rb.batch = {} /\ rb.end /\ HandOf[r] \in Hands /\ r \in Results
      /\ canon' = [h \in Hands |-> IF h \in rb.prev \ rb.done THEN NoHand ELSE canon[h]]
      /\ fence' = [s \in Results |-> IF s \in rb.fences THEN "none" ELSE fence[s]]
  BY DEF ActivateStagingGeneration, ClearFences, TypeOK
<1>2. Replayed(r) \/ Late(r)
  BY <1>1 DEF ReplayCovers, Unread
<1>3. \A h \in rb.done : canon[h] # NoHand
  BY <1>1 DEF ReplayCovers
<1> QED BY <1>1, <1>2, <1>3 DEF Replayed, Late

\* A full rebuild derives or refuses every result of the Lake.
LEMMA FullRebuildKeeps ==
  ASSUME TypeOK, KnownFromLake, CommitFullRebuild, NEW r \in lake
  PROVE  canon'[HandOf[r]] # NoHand \/ r \in rejected'
<1>1. FullRebuildRows = lake
  <2>1. IsFiniteSet(lake) /\ snap \in SUBSET lake
    BY ResultsFinite DEF TypeOK, KnownFromLake
  <2>2. Cardinality(lake) = Cardinality(snap) => lake = snap
    BY <2>1, FS_Subset
  <2> QED BY <2>2 DEF FullRebuildRows
<1>2. canon' = Replay(lake) /\ rejected' = rejected \cup (lake \cap refuted)
  BY <1>1 DEF CommitFullRebuild
<1>3. CASE r \in refuted
  BY <1>2, <1>3
<1>4. CASE r \notin refuted
  <2> DEFINE versions == {s \in lake \ refuted : HandOf[s] = HandOf[r]}
  <2>1. r \in versions /\ versions \in SUBSET Results /\ HandOf[r] \in Hands
    BY <1>4 DEF TypeOK
  <2>2. Last(versions) \in Results
    BY <2>1, LastType
  <2> HIDE DEF versions
  <2>3. Replay(lake)[HandOf[r]] = Last(versions)
    BY <2>1 DEF Replay, versions
  <2> QED BY <1>2, <2>2, <2>3
<1> QED BY <1>3, <1>4

LEMMA NoLostResultStep ==
  ASSUME TypeOK, FailingHasHead, LakeInv, [Next]_vars
  PROVE  NoLostResult'
<1> USE DEF LakeInv
<1>1. CASE Present(dirty')
  BY <1>1 DEF NoLostResult
<1>2. ASSUME dirty' = dirty, lake' = lake, rejected \subseteq rejected',
             \A h \in Hands : canon[h] # NoHand => canon'[h] # NoHand,
             \A r \in Results : fence'[r] = "none" =>
               fence[r] = "none" \/ canon'[HandOf[r]] # NoHand \/ r \in rejected'
      PROVE  NoLostResult'
  BY <1>2 DEF NoLostResult, TypeOK
<1>3. pipeline # <<>> => Head(pipeline) \in Results
  BY DEF TypeOK
<1>4. CASE LiveNext
  <2>1. ASSUME NEW r \in Results, IngestResult(r) PROVE NoLostResult'
    <3>1. fence'[r] # "none" /\ \A s \in Results : s # r => fence'[s] = fence[s]
      BY <2>1 DEF IngestResult, TypeOK
    <3> QED BY <2>1, <3>1 DEF IngestResult, NoLostResult, TypeOK
  <2>2. CASE CommitHand
    <3>1. /\ lake' = lake /\ rejected' = rejected /\ dirty' = dirty /\ Head(pipeline) \in Results
          /\ canon' = [canon EXCEPT ![HandOf[Head(pipeline)]] = Head(pipeline)]
          /\ fence' = [fence EXCEPT ![Head(pipeline)] = "none"]
      BY <1>3, <2>2 DEF CommitHand, Writing
    <3>2. /\ canon'[HandOf[Head(pipeline)]] = Head(pipeline)
          /\ \A h \in Hands : canon'[h] = canon[h] \/ canon'[h] = Head(pipeline)
      BY <3>1 DEF TypeOK, Canonical
    <3>3. \A r \in Results : r # Head(pipeline) => fence'[r] = fence[r]
      BY <3>1 DEF TypeOK
    <3> QED BY <1>2, <3>1, <3>2, <3>3
  <2>3. CASE RejectHand
    <3>1. \A r \in Results : r # Head(pipeline) => fence'[r] = fence[r]
      BY <2>3 DEF RejectHand, TypeOK
    <3> QED BY <1>2, <2>3, <3>1 DEF RejectHand
  <2>4. CASE FailHand
    BY <1>2, <2>4 DEF FailHand
  <2>5. CASE MarkFailed
    <3>1. Present(dirty') \/ dirty' = dirty
      BY <2>5 DEF MarkFailed, markCanonicalRebuildRequired, Present
    <3>2. \A r \in Results : fence'[r] = "none" => fence[r] = "none"
      BY <2>5 DEF MarkFailed, TypeOK
    <3> QED BY <1>1, <1>2, <2>5, <3>1, <3>2 DEF MarkFailed
  <2>6. CASE MarkFailedLost
    BY <1>2, <2>6 DEF MarkFailedLost
  <2> QED BY <1>4, <2>1, <2>2, <2>3, <2>4, <2>5, <2>6 DEF LiveNext
<1>5. CASE OperationNext
  <2>1. Present(dirty') \/ (dirty' = dirty /\ lake' = lake)
    BY <1>5 DEF OperationNext, StartMerge, MergeResult, MergeRefutation, MarkDirtyIfClean, Present,
                FinishDownload, FinishImport, AbortImport, StartManualRebuild, StartRecovery
  <2> QED BY <1>1, <1>2, <1>5, <2>1, OperationFrame
<1>6. CASE RebuildNext
  <2>1. lake' = lake
    BY <1>6, RebuildFrame
  <2>2. CASE PrepareStagingGeneration \/ SaveRebuilt
    <3>1. dirty'.owner = "current"
      <4>1. CASE PrepareStagingGeneration
        <5>1. PICK g \in Gens : dirty' = [gen |-> g, owner |-> "current"]
          BY <4>1 DEF PrepareStagingGeneration
        <5> QED BY <5>1
      <4>2. CASE SaveRebuilt
        BY <4>2 DEF SaveRebuilt, OwnsRebuild, Owns
      <4> QED BY <2>2, <4>1, <4>2
    <3> QED BY <3>1 DEF NoLostResult, Present
  <2>3. CASE ActivateStagingGeneration
    <3>1. rejected' = rejected
      BY <2>3 DEF ActivateStagingGeneration
    <3>2. TypeOK /\ RebuildInSlot /\ ReplayCovers
      OBVIOUS
    <3>3. \A r \in lake : fence'[r] = "none" => canon'[HandOf[r]] # NoHand \/ r \in rejected
      BY <2>3, <3>2, ActivationKeeps
    <3> QED BY <2>1, <3>1, <3>3 DEF NoLostResult
  <2>4. CASE CommitFullRebuild
    BY <2>1, <2>4, FullRebuildKeeps DEF NoLostResult
  <2>5. CASE UNCHANGED <<dirty, canon, fence>> /\ rejected \subseteq rejected'
    BY <1>2, <2>1, <2>5
  <2> QED BY <1>6, <2>2, <2>3, <2>4, <2>5
          DEF RebuildNext, ListFences, SnapshotHands, ReadChunk, FailChunkedRebuild, SnapshotLake,
              FailFullRebuild
<1>7. CASE Restart
  <2>1. Present(dirty) => Present(dirty')
    BY <1>7 DEF Restart, Disown, Present
  <2>2. \A r \in Results : fence'[r] = "none" => fence[r] = "none"
    BY <1>7 DEF Restart
  <2>3. lake' = lake /\ canon' = canon /\ rejected' = rejected
    BY <1>7 DEF Restart
  <2>4. lake \subseteq Results
    BY DEF TypeOK
  <2> QED BY <2>1, <2>2, <2>3, <2>4 DEF NoLostResult
<1>8. CASE DeleteAllData
  BY <1>8 DEF DeleteAllData, NoLostResult
<1>9. CASE UNCHANGED <<lake, canon, fence, dirty, rejected>>
  BY <1>2, <1>9
<1> QED BY <1>4, <1>5, <1>6, <1>7, <1>8, <1>9, BaselineFrame, CollectFrame DEF Next, vars

LEMMA InitLake == Init => LakeInv
<1> SUFFICES ASSUME Init PROVE LakeInv
  OBVIOUS
<1>1. lake = LegacyLake /\ lake \in SUBSET Results /\ refuted = {} /\ canon = Replay(lake)
  BY DEF Init
<1>2. \A h \in Hands : canon[h] # NoHand => canon[h] \in lake
  <2> TAKE h \in Hands
  <2> DEFINE versions == {r \in lake \ refuted : HandOf[r] = h}
  <2>1. versions # {} => Last(versions) \in versions
    BY <1>1, LastType, versions \in SUBSET Results
  <2> QED BY <1>1, <2>1 DEF Replay
<1>3. \A r \in lake : canon[HandOf[r]] # NoHand
  <2> TAKE r \in lake
  <2> DEFINE versions == {s \in lake \ refuted : HandOf[s] = HandOf[r]}
  <2>1. r \in versions /\ versions \in SUBSET Results /\ HandOf[r] \in Hands
    BY <1>1
  <2>2. Last(versions) \in Results
    BY <2>1, LastType
  <2> HIDE DEF versions
  <2>3. canon[HandOf[r]] = Last(versions)
    BY <1>1, <2>1 DEF Replay, versions
  <2> QED BY <2>2, <2>3
<1>4. KnownFromLake
  BY <1>2 DEF Init, KnownFromLake, NoRebuild
<1>5. RebuildInSlot /\ ReplayCovers
  BY DEF Init, RebuildInSlot, ReplayCovers, NoRebuild
<1>6. NoLostResult
  BY <1>3 DEF NoLostResult
<1> QED BY <1>4, <1>5, <1>6 DEF LakeInv

\* While each hand is reported once, the Lake's part of the invariant is inductive too.
LEMMA LakeInductive ==
  ASSUME OneResultPerHand
  PROVE  Spec => []LakeInv
<1>1. IInv /\ LakeInv /\ [Next]_vars => LakeInv'
  BY KnownFromLakeStep, RebuildInSlotStep, ReplayCoversStep, NoLostResultStep
     DEF IInv, Structure, LakeInv
<1> QED BY <1>1, Inductive, InitLake, PTL DEF Spec

\* When each hand is reported once, a result in the Lake that no fence and no dirty marker
\* asks to rebuild is canonical or was refused, whatever aborts and wherever the worker dies.
THEOREM NoResultIsLost ==
  ASSUME OneResultPerHand
  PROVE  Spec => []NoLostResult
<1>1. LakeInv => NoLostResult
  BY DEF LakeInv
<1> QED BY <1>1, LakeInductive, PTL

\* When each hand is reported once, the cleanup of a chunked rebuild takes away no canonical
\* version that nothing refutes (auto-sync-service.ts 1785-1807).
THEOREM LiveHandsSurvive ==
  ASSUME OneResultPerHand
  PROVE  Spec => LiveHandsSurviveActivation
<1>1. ASSUME IInv, LakeInv, ActivateStagingGeneration,
             NEW h \in Hands, canon[h] \in Results \ refuted
      PROVE  canon'[h] # NoHand
  <2>1. canon[h] \in lake /\ HandOf[canon[h]] = h
    BY <1>1 DEF LakeInv, KnownFromLake, IInv, Structure, CanonicalOfItsHand
  <2>2. h \notin rb.prev \ rb.done
    BY <1>1, <2>1, ActivationKeeps DEF IInv, LakeInv
  <2> QED BY <1>1, <2>2 DEF ActivateStagingGeneration
<1>2. IInv /\ LakeInv /\ [Next]_vars =>
        [ActivateStagingGeneration =>
           \A h \in Hands : canon[h] \in Results \ refuted => canon'[h] # NoHand]_vars
  BY <1>1
<1> QED BY <1>2, Inductive, LakeInductive, PTL DEF Spec, LiveHandsSurviveActivation
=============================================================================
