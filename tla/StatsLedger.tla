---------------------------- MODULE StatsLedger ----------------------------
(***************************************************************************)
(* The statistics ledger of the HUD and everything that writes the          *)
(* canonical hand tables it is derived from: live ingestion of raw results, *)
(* the WriteEntityStream commit, lazy per-player baselines, the chunked     *)
(* rebuild after a cloud download or a crash, the full rebuild of an import *)
(* or of the popup's button, the generation GC, and restarts of the MV3     *)
(* service worker between any two IndexedDB transactions.                   *)
(*                                                                         *)
(* One action is one IndexedDB transaction (or one read).  A hand version   *)
(* is named by the raw EVT_HAND_RESULTS row it was derived from; a counter  *)
(* vector is modelled by the multiset of hand versions summed in it, of     *)
(* which every real counter is a linear image.                              *)
(***************************************************************************)
EXTENDS Integers, FiniteSets, Sequences

CONSTANTS
  Results,        \* raw EVT_HAND_RESULTS rows, numbered in Raw Event Lake order
  Hands,          \* HandIds
  Players,
  Builders,       \* concurrent baseline batches of one service worker
  HandOf,         \* the HandId a raw result is about
  Lineup,         \* the players seated in the hand version of a raw result
  CellOf,         \* its battle x table cell and sort key in the latest-500 window
  Chimeras,       \* results a table-move row, still only elsewhere, would refute
  LegacyLake,     \* the raw results of the database before the ledger existed
  ChunkSize,      \* SYNC_CHUNK_SIZE
  Operations,     \* bound: the long operations that are ever asked for
  MaxGeneration,  \* bound on generation numbers
  MaxRevision,    \* bound on canonical revisions
  NoHand, NoBuild, Torn

\* The rows are numbered from 1 and there are finitely many.
ASSUME ResultsAssumption ==
  /\ Results \subseteq Nat \ {0}
  /\ \A R \in SUBSET Results : R # {} => \E r \in R : \A s \in R : s <= r
ASSUME DataAssumption ==
  /\ HandOf \in [Results -> Hands]
  /\ Lineup \in [Results -> SUBSET Players]
  /\ Chimeras \subseteq Results
  /\ LegacyLake \subseteq Results
  /\ NoHand \notin Results
  /\ Torn \notin Results
  /\ NoBuild \notin Builders
ASSUME BoundsAssumption ==
  /\ ChunkSize \in Nat \ {0}
  /\ MaxGeneration \in Nat
  /\ MaxRevision \in Nat

Gens == 0..MaxGeneration
NoGen == -1
Keys == Results \cup {Torn}

VARIABLES
  \* IndexedDB
  lake,      \* raw results in apiEvents
  refuted,   \* chimeras whose missing table-move row has reached apiEvents
  canon,     \* hands/actions/phases: the version each HandId holds
  fence,     \* pending hand-derivation fence of each raw result
  head,      \* active generation
  staging,   \* staging marker
  dirty,     \* canonical-rebuild marker
  revision,  \* canonical revision
  agg,       \* statPlayerAggregates
  rows,      \* statHandContributions
  \* memory of the service worker
  pipeline,  \* raw results handed to the live stream, oldest first
  failing,   \* the WES catch block is marking the head of the pipeline
  forced,    \* forcedCanonicalRecoveryFenceIds
  op,        \* the long-operation slot
  rb,        \* the chunked rebuild
  snap,      \* the Lake snapshot a full rebuild converted
  bld,       \* baseline batches
  \* history
  rejected,  \* results whose derivation was deliberately refused
  hybrid     \* a rebuild has replaced some canonical hands and not finished

durable == <<lake, refuted, canon, fence, head, staging, dirty, revision, agg, rows>>
markers == <<staging, dirty>>
ledger == <<agg, rows>>
live == <<pipeline, failing, forced>>
rebuilds == <<op, rb, snap>>
history == <<rejected, hybrid>>
vars == <<lake, refuted, canon, fence, head, staging, dirty, revision, agg, rows,
          pipeline, failing, forced, op, rb, snap, bld, rejected, hybrid>>

-----------------------------------------------------------------------------
\* Markers carry the boot id of their writer; only "mine or not" is ever asked.
NoMarker == [gen |-> NoGen, owner |-> "none"]
Marker == [gen : Gens \cup {NoGen}, owner : {"none", "current", "former"}]
Present(m) == m.owner # "none"
Owns(m, g) == m.owner = "current" /\ m.gen = g
DisownByDropping(m) == IF m.owner = "current" THEN NoMarker ELSE m  \* mutant
Disown(m) == IF m.owner = "current" THEN [m EXCEPT !.owner = "former"] ELSE m

InterruptedFences == {r \in Results : fence[r] = "interrupted"}
HasStagingOrFenceMarker == Present(staging) \/ InterruptedFences # {}  \* mutant
HasCanonicalRebuildMarker ==
  Present(dirty) \/ Present(staging) \/ InterruptedFences # {}

Zero == [k \in Keys |-> 0]
TotalsOf(S) == [k \in Keys |-> IF k \in S THEN 1 ELSE 0]
NoAggregate == [here |-> FALSE, ready |-> FALSE, build |-> NoBuild, totals |-> Zero]
Aggregate(ready, build, totals) ==
  [here |-> TRUE, ready |-> ready, build |-> build, totals |-> totals]

\* What a baseline derives for p from the hand rows and the child rows it read;
\* a hand whose children belong to another version contributes garbage.
Derived(hands, children, p) ==
  LET Seats(r) == hands[HandOf[r]] = r /\ p \in Lineup[r]
      Whole(r) == children[HandOf[r]] = r
  IN {r \in Results : Seats(r) /\ Whole(r)}
       \cup {t \in {Torn} : \E r \in Results : Seats(r) /\ ~Whole(r)}
Contributions(p) == Derived(canon, canon, p)

\* The canonical tables a replay of the raw results R produces.
Last(R) == CHOOSE r \in R : \A s \in R : s <= r
Replay(R) ==
  [h \in Hands |->
     LET versions == {r \in R \ refuted : HandOf[r] = h}
     IN IF versions = {} THEN NoHand ELSE Last(versions)]

Occupied(g) == \E p \in Players : agg[g][p].here \/ rows[g][p] # {}
\* max(Date.now(), candidates, generations on disk) + 1
NextGeneration(g, candidates) ==
  /\ g \in Gens
  /\ \A c \in candidates : c < g
  /\ \A k \in Gens : Occupied(k) => k < g
EnsureActiveHead(g) ==
  IF head # NoGen THEN g = head ELSE NextGeneration(g, {staging.gen})

\* bumpCanonicalRevision, in the transaction of every canonical change
BumpCanonicalRevision == revision < MaxRevision /\ revision' = revision + 1

NoRebuild == [pc |-> "idle", gen |-> NoGen, explicit |-> {}, fences |-> {}, prev |-> {},
              done |-> {}, cursor |-> 0, batch |-> {}, end |-> FALSE]
NoBaseline == [pc |-> "idle", todo |-> {}, force |-> FALSE, gen |-> NoGen, rev |-> 0,
               got |-> {}, hands |-> [h \in Hands |-> NoHand],
               children |-> [h \in Hands |-> NoHand], todoRows |-> {}]

Init ==
  /\ lake = LegacyLake
  /\ refuted = {}
  /\ canon = Replay(LegacyLake)
  /\ fence = [r \in Results |-> "none"]
  /\ head = NoGen
  /\ staging = NoMarker
  /\ dirty = NoMarker
  /\ revision = 0
  /\ agg = [g \in Gens |-> [p \in Players |-> NoAggregate]]
  /\ rows = [g \in Gens |-> [p \in Players |-> {}]]
  /\ pipeline = <<>>
  /\ failing = FALSE
  /\ forced = {}
  /\ op = "idle"
  /\ rb = NoRebuild
  /\ snap = {}
  /\ bld = [b \in Builders |-> NoBaseline]
  /\ rejected = {}
  /\ hybrid = FALSE

-----------------------------------------------------------------------------
\* Live ingestion: the raw row and its fence are one commit, then the event is
\* handed to the stream.  A row already in the Lake is dropped.
IngestResult(r) ==
  /\ r \notin lake
  /\ lake' = lake \cup {r}
  /\ fence' = [fence EXCEPT ![r] = IF @ = "none" THEN "pending" ELSE @]
  /\ pipeline' = Append(pipeline, r)
  /\ UNCHANGED <<refuted, canon, head, markers, revision, ledger, failing, forced,
                 rebuilds, bld, history>>

Writing == pipeline # <<>> /\ ~failing

\* replaceHandsInGeneration: the rows and the aggregate of p once hand h holds
\* version r in generation g; prev is the version it held.
OldRows(g, h, p) == {o \in rows[g][p] \cap Results : HandOf[o] = h}
NewRow(r, p) == {s \in {r} : p \in Lineup[s]}
NoOldContributions(g, h, p, prev) == {}  \* mutant
OldContributions(g, h, p, prev) ==
  IF prev = NoHand THEN OldRows(g, h, p) ELSE {s \in {prev} : p \in Lineup[s]}
InvalidWindow(g, h, p, r) ==
  \E o \in OldRows(g, h, p) : p \notin Lineup[r] \/ CellOf[o] # CellOf[r]
Moved(totals, old, new) ==
  [k \in Keys |-> totals[k] - TotalsOf(old)[k] + TotalsOf(new)[k]]
ReplacedAggregate(g, h, p, prev, r, fresh) ==
  LET old == OldContributions(g, h, p, prev)
      a == agg[g][p]
  IN IF old = {} /\ NewRow(r, p) = {} THEN a
     ELSE IF ~InvalidWindow(g, h, p, r) /\ a.here /\ a.build = NoBuild
          THEN [a EXCEPT !.totals = Moved(a.totals, old, NewRow(r, p))]
          ELSE Aggregate(fresh /\ ~a.here, NoBuild, TotalsOf(NewRow(r, p)))

\* The WES transaction: canonical tables, ledger and fence of one hand.
CommitHand ==
  LET r == Head(pipeline)
      h == HandOf[r]
      prev == canon[h]
      fresh == head = NoGen /\ \A k \in Hands : canon[k] # NoHand => k = h
  IN /\ Writing
     /\ \E g \in Gens :
          /\ EnsureActiveHead(g)
          /\ head' = g
          /\ rows' = [rows EXCEPT ![g] =
                        [p \in Players |-> (@[p] \ OldRows(g, h, p)) \cup NewRow(r, p)]]
          /\ agg' = [agg EXCEPT ![g] =
                       [p \in Players |-> ReplacedAggregate(g, h, p, prev, r, fresh)]]
     /\ canon' = [canon EXCEPT ![h] = r]
     /\ BumpCanonicalRevision
     /\ fence' = [fence EXCEPT ![r] = "none"]
     /\ pipeline' = Tail(pipeline)
     /\ UNCHANGED <<lake, refuted, markers, failing, forced, rebuilds, bld, history>>

\* A hand without its deal, across port generations or fused by a table move.
RejectHand ==
  /\ Writing
  /\ fence' = [fence EXCEPT ![Head(pipeline)] = "none"]
  /\ rejected' = rejected \cup {Head(pipeline)}
  /\ pipeline' = Tail(pipeline)
  /\ UNCHANGED <<lake, refuted, canon, head, markers, revision, ledger, failing, forced,
                 rebuilds, bld, hybrid>>

\* The WES transaction aborts and rolls back; the catch block runs next.
FailHand ==
  /\ Writing
  /\ failing' = TRUE
  /\ UNCHANGED <<durable, pipeline, forced, rebuilds, bld, history>>

LeavePipelineForgotten ==  \* mutant
  failing' = FALSE /\ pipeline' = Tail(pipeline) /\ forced' = forced
\* The error the stream emits makes the recovery scheduler remember the fence.
LeavePipeline ==
  /\ failing' = FALSE
  /\ pipeline' = Tail(pipeline)
  /\ forced' = forced \cup {Head(pipeline)}

\* The marker is put, unless it is that of a rebuild of this boot.
markCanonicalRebuildRequired ==
  dirty' = IF Owns(staging, dirty.gen) /\ dirty.owner = "current" THEN dirty
           ELSE [gen |-> NoGen, owner |-> "current"]
\* markPendingHandDerivationFailed, or the global marker when the fence is gone
MarkFailed ==
  LET r == Head(pipeline)
  IN /\ failing
     /\ IF fence[r] # "none"
        THEN /\ fence' = [fence EXCEPT ![r] = "interrupted"]
             /\ dirty' = dirty
        ELSE /\ fence' = fence
             /\ markCanonicalRebuildRequired
     /\ LeavePipeline
     /\ UNCHANGED <<lake, refuted, canon, head, staging, revision, ledger, rebuilds, bld,
                    history>>

\* The marker cannot be written either; it is logged and swallowed.
MarkFailedLost ==
  /\ failing
  /\ LeavePipeline
  /\ UNCHANGED <<durable, rebuilds, bld, history>>

-----------------------------------------------------------------------------
\* Long operations.  Each claims the slot while it is idle.
Claim(o) == op = "idle" /\ op' = o
Release == op' = "idle" /\ rb' = NoRebuild /\ snap' = {}

StartMerge(o) ==
  /\ o \in Operations \cap {"download", "import"}
  /\ Claim(o)
  /\ UNCHANGED <<durable, live, rb, snap, bld, history>>

\* A page of a cloud download or of an import: rows and dirty marker, one commit.
MarkDirtyIfClean ==
  dirty' = IF Present(dirty) THEN dirty ELSE [gen |-> NoGen, owner |-> "current"]
MergeResult(r) ==
  /\ op \in {"download", "import"}
  /\ r \notin lake
  /\ lake' = lake \cup {r}
  /\ MarkDirtyIfClean
  /\ UNCHANGED <<refuted, canon, fence, head, staging, revision, ledger, live, rebuilds,
                 bld, history>>
MergeRefutation(r) ==
  /\ op \in {"download", "import"}
  /\ r \in Chimeras \ refuted
  /\ refuted' = refuted \cup {r}
  /\ MarkDirtyIfClean
  /\ UNCHANGED <<lake, canon, fence, head, staging, revision, ledger, live, rebuilds, bld,
                 history>>

BeginChunked(explicit) ==
  op' = "chunked" /\ rb' = [NoRebuild EXCEPT !.pc = "prepare", !.explicit = explicit]

\* A download, complete or cut short, is followed by a rebuild.
FinishDownload ==
  /\ op = "download"
  /\ BeginChunked({})
  /\ UNCHANGED <<durable, live, snap, bld, history>>
FinishImport ==
  /\ op = "import"
  /\ op' = "full"
  /\ UNCHANGED <<durable, live, rb, snap, bld, history>>
\* Nothing new in the file, or the import threw after some of its pages.
AbortImport ==
  /\ op = "import"
  /\ op' = "idle"
  /\ UNCHANGED <<durable, live, rb, snap, bld, history>>

StartManualRebuild ==
  /\ "full" \in Operations
  /\ Claim("full")
  /\ UNCHANGED <<durable, live, rb, snap, bld, history>>

\* Boot and the sync preamble recover what the markers ask for; the scheduler, after
\* a failed WES transaction, also the fences it remembers.
StartRecovery ==
  /\ "recovery" \in Operations
  /\ op = "idle"
  /\ \E explicit \in SUBSET forced :
       /\ HasCanonicalRebuildMarker \/ explicit # {}
       /\ BeginChunked(explicit)
  /\ UNCHANGED <<durable, live, snap, bld, history>>

-----------------------------------------------------------------------------
\* rebuildLocalEntities, one transaction at a time.
PrepareStagingGeneration ==
  /\ rb.pc = "prepare"
  /\ \E active \in Gens, g \in Gens :
       /\ EnsureActiveHead(active)
       /\ NextGeneration(g, {active, staging.gen})
       /\ head' = active
       /\ staging' = [gen |-> g, owner |-> "current"]
       /\ dirty' = [gen |-> g, owner |-> "current"]
       /\ rb' = [rb EXCEPT !.pc = "list", !.gen = g]
  /\ UNCHANGED <<lake, refuted, canon, fence, revision, ledger, live, op, snap, bld,
                 history>>

ListFences ==
  /\ rb.pc = "list"
  /\ rb' = [rb EXCEPT !.pc = "snapshot", !.fences = InterruptedFences \cup rb.explicit]
  /\ UNCHANGED <<durable, live, op, snap, bld, history>>

SnapshotAnyHand ==  \* mutant
  /\ rb.pc = "snapshot"
  /\ rb' = [rb EXCEPT !.pc = "replay", !.prev = Hands]
  /\ UNCHANGED <<durable, live, op, snap, bld, history>>
SnapshotHands ==
  /\ rb.pc = "snapshot"
  /\ rb' = [rb EXCEPT !.pc = "replay", !.prev = {h \in Hands : canon[h] # NoHand}]
  /\ UNCHANGED <<durable, live, op, snap, bld, history>>

\* processInReplayChunks: the next rows above the cursor; a short page is the last.
ReadChunk ==
  LET above == {r \in lake : r > rb.cursor}
      chunk == {r \in above : Cardinality({s \in above : s <= r}) <= ChunkSize}
      kept == chunk \ refuted
  IN /\ rb.pc = "replay" /\ rb.batch = {} /\ ~rb.end
     /\ rb' = [rb EXCEPT !.batch = kept,
                         !.done = @ \cup {HandOf[r] : r \in kept},
                         !.cursor = IF chunk = {} THEN @ ELSE Last(chunk),
                         !.end = Cardinality(chunk) < ChunkSize]
     /\ rejected' = rejected \cup (chunk \cap refuted)
     /\ UNCHANGED <<durable, live, op, snap, bld, hybrid>>

\* The staging and canonical markers still belong to this rebuild.
OwnsRebuild == Owns(staging, rb.gen) /\ Owns(dirty, rb.gen)

\* saveRebuiltEntities with appendStagingEntityBundle
SaveRebuilt ==
  /\ OwnsRebuild
  /\ \E r \in rb.batch :
       /\ \A s \in rb.batch : r <= s
       /\ canon' = [canon EXCEPT ![HandOf[r]] = r]
       /\ rb' = [rb EXCEPT !.batch = @ \ {r}]
  /\ BumpCanonicalRevision
  /\ hybrid' = TRUE
  /\ UNCHANGED <<lake, refuted, fence, head, markers, ledger, live, op, snap, bld,
                 rejected>>

\* clearPendingHandDerivationFenceIds: these and no others.
ClearFencesByPrefix(ids) == fence' = [r \in Results |-> "none"]  \* mutant
ClearFences(ids) == fence' = [r \in Results |-> IF r \in ids THEN "none" ELSE fence[r]]

\* Stale hands go, the empty staging generation becomes the head.
ActivateStagingGeneration ==
  /\ rb.pc = "replay" /\ rb.batch = {} /\ rb.end
  /\ OwnsRebuild
  /\ ~Occupied(rb.gen)
  /\ canon' = [h \in Hands |-> IF h \in rb.prev \ rb.done THEN NoHand ELSE canon[h]]
  /\ BumpCanonicalRevision
  /\ head' = rb.gen
  /\ ClearFences(rb.fences)
  /\ staging' = NoMarker
  /\ dirty' = NoMarker
  /\ forced' = forced \ rb.explicit
  /\ hybrid' = FALSE
  /\ Release
  /\ UNCHANGED <<lake, refuted, ledger, pipeline, failing, bld, rejected>>

\* Any step throws; abandonStagingGeneration is best effort.
FailChunkedRebuild ==
  /\ op = "chunked"
  /\ \/ staging' = staging
     \/ Owns(staging, rb.gen) /\ head # rb.gen /\ staging' = NoMarker
  /\ Release
  /\ UNCHANGED <<lake, refuted, canon, fence, head, dirty, revision, ledger, live, bld,
                 history>>

\* performFullRebuild: convert a snapshot in memory, then replace everything in one
\* transaction that starts over when rows were added since.
SnapshotLake ==
  /\ op = "full"
  /\ snap' = lake
  /\ UNCHANGED <<durable, live, op, rb, bld, history>>
FullRebuildRows == IF Cardinality(lake) = Cardinality(snap) THEN snap ELSE lake
CommitFullRebuild ==
  /\ op = "full"
  /\ canon' = Replay(FullRebuildRows)
  /\ rejected' = rejected \cup (FullRebuildRows \cap refuted)
  /\ \E g \in Gens : NextGeneration(g, {head, staging.gen}) /\ head' = g
  /\ BumpCanonicalRevision
  /\ fence' = [r \in Results |-> "none"]
  /\ staging' = NoMarker
  /\ dirty' = NoMarker
  /\ hybrid' = FALSE
  /\ Release
  /\ UNCHANGED <<lake, refuted, ledger, live, bld>>
FailFullRebuild ==
  /\ op = "full"
  /\ Release
  /\ UNCHANGED <<durable, live, bld, history>>

-----------------------------------------------------------------------------
\* Lazy baselines.  A batch that is not forced leaves a player already in flight
\* to the batch building it.
InFlight(ps) == \E b \in Builders : bld[b].pc # "idle" /\ ~bld[b].force /\ bld[b].todo \cap ps # {}

\* getActiveHead() ?? ensureActiveHead()
StartBaseline(b, ps, force) ==
  /\ bld[b].pc = "idle"
  /\ ps # {}
  /\ force \/ ~InFlight(ps)
  /\ \E g \in Gens :
       /\ EnsureActiveHead(g)
       /\ head' = g
       /\ bld' = [bld EXCEPT ![b] = [NoBaseline EXCEPT !.pc = "inspect", !.todo = ps,
                                                       !.force = force, !.gen = g]]
  /\ UNCHANGED <<lake, refuted, canon, fence, markers, revision, ledger, live, rebuilds,
                 history>>

\* Revision, dirtiness and aggregates in one read transaction.
InspectBaseline(b) ==
  LET required == {p \in bld[b].todo : bld[b].force \/ ~agg[bld[b].gen][p].ready}
  IN /\ bld[b].pc = "inspect"
     /\ bld' = [bld EXCEPT ![b] =
                  IF required = {} \/ HasCanonicalRebuildMarker THEN NoBaseline
                  ELSE [@ EXCEPT !.pc = "scan", !.todo = required, !.rev = revision]]
     /\ UNCHANGED <<durable, live, rebuilds, history>>

\* The hand rows and their children are read by separate transactions.
ScanHands(b) ==
  /\ bld[b].pc = "scan" /\ "hands" \notin bld[b].got
  /\ bld' = [bld EXCEPT ![b].hands = canon, ![b].got = @ \cup {"hands"}]
  /\ UNCHANGED <<durable, live, rebuilds, history>>
ScanChildren(b) ==
  /\ bld[b].pc = "scan" /\ "children" \notin bld[b].got
  /\ bld' = [bld EXCEPT ![b].children = canon, ![b].got = @ \cup {"children"}]
  /\ UNCHANGED <<durable, live, rebuilds, history>>

\* The players of a batch are published one after the other.
Target(b) == CHOOSE p \in bld[b].todo : TRUE
Scanned(b) == Derived(bld[b].hands, bld[b].children, Target(b))
Finish(b) ==
  IF bld[b].todo = {Target(b)} THEN NoBaseline
  ELSE [bld[b] EXCEPT !.pc = "scan", !.todo = @ \ {Target(b)}]

BaselineFenceWithoutRevision(b) ==  \* mutant
  head = bld[b].gen /\ ~HasCanonicalRebuildMarker
\* assertBaselineFence
BaselineFence(b) ==
  /\ head = bld[b].gen
  /\ revision = bld[b].rev
  /\ ~HasCanonicalRebuildMarker
BuildFence(b) ==
  LET a == agg[bld[b].gen][Target(b)]
  IN BaselineFence(b) /\ a.here /\ ~a.ready /\ a.build = b

InitializeBaseline(b) ==
  LET g == bld[b].gen
      p == Target(b)
  IN /\ bld[b].pc = "scan" /\ bld[b].got = {"hands", "children"}
     /\ BaselineFence(b)
     /\ IF agg[g][p].ready /\ ~bld[b].force
        THEN bld' = [bld EXCEPT ![b] = Finish(b)] /\ agg' = agg
        ELSE /\ bld' = [bld EXCEPT ![b].pc = "delete"]
             /\ agg' = [agg EXCEPT ![g][p] = Aggregate(FALSE, b, Zero)]
     /\ UNCHANGED <<lake, refuted, canon, fence, head, markers, revision, rows, live,
                    rebuilds, history>>

DeleteBaselineRows(b) ==
  LET g == bld[b].gen
      p == Target(b)
  IN /\ bld[b].pc = "delete"
     /\ BuildFence(b)
     /\ \E k \in rows[g][p] : rows' = [rows EXCEPT ![g][p] = @ \ {k}]
     /\ UNCHANGED <<lake, refuted, canon, fence, head, markers, revision, agg, live,
                    rebuilds, bld, history>>

\* A chunk shorter than BASELINE_WRITE_CHUNK_SIZE ends the deletion.
BeginBaselineWrites(b) ==
  /\ bld[b].pc = "delete"
  /\ BuildFence(b)
  /\ rows[bld[b].gen][Target(b)] = {}
  /\ bld' = [bld EXCEPT ![b].pc = "write", ![b].todoRows = Scanned(b)]
  /\ UNCHANGED <<durable, live, rebuilds, history>>

WriteBaselineRows(b) ==
  /\ bld[b].pc = "write"
  /\ BuildFence(b)
  /\ \E k \in bld[b].todoRows :
       /\ rows' = [rows EXCEPT ![bld[b].gen][Target(b)] = @ \cup {k}]
       /\ bld' = [bld EXCEPT ![b].todoRows = @ \ {k}]
  /\ UNCHANGED <<lake, refuted, canon, fence, head, markers, revision, agg, live, rebuilds,
                 history>>

PublishBaseline(b) ==
  /\ bld[b].pc = "write" /\ bld[b].todoRows = {}
  /\ BuildFence(b)
  /\ agg' = [agg EXCEPT ![bld[b].gen][Target(b)] =
               Aggregate(TRUE, NoBuild, TotalsOf(Scanned(b)))]
  /\ bld' = [bld EXCEPT ![b] = Finish(b)]
  /\ UNCHANGED <<lake, refuted, canon, fence, head, markers, revision, rows, live, rebuilds,
                 history>>

\* BaselineBuildSupersededError: the caller starts over, or gives up after 12 attempts.
SupersedeBaseline(b) ==
  /\ \/ bld[b].pc = "scan" /\ bld[b].got = {"hands", "children"} /\ ~BaselineFence(b)
     \/ bld[b].pc \in {"delete", "write"} /\ ~BuildFence(b)
  /\ bld' = [bld EXCEPT ![b] = NoBaseline]
  /\ UNCHANGED <<durable, live, rebuilds, history>>

-----------------------------------------------------------------------------
\* deleteOneInactiveGenerationChunk: contribution rows first, then aggregates.
CollectGeneration(g, p) ==
  /\ g \notin {head, staging.gen}
  /\ \/ /\ rows[g][p] # {}
        /\ rows' = [rows EXCEPT ![g][p] = {}]
        /\ agg' = agg
     \/ /\ \A q \in Players : rows[g][q] = {}
        /\ agg[g][p].here
        /\ agg' = [agg EXCEPT ![g][p] = NoAggregate]
        /\ rows' = rows
  /\ UNCHANGED <<lake, refuted, canon, fence, head, markers, revision, live, rebuilds, bld,
                 history>>

\* The memory a new service worker starts with.
ForgetMemory ==
  /\ pipeline' = <<>>
  /\ failing' = FALSE
  /\ forced' = {}
  /\ Release
  /\ bld' = [b \in Builders |-> NoBaseline]

\* The service worker dies between two transactions; the next one has a new boot id.
Restart ==
  /\ ForgetMemory
  /\ staging' = Disown(staging)
  /\ dirty' = Disown(dirty)
  /\ fence' = [r \in Results |-> IF fence[r] = "pending" THEN "interrupted" ELSE fence[r]]
  /\ UNCHANGED <<lake, refuted, canon, head, revision, ledger, history>>

\* deleteAllData drains ingestion and the streams, deletes the database, reloads.
DeleteAllData ==
  /\ op = "idle" /\ pipeline = <<>>
  /\ ForgetMemory
  /\ lake' = {} /\ refuted' = {} /\ rejected' = {} /\ hybrid' = FALSE
  /\ canon' = [h \in Hands |-> NoHand]
  /\ fence' = [r \in Results |-> "none"]
  /\ head' = NoGen /\ staging' = NoMarker /\ dirty' = NoMarker /\ revision' = 0
  /\ agg' = [g \in Gens |-> [p \in Players |-> NoAggregate]]
  /\ rows' = [g \in Gens |-> [p \in Players |-> {}]]

-----------------------------------------------------------------------------
LiveNext ==
  \/ \E r \in Results : IngestResult(r)
  \/ CommitHand
  \/ RejectHand
  \/ FailHand
  \/ MarkFailed
  \/ MarkFailedLost

OperationNext ==
  \/ \E o \in {"download", "import"} : StartMerge(o)
  \/ \E r \in Results : MergeResult(r) \/ MergeRefutation(r)
  \/ FinishDownload
  \/ FinishImport
  \/ AbortImport
  \/ StartManualRebuild
  \/ StartRecovery

RebuildNext ==
  \/ PrepareStagingGeneration
  \/ ListFences
  \/ SnapshotHands
  \/ ReadChunk
  \/ SaveRebuilt
  \/ ActivateStagingGeneration
  \/ FailChunkedRebuild
  \/ SnapshotLake
  \/ CommitFullRebuild
  \/ FailFullRebuild

BaselineNext(b) ==
  \/ \E ps \in SUBSET Players, force \in BOOLEAN : StartBaseline(b, ps, force)
  \/ InspectBaseline(b)
  \/ ScanHands(b)
  \/ ScanChildren(b)
  \/ InitializeBaseline(b)
  \/ DeleteBaselineRows(b)
  \/ BeginBaselineWrites(b)
  \/ WriteBaselineRows(b)
  \/ PublishBaseline(b)
  \/ SupersedeBaseline(b)

Next ==
  \/ LiveNext
  \/ OperationNext
  \/ RebuildNext
  \/ \E b \in Builders : BaselineNext(b)
  \/ \E g \in Gens, p \in Players : CollectGeneration(g, p)
  \/ Restart
  \/ DeleteAllData

Spec == Init /\ [][Next]_vars

-----------------------------------------------------------------------------
AggregateRecord ==
  [here : BOOLEAN, ready : BOOLEAN, build : Builders \cup {NoBuild}, totals : [Keys -> Int]]
RebuildRecord ==
  [pc : {"idle", "prepare", "list", "snapshot", "replay"}, gen : Gens \cup {NoGen},
   explicit : SUBSET Results, fences : SUBSET Results, prev : SUBSET Hands,
   done : SUBSET Hands, cursor : Nat, batch : SUBSET Results, end : BOOLEAN]
Canonical == [Hands -> Results \cup {NoHand}]
BaselineRecord ==
  [pc : {"idle", "inspect", "scan", "delete", "write"}, todo : SUBSET Players,
   force : BOOLEAN, gen : Gens \cup {NoGen}, rev : 0..MaxRevision,
   got : SUBSET {"hands", "children"}, hands : Canonical, children : Canonical,
   todoRows : SUBSET Keys]

\* Every variable stays in its type; fence and scheduler sets hold raw keys, never
\* HandIds, and generations and revisions stay within their bounds.
TypeOK ==
  /\ lake \subseteq Results
  /\ refuted \subseteq Chimeras
  /\ canon \in Canonical
  /\ fence \in [Results -> {"none", "pending", "interrupted"}]
  /\ head \in Gens \cup {NoGen}
  /\ staging \in Marker
  /\ dirty \in Marker
  /\ revision \in 0..MaxRevision
  /\ agg \in [Gens -> [Players -> AggregateRecord]]
  /\ rows \in [Gens -> [Players -> SUBSET Keys]]
  /\ pipeline \in Seq(Results)
  /\ failing \in BOOLEAN
  /\ forced \subseteq Results
  /\ op \in {"idle", "download", "import", "chunked", "full"}
  /\ rb \in RebuildRecord
  /\ snap \subseteq Results
  /\ bld \in [Builders -> BaselineRecord]
  /\ rejected \subseteq Results
  /\ hybrid \in BOOLEAN

\* What the HUD may show: with no rebuild pending, a ready aggregate of the active
\* generation sums exactly the canonical hands of its player, and its window rows
\* are theirs.  It takes an unfenced baseline, a torn scan, a double count on a
\* re-sent hand or a GC of the wrong generation to break it.
LedgerMatchesCanonical ==
  head # NoGen /\ ~Present(dirty) =>
    \A p \in Players : agg[head][p].ready =>
      /\ agg[head][p].totals = TotalsOf(Contributions(p))
      /\ rows[head][p] = Contributions(p)

\* The game reports each hand once; what the proofs about lost results assume.
OneResultPerHand == \A r, s \in Results : HandOf[r] = HandOf[s] => r = s

\* A rebuild that has replaced some hands and not others is never read into a
\* published aggregate, however it stopped.
NothingPublishedWhileHybrid ==
  [][hybrid /\ hybrid' =>
       \A p \in Players : agg'[head'][p].ready => agg[head][p].ready]_vars

\* No raw result is lost between the Lake and the canonical tables, whatever aborts
\* and wherever the worker dies: unless a fence or the dirty marker still asks for a
\* rebuild, its hand is canonical or was deliberately refused.
NoLostResult ==
  ~Present(dirty) =>
    \A r \in lake : fence[r] = "none" =>
      canon[HandOf[r]] # NoHand \/ r \in rejected

\* Recovery skips fences this worker still owns, so each of them must be on its way
\* through the stream or handed to the scheduler by name.
PendingFenceHasOwner ==
  \A r \in Results : fence[r] = "pending" =>
    r \in forced \/ \E i \in DOMAIN pipeline : pipeline[i] = r

\* The stale-hand cleanup of a chunked rebuild spares the hands live ingestion
\* completed while it ran: a canonical version nothing refutes survives activation.
LiveHandsSurviveActivation ==
  [][ActivateStagingGeneration =>
       \A h \in Hands : canon[h] \in Results \ refuted => canon'[h] # NoHand]_vars
=============================================================================
