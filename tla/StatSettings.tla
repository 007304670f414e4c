---------------------------- MODULE StatSettings ----------------------------
(***************************************************************************)
(* The statistics settings on their way from the popup to what the HUD     *)
(* counts: the options in synchronized storage, with the bucket of an older *)
(* version that is merged into them at the first read; the popup, which     *)
(* reads them when it opens and writes them at every change; the service    *)
(* worker, which reads them when it starts and is told of every change; and *)
(* ReadEntityStream, which asks the ledger with the filters the worker has. *)
(*                                                                         *)
(* A storage read is answered later than it is made: what is done with the  *)
(* answer is a step of its own.                                             *)
(***************************************************************************)
EXTENDS LedgerWindow, Sequences, FiniteSetsExt

CONSTANTS
  BattlesOf,      \* BATTLE_TYPE_FILTERS: the battle types of each game type
  Layers,         \* TABLE_SIZE_SLIDER_LAYERS
  Stats,          \* defaultStatDisplayConfigs: is the statistic enabled?
  Forced,         \* FORCED_ENABLED_STAT_IDS
  Positions,      \* POSITION_BUCKETS
  Offered,        \* handLimit choices of the popup
  OldOptions,     \* options that earlier versions may have left in storage
  MaxChanges,     \* bound: changes made in the popup
  MaxStarts,      \* bound: starts of the service worker
  MaxOpens        \* bound: openings of the popup

Nothing == [absent |-> TRUE]  \* no options

ASSUME SettingsAssumption ==
  /\ Layers \in Seq(Tables) /\ Offered \subseteq Nat \cup {All}
  /\ \A g \in DOMAIN BattlesOf : BattlesOf[g] \subseteq Known
  /\ \A o \in OldOptions :
       /\ DOMAIN o = {"gameTypes", "tableSize", "handLimit", "configs"}
       /\ o.gameTypes \subseteq DOMAIN BattlesOf /\ o.tableSize \subseteq Tables
       /\ o.handLimit \in Nat \cup {All}

VARIABLES
  stored,   \* chrome.storage.sync "options"
  bucket,   \* the fields of the older version's bucket
  popup,    \* [pc, read, shown]
  worker,   \* [pc, read]
  using,    \* the filters and the display configuration of the service
  sent,     \* updateBattleTypeFilter messages under way
  count,    \* changes, starts and opens so far
  raced     \* history: options were used that had changed since they were read

settings == <<stored, bucket, popup, worker, using, sent, count, raced>>
vars == <<ledger, settings>>

-----------------------------------------------------------------------------
\* Options: [gameTypes, tableSize, handLimit, configs].
GameTypes == DOMAIN BattlesOf
normalizeOptions(o) == IF o = Nothing THEN o ELSE [o EXCEPT !.handLimit = normalizeStatsLatestHands(@)]
mergeStatDisplayConfigs(configs) ==
  [s \in DOMAIN Stats |-> IF s \in DOMAIN configs THEN configs[s] ELSE Stats[s]]
Grown(o) == [o EXCEPT !.configs = mergeStatDisplayConfigs(@)]
needsConfigPersist(o) == Grown(o) # o
Defaults == [gameTypes |-> GameTypes, tableSize |-> Tables, handLimit |-> Latest, configs |-> Stats]

\* The slider holds an interval of layers; nothing selected is everything.
tableSizeFilterToRange(layers) ==
  LET chosen == {i \in DOMAIN Layers : Layers[i] \in layers}
  IN IF chosen = {} THEN <<1, Len(Layers)>> ELSE <<Min(chosen), Max(chosen)>>
rangeToTableSizeFilter(range) == {Layers[i] : i \in range[1] .. range[2]}
Rounded(o) == [o EXCEPT !.tableSize = rangeToTableSizeFilter(tableSizeFilterToRange(@))]

\* setBattleTypeFilter, and the same conversion when the worker starts.
selectedTableSizeLayers(layers) == IF layers \in {{}, Tables} THEN All ELSE layers
battleTypesOf(gameTypes) ==
  IF gameTypes = {} THEN All ELSE UNION {BattlesOf[g] : g \in gameTypes}
setBattleTypeFilter(o) ==
  [battleTypes |-> battleTypesOf(o.gameTypes),
   tableSizeLayers |-> selectedTableSizeLayers(o.tableSize),
   latestHands |-> o.handLimit,
   configs |-> mergeStatDisplayConfigs(o.configs)]
NoFilters == [battleTypes |-> All, tableSizeLayers |-> All, latestHands |-> All, configs |-> Stats]

\* loadOptions: the flat options win over the bucket.
Merged(read) == normalizeOptions(IF read.flat = Nothing THEN read.bucket ELSE read.flat)
MustSave(read) == read.bucket # Nothing \/ Merged(read) # read.flat
Stale(read) ==
  LET o == Merged(read)
  IN stored \notin {read.flat, o} \cup (IF o = Nothing THEN {} ELSE {Grown(o)})

Asking(reader) == [reader EXCEPT !.pc = "load", !.read = [flat |-> stored, bucket |-> bucket]]
\* It saves what it merged, then removes the bucket, and then returns.
Answered(reader) == reader.pc = "load" /\ ~MustSave(reader.read)
MigrationSaves(reader) ==
  /\ reader.pc = "load" /\ MustSave(reader.read)
  /\ stored' = Merged(reader.read)
  /\ raced' = (raced \/ Stale(reader.read))
MigrationRemovesBucket(reader) ==
  /\ reader.pc = "remove"
  /\ bucket' = Nothing
Saved(reader) ==
  [reader EXCEPT !.pc = IF reader.read.bucket = Nothing THEN "load" ELSE "remove",
                 !.read = [flat |-> Merged(reader.read), bucket |-> Nothing]]

NoRead == [flat |-> Nothing, bucket |-> Nothing]
Closed == [pc |-> "closed", read |-> NoRead, shown |-> Defaults]
Down == [pc |-> "down", read |-> NoRead]
Counted(what) == /\ count[what] < CASE what = "changes" -> MaxChanges
                                    [] what = "starts" -> MaxStarts
                                    [] what = "opens" -> MaxOpens
                 /\ count' = [count EXCEPT ![what] = @ + 1]
InitSettings ==
  /\ stored \in OldOptions \cup {Nothing}
  /\ bucket \in OldOptions \cup {Nothing}
  /\ popup = Closed /\ worker = Down /\ using = NoFilters /\ sent = <<>>
  /\ count = [what \in {"changes", "starts", "opens"} |-> 0]
  /\ raced = FALSE

-----------------------------------------------------------------------------
\* The service worker starts, and stops when nothing is left for it to do.
StartWorker ==
  /\ worker.pc = "down"
  /\ Counted("starts")
  /\ worker' = Asking(worker)
  /\ UNCHANGED <<stored, bucket, popup, using, sent, raced>>
StopWorker ==
  /\ worker.pc # "down" /\ sent = <<>>
  /\ worker' = Down
  /\ using' = NoFilters
  /\ UNCHANGED <<stored, bucket, popup, sent, count, raced>>
WorkerMigrates ==
  /\ MigrationSaves(worker)
  /\ worker' = Saved(worker)
  /\ UNCHANGED <<bucket, popup, using, sent, count>>
WorkerRemovesBucket ==
  /\ MigrationRemovesBucket(worker)
  /\ worker' = [worker EXCEPT !.pc = "load"]
  /\ UNCHANGED <<stored, popup, using, sent, count, raced>>
WorkerRestores ==
  /\ Answered(worker)
  /\ LET o == worker.read.flat
     IN /\ using' = IF o = Nothing THEN [using EXCEPT !.battleTypes = All, !.tableSizeLayers = All,
                                                      !.latestHands = Latest]
                    ELSE setBattleTypeFilter(o)
        /\ stored' = IF o # Nothing /\ needsConfigPersist(o) THEN Grown(o) ELSE stored
        /\ raced' = (raced \/ Stale(worker.read))
  /\ worker' = [Down EXCEPT !.pc = "up"]
  /\ UNCHANGED <<bucket, popup, sent, count>>
Deliver ==
  /\ worker.pc # "down" /\ sent # <<>>
  /\ using' = setBattleTypeFilter(Head(sent))
  /\ sent' = Tail(sent)
  /\ UNCHANGED <<stored, bucket, popup, worker, count, raced>>

-----------------------------------------------------------------------------
OpenPopup ==
  /\ popup.pc = "closed"
  /\ Counted("opens")
  /\ popup' = Asking(popup)
  /\ UNCHANGED <<stored, bucket, worker, using, sent, raced>>
ClosePopup ==
  /\ popup.pc # "closed"
  /\ popup' = Closed
  /\ UNCHANGED <<stored, bucket, worker, using, sent, count, raced>>
PopupMigrates ==
  /\ MigrationSaves(popup)
  /\ popup' = Saved(popup)
  /\ UNCHANGED <<bucket, worker, using, sent, count>>
PopupRemovesBucket ==
  /\ MigrationRemovesBucket(popup)
  /\ popup' = [popup EXCEPT !.pc = "load"]
  /\ UNCHANGED <<stored, worker, using, sent, count, raced>>
\* New statistics are saved only if some were configured; a gap between layers
\* cannot be shown by the slider, is closed and announced.
statConfigsGrew(o) ==
  /\ DOMAIN o.configs # {}
  /\ Cardinality(DOMAIN mergeStatDisplayConfigs(o.configs)) > Cardinality(DOMAIN o.configs)
PopupLoads ==
  /\ Answered(popup)
  /\ LET o == popup.read.flat
         grew == statConfigsGrew(o)
         gap == Rounded(o) # o
         shown == Grown(Rounded(o))
         migrated == [Rounded(o) EXCEPT !.configs = IF grew THEN shown.configs ELSE @]
     IN IF o = Nothing
        THEN popup' = [popup EXCEPT !.pc = "open", !.read = NoRead] /\ UNCHANGED <<stored, sent, raced>>
        ELSE /\ popup' = [pc |-> "open", read |-> NoRead, shown |-> shown]
             /\ stored' = IF grew \/ gap THEN migrated ELSE stored
             /\ sent' = IF gap THEN Append(sent, migrated) ELSE sent
             /\ raced' = (raced \/ Stale(popup.read))
  /\ UNCHANGED <<bucket, worker, using, count>>

\* The filters may be changed from the moment the popup is there.
saveAndBroadcastOptions(o) ==
  /\ popup.pc # "closed"
  /\ Counted("changes")
  /\ popup' = [popup EXCEPT !.shown = o]
  /\ stored' = normalizeOptions(o)
  /\ sent' = Append(sent, o)
  /\ UNCHANGED <<bucket, worker, using, raced>>
ChangeGameTypes == \E g \in GameTypes :
  saveAndBroadcastOptions([popup.shown EXCEPT !.gameTypes = IF g \in @ THEN @ \ {g} ELSE @ \cup {g}])
ChangeTableSize == \E i, j \in DOMAIN Layers :
  /\ i <= j
  /\ saveAndBroadcastOptions([popup.shown EXCEPT !.tableSize = rangeToTableSizeFilter(<<i, j>>)])
ChangeHandLimit == \E n \in Offered : saveAndBroadcastOptions([popup.shown EXCEPT !.handLimit = n])
ApplyStatChanges == \E s \in DOMAIN Stats :
  saveAndBroadcastOptions([popup.shown EXCEPT !.configs[s] = ~@])

NextSettings ==
  \/ StartWorker \/ StopWorker \/ WorkerMigrates \/ WorkerRemovesBucket \/ WorkerRestores \/ Deliver
  \/ OpenPopup \/ ClosePopup \/ PopupMigrates \/ PopupRemovesBucket \/ PopupLoads
  \/ ChangeGameTypes \/ ChangeTableSize \/ ChangeHandLimit \/ ApplyStatChanges

-----------------------------------------------------------------------------
\* ReadEntityStream.calculateStats: what is shown of the player.
getEffectiveStatDisplayConfigs == [s \in DOMAIN Stats |-> using.configs[s] \/ s \in Forced]
calculateStats ==
  LET read == readLineupSnapshots(using)
      filtered == using.battleTypes # All \/ using.tableSizeLayers # All
      nothingMatches == filtered /\ read.totalHands > 0 /\ read.matchedHandsBeforeLimit = 0
  IN [results |-> IF nothingMatches THEN {}
                  ELSE {s \in DOMAIN Stats : getEffectiveStatDisplayConfigs[s]},
      counters |-> read.counters]

\* The drill-down of the HUD asks for the player alone, with the same filters.
getPositionalStats ==
  LET snapshot == readLineupSnapshots(using)
  IN [p \in Positions |->
        IF \E b \in snapshot.positions : b.position = p
        THEN LET here == CHOOSE b \in snapshot.positions : b.position = p
             IN [handsN |-> here.handsN, counters |-> here.counters]
        ELSE [handsN |-> 0, counters |-> NoCounters]]

Init == InitLedger /\ InitSettings
Next == \/ NextLedger /\ UNCHANGED settings
        \/ NextSettings /\ UNCHANGED ledger
Spec == Init /\ [][Next]_vars

-----------------------------------------------------------------------------
\* The hands of the canonical tables the stored settings ask for, the newest first.
Wanted(o) ==
  {v \in Seated : /\ o.gameTypes = {} \/ \E g \in o.gameTypes : v.battle \in BattlesOf[g]
                  /\ o.tableSize \in {{}, Tables} \/ v.table \in o.tableSize}
Later(a, b) ==
  \/ a.time # Unknown /\ b.time = Unknown
  \/ a.time # Unknown /\ b.time # Unknown /\ a.time > b.time
  \/ a.time = b.time /\ a.handId > b.handId
Counts(o) == {v \in Wanted(o) : o.handLimit = All \/ Cardinality({w \in Wanted(o) : Later(w, v)}) < o.handLimit}
Settled == worker.pc = "up" /\ popup.pc \in {"closed", "open"} /\ sent = <<>> /\ ~raced
\* Once the settings have settled, what the HUD shows of a player sums exactly the
\* hands the popup's stored settings choose - the newest of them if there is a
\* limit - and the drill-down splits them by position, although the ledger keeps only
\* the newest rows of a battle type and layer, hands are sent again in another version
\* or leave, and the player's baseline may have to be built first (readPlayerAtHead,
\* setBattleTypeFilter, the restore in background.ts).
HudCountsTheChosenHands ==
  Settled =>
    LET o == IF stored = Nothing THEN [Defaults EXCEPT !.gameTypes = {}] ELSE stored
        chosen == Counts(o)
        shown == calculateStats
        split == getPositionalStats
    IN /\ shown.counters = SumOf(chosen)
       /\ shown.results =
            IF Seated # {} /\ Wanted(o) = {} THEN {}
            ELSE {s \in DOMAIN Stats : s \in Forced \/ mergeStatDisplayConfigs(o.configs)[s]}
       /\ \A p \in Positions :
            LET here == {v \in chosen : v.position = p}
            IN split[p] = [handsN |-> Cardinality(here), counters |-> SumOf(here)]
=============================================================================
