# A verification of the PokerChase HUD

TLA+ modules, TLC configurations and TLAPS proofs for the PokerChase HUD, a
Chrome MV3 extension that records the websocket events of an online poker
client, derives hands and player statistics from them, backs the raw events up
to Firestore and draws a HUD over the table. Everything here is translated from
the TypeScript under `src/src/` (the documents under `src/docs/` were read for
intent only).

Run a model with `tlc -workers 2 -config MCStatsLedger_recovery.cfg MCStatsLedger.tla`,
the proofs with `tlapm StatsLedgerProofs.tla`.

## 1. The system and its parts

| part | state it keeps | operations | talks to |
|---|---|---|---|
| Raw Event Lake (`utils/api-event-key.ts`, `db/poker-chase-db.ts`) | `apiEvents` rows keyed `[timestamp, ApiTypeId, sequence]`, upload floors in `meta` | `mergeApiEvents`, replay-ordered reads | every writer of raw events |
| Live ingestion (`background/event-ingestion.ts`) | the ingestion promise tail, session activity, counters of undecoded events | enqueue, store, dispatch to the streams | ports, lake, streams |
| Hand assembly (`streams/aggregate-events-stream.ts`, `entity-converter.ts`, `hand-log-processor.ts`) | the events of the hand in progress, port generation, transfer state, the log entries so far | one hand's events -> `Hand`, `Action[]`, `Phase[]`, log lines, live odds | WriteEntityStream, HUD |
| Canonical tables (`streams/write-entity-stream.ts`) | `hands`, `actions`, `phases` | one transaction per hand | ledger, fences |
| Statistics ledger (`stats/stat-ledger.ts`) | head, staging and canonical markers, pending fences, revision, contributions, aggregates, in-flight baselines | commit of a hand, lazy baselines, staging generations, GC | canonical tables, rebuilds, stats readers |
| Rebuild and recovery (`services/auto-sync-service.ts`, `background/import-export.ts`) | the operation slot, forced fence ids, recovery queue | chunked rebuild, full rebuild, import, delete all data | lake, ledger |
| Cloud backup (`services/auto-sync-service.ts`, `firestore-backup-service.ts`) | upload cursor, floors, the time of each account's last sync | upload, download, initialization | lake, accounts, Firestore |
| Accounts (`services/firebase-auth-service.ts`, `background/auto-sync-boot.ts`) | the live and the stored account, its generation, the chains of sign-ins and sign-outs | sign-in, sign-out, token refresh, restoration | Google, Firebase, storage, everyone who commits for an account |
| Ports (`background/ports.ts`, `active-port.ts`, `content_script.ts`) | connected ports, the active one, its generation | connect, disconnect, adopt, broadcast | ingestion, HUD |
| Forced update (`background/update-manager.ts`, `pending-storage-writes.ts`) | pending version, reload latch, storage tail | re-check, drain, reload | ingestion, operation slot |
| Replay import (`background/replay-*.ts`, `replay/*`, `replay_bridge.ts`) | account, run state, audit of the replay ledger, the page bridge's requests | list, fetch, import, pause, access revocation | page, lake, popup |
| Popup and settings (`background/message-router.ts`, `utils/*-storage.ts`, badges) | `chrome.storage` records, badges | messages | all of the above |
| HUD (`components/App.tsx`, `hud/RecentHandsPanel.tsx`, `services/recent-hands-service.ts`) | seats on display, the restored last table, an open panel; the cache of recent hands | messages and events from the ports | ports, popup, storage |
| Pure algorithms (`utils/hand-chip-accounting.ts`, `utils/position-utils.ts`, `realtime-stats/*`, `stats/*`) | none | functions of one hand | streams, ledger |
| Developer tools (`tools/verify-stats/*`) | none | a second computation of the statistics | exported events |
| Observability (`observability/*`) | error reports | | |

What is hard in this program: the service worker of an MV3 extension may be
stopped between any two IndexedDB transactions and comes back without its
memory; live ingestion goes on while an import, a download or a rebuild
rewrites the tables it writes to; statistics are derived lazily and read the
tables over many transactions; a raw row is the only durable thing and
everything else must be derivable from it again. Correct means: no raw event is
lost; every raw result ends in the canonical tables or leaves a durable marker
that asks for a rebuild; the statistics shown are the sum over exactly the
canonical hands; one long operation at a time; a reload never overtakes an
event or a write already accepted.

## 2. Modules and plan

Most important behaviour first. All of these are written:

1. `StatsLedger`: the ledger, the canonical tables and everything that writes
   them; `StatsLedgerProofs`.
2. `RawLake`: merging pages into the lake, sequence numbers and every copy of
   them; `LakeAndUpdateProofs` for all events, pages and interleavings.
3. `OperationSlot`: the single-flight queue of recovery requests over the
   operation slot, with liveness; it implements `ExclusiveOperation`;
   `SlotAndSessionProofs`.
4. `CloudUpload`: cursor, floors, crashes and account switches between pages;
   `CloudUploadProofs` for any lake, page size and history of sign-ins.
5. `ForcedUpdate`: ingestion and storage drains before the reload commit;
   `LakeAndUpdateProofs` for any number of checks at once.
6. `HandRecord`: one hand from the wire to the rows, composed of `HoldemTable`
   (the game, external), `ChipAccounting`, `HandStats`, `HandEntities`,
   `HandOracle`, `HandLog`, `HandExport`, `StatDefinitions`, `RecentHands` and
   `RealTimeStats`, over the values of `GameTypes`; `OddsProofs` for the odds of any deal.
7. `LiveHud` over `LiveApp`: ports, the queue of statistics, App and the panel;
   `LiveHudProofs` for the panel.
8. `ReplayImport` over `ReplayBridge`: the queue, the drain, the page's requests;
   `ReplayImportProofs`.
9. `StatSettings` over `LedgerWindow`: the window of newest rows, every filtered
   read, and the settings that choose the filters; `StatSettingsProofs` for any hands,
   window and settings.
10. `AuthService`, which implements `AccountSession`, and `AccountSync` over the
   latter; proved in `SlotAndSessionProofs` and `CloudUploadProofs`.

The abstract specifications: the ledger as a sum over the canonical hands
(`LedgerMatchesCanonical`), the operation slot as a mutex
(`ExclusiveOperation`), the account as others see it (`AccountSession`), the lake as a growing set, the played hand
(`HoldemTable`, which keeps the truth beside the wire), the hands a player
chose (`Counts` in `StatSettings`).

How the models meet. `OperationSlot` earns what `StatsLedger`, `CloudUpload`,
`RawLake` and `ReplayImport` take for granted, that one long operation runs at
a time. `HandRecord` shows what one result becomes; `StatsLedger` shows which
results are in the tables; `LedgerWindow` shows what a read of those rows
answers; `LiveHud` shows which answer reaches which seat.

Left to do, in this order: the order of lineups of `LiveHud` for any number of deals
(section 10 says what stands in the way); lemmas about the other folds of section 8;
the service context that a rebuild restores (`publishRebuiltServiceContext`) beside
live ingestion.

## 3. `StatsLedger`

One action is one IndexedDB transaction, or one read transaction, of the code:
Dexie transactions are atomic and isolated, and nothing else is. The worker may
be stopped (`Restart`) between any two of them.

| state | in the code |
|---|---|
| `lake`, `refuted` | `apiEvents` rows of EVT_HAND_RESULTS; the chimeras whose missing table-move row has been merged |
| `canon` | `hands`, `actions`, `phases`: for each HandId the raw result its stored version was derived from |
| `fence` | `meta` records of pending hand derivations: none, owned by this boot id, or interrupted |
| `head`, `staging`, `dirty`, `revision` | the four ledger records of `meta`; markers carry the boot id of their writer, of which only "mine or not" is asked |
| `agg`, `rows` | `statPlayerAggregates`, `statHandContributions` by generation and player |
| `pipeline`, `failing` | events handed to the live stream; the catch block of `WriteEntityStream` |
| `forced` | `forcedCanonicalRecoveryFenceIds` |
| `op`, `rb`, `snap` | the operation slot, the local variables of `rebuildLocalEntities`, the snapshot of `performFullRebuild` |
| `bld` | the baseline batches in flight, with their local variables |
| `rejected`, `hybrid` | history variables: results whose derivation was refused; a rebuild has replaced part of the tables |

A hand version is named by the raw result it was derived from and a counter
vector by the multiset of versions summed in it: every counter of the program is
a linear image of that multiset, so a double count, a lost hand or a torn pair
of hand and children (`Torn`) shows up in it. Generations stand for the
`Date.now()`-based numbers; only their order and freshness are used.

Abstractions to know about. A download that fetched nothing ends without a
rebuild in the code and with one in the model. The deletion of contribution rows
goes on one row at a time and the last, short chunk is merged with the step that
starts the writes. The drain loop removes the forced fence ids just after the
activation, the model with it. The window of the latest 500 rows per cell is not
modelled here (`rows` keeps all of them, as it does below 500 hands) but in
`LedgerWindow`, where in turn every write is one step.

Properties.

* `LedgerMatchesCanonical`: with no rebuild pending, a ready aggregate of the
  active generation sums exactly the canonical hands of its player.
* `NothingPublishedWhileHybrid`: nothing becomes ready while a rebuild has
  replaced part of the tables.
* `NoLostResult`: a raw result without fence and without dirty marker is
  canonical or was refused.
* `PendingFenceHasOwner`: recovery leaves alone the fences of its own worker, so
  such a fence must have a live owner.
* `LiveHandsSurviveActivation`: the stale-hand cleanup spares what live
  ingestion completed.

| run | instance | shows |
|---|---|---|
| `recovery` | 2 hands (1 of them a chimera and perhaps older than the ledger), 1 player, 1 batch, chunk of 1 row, a drain, a download, an import and a full rebuild, 1 new generation, 2 revisions | all five properties: baselines against live commits, GC and restarts; no lost result; owned fences; live hands survive; half a rebuild is never published |
| `concurrent` | 3 results for 2 hands, download | expected violation, see below |

Bounds. Two hands give an order between a processed and an unprocessed one; a
chunk of one row makes a replay of two rows take three chunks; one new
generation beside the initial one gives an active and a staging one and, after
the activation, a superseded one to collect; two revisions let a live commit
fall between the reads of a batch. Both initial lakes, empty and with a result
of an older version, are in the run. `recovery` and `concurrent` set
CHECK_DEADLOCK FALSE: the bounds on revisions and generations end behaviours
that the program would continue. Two batches over one player at once and a
second rebuild are beyond the instance: that neither publishes the other's rows
rests on the theorem `LedgerCorrect`, which is about any set of batches and any
number of generations. `concurrent` has the replacement of a version by another
one of its hand.

`concurrent` refutes a comment of the code (`auto-sync-service.ts:1785-1787`)
that says a hand completed concurrently by live ingestion "was not in the
snapshot and must remain intact". It holds when each hand is reported once (the
run `recovery`); when a result is sent again for a hand the snapshot holds and
the replay refuted, the new version is deleted with no marker left behind.

No fairness is assumed: every property of this module is a safety property.

## 4. `OperationSlot` and `ExclusiveOperation`

Long operations share one slot, `currentOperationState` of
`background/operation-state.ts`; nothing enforces that they respect it. The
module models everybody who claims it. One action is one synchronous stretch of
JavaScript, from one `await` to the next, so every gap in which somebody else
may run is a gap between two actions.

| state | in the code |
|---|---|
| `op` | `currentOperationState.type` |
| `session`, `job` | `currentImportSession`; the popup handler that is running |
| `sync`, `trigger` | how far `performSync` has got; the uploads of session boundaries waiting in `waitForOperationIdle` |
| `pass`, `drain`, `requested`, `forced` | `canonicalRecoveryPromise`, `canonicalRecoveryDrainPromise`, `canonicalRecoveryRequestPending`, `forcedCanonicalRecoveryFenceIds` |
| `dirty`, `marked`, `pending`, `listed` | the durable markers, of which this module only asks whether a recovery sees them, and the fences a running rebuild has listed |
| `silent`, `fresh`, `boot` | failed hands whose error event is on its way; results not yet committed; the recovery asked for at start |
| `ownPass` | history: fences a forced pass was started for |

`ExclusiveOperation` says what the slot promises: nobody holds it, or one
holder does, and it changes hands only through nobody. `OneHolderAtATime` maps
the slot to it: the transfer of an import file and its processing are one
holder, so are a sync and the recovery nested in it. `StatsLedger` takes this
for granted (its `op`), this module earns it.

Properties: the refinement `OneHolderAtATime`, and under fairness `HoldersAndWaitersSettle`
(`SlotReleased`, and `WaitingUploadsSettle`: every waiter is woken) and `FailedHandsRecovered`.
`SlotExclusive` (idle exactly when nobody runs, and never two at once) and
`SlotNamesItsHolder` (what makes the conditional releases of the `finally` blocks
right) are theorems and no longer checked by a run: they are the inductive
invariant of the refinement.

| run | instance | shows |
|---|---|---|
| `slot` | four instances in one run (`MCSpec`), all jobs and 1 restart in each: 1 failing result, 1 boundary, 2 requests, 2 failures; 2 results, 1 boundary, 1 request; 1 result, 2 boundaries, 1 request; 2 results, 2 boundaries | all three |

Bounds. Two requests let one holder meet another; two waiting uploads let the
removal of a listener skip one; two failing hands let a request fall into each
gap of the drain. Fairness: the event loop runs
every ready continuation, a running operation ends (its own awaits are IndexedDB
and network calls that settle) and the timer of an import transfer fires;
nothing obliges a user to ask for anything, a page to send a chunk, or a call to
fail. `FailedHandsRecovered` is stated without failing passes, because a failed
pass is retried only by the next request, sync or start of the worker.
CHECK_DEADLOCK is FALSE: a worker with nothing to do stops.

`ForcedRequestGetsItsPass` states a comment of `auto-sync-service.ts`, that a
forced request gets a pass of its own. TLC refutes it (add it as a PROPERTY to
`MCOperationSlot_slot.cfg`): when the pass it has joined rejects, the request ends
with it and its fence waits for the next request or the next start.

## 5. `CloudUpload`

The upload has no record of what was sent. A pass asks Firestore for its greatest
timestamp, the watermark, and reads the lake from there in pages
(`SYNC_CHUNK_SIZE`) that it sends in batches (`FIRESTORE_BATCH_SIZE`). What the
watermark would hide is protected by a floor per account in `meta`, and once
per account the whole history is offered again. One action is one transaction
on `meta` or `apiEvents`, one Firestore request, or one synchronous decision.

| state | in the code |
|---|---|
| `lake`, `clock` | `apiEvents`, a row being the number its primary key has in key order; the page's clock |
| `release` | which schema the extension parses with: a row parses from some release on |
| `cloud` | the documents of each account's collection (external) |
| `floor`, `done` | `syncUnparseableFloor:<uid>`, `syncUnparseableFloorBackfillDoneV2:<uid>` |
| `account`, `generation` | `getCurrentUser()`, `getAuthGeneration()` |
| `pass` | the identity snapshot and the local variables of `syncToCloud` and `syncToCloudBatch` |

`SwitchAccount` is a completed sign-in or sign-out (`commitSignIn`,
`performSignOut`), or one that failed and left the account as it was. A request
is made with the token of the user signed in at that moment, and Firestore
refuses to write one user's path with another's token (the project's rules are
not in the repository). Imports own the operation slot and so does a pass, hence
`ImportRows` needs `pass.pc = "none"`; that is what `OperationSlot` shows. Left
out: what `initialize()` and `lastSyncTime` do (section 12), the decision whether a
pass is worth starting, 401/429 retries inside one request, and downloads (their
merge and rebuild are in `StatsLedger`).

Properties.

* `OwnPassStrandsNothing`: no application row of the lake is outside the cloud,
  below the watermark and not protected by the floor, once the rewind has been
  spent, for every account outside `mixed` (below). It must hold in every state, because the worker may be stopped in every state.
* `BookkeepingStrandsNothing`: a write of a floor or a marker never strands a row,
  whoever was signed in during the pass.
* `EventuallyBackedUp`: what parses reaches the cloud of the account that stays.
* `NothingStranded`: the first one for every account. It does not hold, see below.

All except the rows of the history variable `late`. The cursor orders the
rows of one millisecond by `ApiTypeId`, not by arrival, so a live row of the
cursor's own millisecond may be stored behind it; when a later page of the same
pass uploads a newer row, no pass looks at the late one again. This gap needs
three rows of one millisecond and no failure; the code closes its two
neighbours (a page or a batch boundary inside a millisecond), which `prefix`
checks. The history variable `mixed` names the accounts of a pass that wrote
after the sign-in had changed, also if it has changed back by then. A clock set back under the watermark strands rows by the same
rule; the model's clock does not go back.

| run | instance | shows |
|---|---|---|
| `prefix` | 2 accounts, 3 rows (2 of one millisecond, 1 of those parses only after an update), clouds empty or with a newer row already sent by another device, pages of 2, batches of 1, 2 switches, 1 failure, 1 release, fair | the first three |

Bounds. Pages of two rows and batches of one put a page boundary inside and
outside the tied millisecond and stop a pass between two batches of it; two
switches allow A to B and back to A inside a pass; the initial states are all
lakes an install may have. Fairness: passes are asked for again and again
(session ends, the popup), and a pass that runs goes on; live rows, imports,
updates, failures and switches are not obliged to happen. The deadlock check is on.

`NothingStranded` is the invariant the code states for account switches
(`auto-sync-service.ts:192-196` and `298-299`). TLC refutes it (add it as an INVARIANT to
`MCCloudUpload_prefix.cfg`): `syncToCloudBatch` asks for the user anew
(`firestore-backup-service.ts:188`), and a page sent after the switch lands in the
other account above rows that account does not have. `OwnPassStrandsNothing` and `BookkeepingStrandsNothing` are the part of the
statement that holds: the gap is made by the upload, never by a floor or a
marker, and never by an account's own pass.

## 6. `RawLake`

The lake tells the events of one millisecond and one `ApiTypeId` (a group) apart
by a sequence. `mergeApiEvents`, its only writer, gives the sequence once; the
upload names the document after it and the export writes it out, so that a
database that was deleted gets the same keys back from a file or from the cloud,
in any order and even if only a part comes back. One action is one turn of
the loop of the merge (`Place`), its commit, one page, one upload, one export.

| state | in the code |
|---|---|
| `lake` | `apiEvents`; a row is its payload, sequence aside, and its sequence |
| `cloud` | the account's documents; `getFirestoreEventDocumentId` is the row's key |
| `file` | the NDJSON export, also one that joins files of other devices |
| `job` | the `for` loop of `importData`, or of `syncFromCloud`, and its cursor |
| `tx` | the read-write transaction: `inputEvents` still to do, `added` |
| `now`, `since` | the group of events stamped now; the first one after the database was last deleted |

Live events, imports and downloads all go through `Merge`; a transaction keeps the
others out. Uploads, exports, imports, downloads and the deletion own the
operation slot, so they need `job.kind = "none"` (that is what `OperationSlot`
shows); live events do not. A live event may be resent and may be late, but the page
does not deliver one stamped before a deletion that has ended. Events of old
clients are the only ones of their group, and their documents and lines have
no sequence. `EventsAssumption` also says that events of other devices
share no group with those of this one: two devices number the events of a group
independently, and then a name does mean two events (listed as a hazard
without a property). Left out: a lake that other code writes to directly (there is none
outside tests), document names of ten and more in one group, whose order is
alphabetical, and markers and floors of the merge (`StatsLedger`, `CloudUpload`).

Properties: `MergesNeverClash` (`bulkAdd` would refuse the page as a whole),
`RowKeepsItsKey`, `UploadReplacesNothing` (no document of this device is ever
overwritten by another event) and `RestoreIsComplete`. All are proved.

The run `lake` has an old event, two events of one group, two of other devices in
another, pages of two, and time for two deletions. Two events of a group are enough to
ask for a taken sequence, to leave a gap by an incomplete restore and to put
a page boundary inside the group together with the old event before them. Safety only:
nothing obliges a restore to run. The deadlock check is on.

## 7. `ForcedUpdate`

The worker replaces itself when an update is downloaded, and nobody holds a lock:
every trigger starts a call of `commitReloadIfStillSafe` of its own, which awaits
the ingestion queue and the storage writes and then decides without a further
`await`. One action is one turn of the event loop.

| state | in the code |
|---|---|
| `queue`, `processed` | `ingestionQueue`; whether the oldest message has been acted upon though its task is not settled |
| `inGame` | what the accepted messages say: the truth the worker lags behind |
| `activity` | `sessionActivity` |
| `slot`, `deletion` | `currentOperationState` with `_isSyncing`, and `deleteAllData` |
| `writes` | `pendingStorageWriteCount` |
| `checks` | the calls under way: where each is, and of each promise tail it awaits how much is left and whether it has been replaced |
| `record`, `installed`, `downloaded` | `pendingUpdate` in `chrome.storage.local`; the version that runs; the one Chrome has ready |
| `reload` | who has called `chrome.runtime.reload()`; for an update also `reloadCommitted` |
| `lost` | history, for the finding below |

A promise tail is compared by reference in the code; the model keeps what the
comparison tells, `moved` and `rewritten`. A message is a start (201, 303 with a
player, 308), an end (309), a cancelled entry (203) or something else; a message
that was stored before and is sent again may be an end. The raw write of a
message may fail. Left out: the limit of 1000 rounds of draining, after which a
check gives up; a second game tab (one `inGame`); a service that never becomes
ready; badges.

Properties: `ReloadOvertakesNothing`, `ReloadOutsideGame` and
`SafeMomentNotMissed`. `deleteAllData` reloads too and waits for the messages only:
storage writes are overtaken by that reload, as `replay-import.ts:118-120` knows,
so the first property asks less of it. For the same reason the claim of
`update-manager.ts:291` that every reload passes through one commit point is to be read as
"every reload for an update".

The run `forced` has two checks at once, two messages, one storage write and two
versions. Two messages are enough for one to arrive while another is awaited, two
checks for one to reload while the other drains or to announce a safe moment
the other has just missed. The number of checks is bounded by refusing
messages, operations and updates that could start more (`RoomFor`); no check
itself is refused. Fairness: the worker goes on with what it has begun (processing,
writes, operations, the turns of a check) and a reload that was asked for comes.
Messages, updates, the popup and crashes owe nothing.

`RecordedUpdateIsPending` states a comment (`update-manager.ts:352-353`): an update
that was recorded first is always picked up again. TLC refutes it (add it as a
PROPERTY to `MCForcedUpdate_forced.cfg`). A recheck acts on the record it read,
and an update recorded while it waited is cleared with it; the popup's refusal
writes an old record back in the same way. `SafeMomentNotMissed` leaves these
cases out (`lost`) so that it says something of all others.

## 8. `HandRecord`: one hand from the wire to the rows

`HoldemTable` is the game, external to the program: it plays a hand of hold'em
and emits the events the page would send (`EVT_DEAL`, `EVT_ACTION`,
`EVT_DEAL_ROUND`, `EVT_HAND_RESULTS`, and the quirks the code has branches for),
keeping the truth beside the wire: who did what in which street, what everyone
paid, won and got back. Everything the extension makes of these events is then
compared with that truth.

| module | translates | compared with the table by |
|---|---|---|
| `HandEntities` | `AggregateEventsStream`, `WriteEntityStream.toHandState`, `EntityConverter`, `orderApiEventsForReplay` | `LiveHandIsTrue`, `RebuildStoresTheSame`, `BurstsKeepTheMoves` |
| `ChipAccounting` | `deriveHandSettlement` | `AccountingIsExactOrUnknown` |
| `HandStats`, `StatDefinitions` | positions, phases, the counters of a hand and the formula of every statistic over all rows | `LedgerSumsTheRows` |
| `HandOracle` | `runOracle` of the verify-stats tool, a second computation from the raw events | `OracleAgrees` |
| `HandLog` | `HandLogProcessor` | `LogTellsTheHand` |
| `HandExport` | `HandLogExporter`, which looks the raw rows of stored hands up again | `LogTellsTheHand`, in the states after `Rebuild` |
| `RecentHands` | the panel's view of a hand (`getRecentHands`) | `RecentHandIsTrue` |
| `RealTimeStats` | whose turn, what to call, the pot odds while the hand is played | `OddsAreTrue` |

The run checks three conjunctions of these: `RebuildKeepsTheHand` (`RebuildStoresTheSame`
and `BurstsKeepTheMoves`), `StatisticsAgree` (`OracleAgrees` and `LedgerSumsTheRows`) and
`WhatIsReadIsTrue` (`LogTellsTheHand` and `RecentHandIsTrue`, what a player reads of a hand
afterwards). `OddsAreTrue` is about the hand while it is played, and is proved for every
deal (section 13).

A deal is any record of the shape `DealShape`: two players or more, stacks and stakes of
any size, and somebody with a decision to make. That is the game server's side of the
contract (`DealsAssumption`): the hands in which the antes and blinds take every stack
are dealt out without an action and are left out.

State: `table` and `wire` (the game), `log` and `completed` (the hand log),
`stamps` (when each event was received), `live` (the live buffer and the hands it
stored), `rebuilt` (the stored order that was converted and the hands it gave).
An event of the wire goes to the live path and to the log in the step that plays
it; once the hand is over, `Rebuild` converts the stored rows in the order of
their keys, with up to `MaxBurst` events in one millisecond.

The run `hand` has four deals: three-handed with one short stack, heads-up in a ring
game with antes, and four-handed with one stack or two that the ante takes whole;
in each of them every line of play with at most two bets or raises, a
showdown that the higher seat wins, the lower seat wins, or all tie; and at most
one quirk (a seat that times out, a folded player who shows the cards, a hidden
final stack, chips added in the hand, a table move, a clock set back). Four seats have
every position the code distinguishes by number of players up to four and a side
pot; two aggressive moves make an open, a three-bet and the raises of a short
stack; a burst of three events is the shortest that can move an action over a
street. Blinds that take a stack whole (`BlindShoves`) are left out of the bounds.
CHECK_DEADLOCK is FALSE: a behaviour is one hand.

Cards are not modelled: no property here depends on which cards they are, only
on how many and whose. What the properties set apart, each where the code
departs from the table and why:

* an all-in after a timed-out seat is normalised with that seat's options, so its kind
  may be wrong (`KindIsKnown`); `docs/hand-analysis.md:305` lists no such case;
* several stacks taken whole by the ante: `fixAnteAllInChips` guesses, and the
  oracle names winners of the main pot where the product names none (`Guessed`);
* two events of one millisecond with a side pot or added chips, and three events
  in general: the order cannot be found again by the amounts (`NoSidePot`);
* without a showdown the uncalled bet of the log ignores blinds;
* a check the log supplies for a big blind without an action is told twice, since
  `handleHandResultsEvent` appends it at once and again with the other lines
  (`ClosedLog`); an export tells it once (`ToldOnce`);
* an export of rows read in another order than the wire's may give back a bet that
  was called or pass over a pot at a showdown, so `ExportIsTheLog` compares it with
  the live log in the wire's order only, and without a showdown in every order; the
  cache of player names (`buildPlayerNamesMap`) is not modelled;
* a player who timed out stays among the opponents of the odds until the next
  street.

## 9. `ReplayImport` and `ReplayBridge`

Hands are queued while a session is played and their details fetched through the
page between sessions, behind an access check. `ReplayBridge` is the page (the
bridge and the content script) as functions of its state; `ReplayImport` puts the
worker, the port and the operation slot around it. One action is one turn of the
worker, one message delivered, or one answer of the server.

| state | in the code |
|---|---|
| `page` | the session activity the socket tells, the captured envelope, the bridge's queue with its cancel generation, the request sent, the fetches the content script holds back |
| `toPage`, `link` | messages under way, the port, the content script's outbox |
| `w` | the active-port token, the ingestion queue, the mutation tail of the replay queue, the request awaited, the drain and where it is |
| `db` | the setting, the access record, the queue, the stored details |
| `op` | the operation slot |
| `env` | faults so far and history: `accepted`, `released`, `deaf` (an end or a start that was dropped), `failed` (a request that failed since the last trigger) |

Properties: `NoRequestInSession` (the page stops its own requests with the socket
event, whatever the worker knows), `NothingStoredInSession` (the gate is read again
after every await), `QueueLosesNothing`, and under fairness `EventuallyFetched`.

All three safety properties are proved (section 13). The queue and the page's
requests are kept as sets and as recursive functions over a sequence, not as folds
of an operator, so that the proofs can expand them.

The run `replay` has two sessions, three hands, a queue of two and two faults of eleven
kinds (setting toggled, port lost, port late, stop of the worker, operation,
deletion, retry, timeout, access that lapses, a day that passes, a failed raw
write), at most three hands and faults together. Two sessions give a late answer from
the first that arrives in the second; a queue of two overflows; two faults put one
into the window another opens. The developer setting is modelled and left out
of the bounds. Fairness: messages are delivered, the worker's turns are taken, a
request ends or times out, a lost port reconnects, an operation ends; nobody is
obliged to play, to stop playing, or to press anything. CHECK_DEADLOCK is
FALSE: an idle extension stops.

Abstracted: page reloads, the audit of the replay ledger, the split of storage
reads into several awaits where nothing is decided between them, the contents of
a detail.

Observed while modelling, and part of the model: a verification in flight when a
session starts ends in `pending-session`, and the gate then refuses HandIds until the
next verification (cf. `docs/architecture.md:502-503`); a long operation that starts
and ends inside one fetch is not noticed by the drain; a deletion drops the messages of
the port while it runs (`deaf`); a raw write that fails drops the end of a session
with the trigger it would have been.

## 10. `LiveHud` and `LiveApp`

From a deal on the wire to the names at the seats. `LiveApp` is `App.tsx` of one
tab as a value and its message handlers as functions; `LiveHud` is everything in front of
it: the ports with their generations, the token that says which port is active, the
queue of statistics, recalculations that overtake it, the recent-hands service with
its cache, the saved last table. What the worker posts is handled at once; its
computations are not, and the worker may stop between any two.

| state | in the code |
|---|---|
| `game` | external: the session, the tab that plays, the hand that is open |
| `link` | per tab: the port, the document, the outbox of the content script |
| `w` | the active-port token and its grace, known rows, computations under way, hands being written, the caches and epochs |
| `db` | hands and details stored, the persisted deal, the saved last table |
| `apps`, `panel` | App in each tab; an open panel of recent hands |
| `env` | faults so far and history: `behind`, `restarted` |

Properties: `LineupIsOfThisSession` (no opponent of another session at a seat, and no
way back to an older session), `QuietHudIsCurrent` (once nothing is under way the HUD
shows who was dealt in), `PanelHoldsWhatWasAnnounced`. They leave out rows that the
code itself sends with a deal they do not belong to (`torn`), a table behind which
the worker stopped, App was mounted again, the token was lost or a recalculation was
overtaken (`env.behind`): the code makes no promise there before the next deal. They
also leave out a panel whose page has heard a higher epoch than the worker that now
counts (`env.restarted`): a restarted worker counts from 0, and the first hand or
replay detail it announces may carry the number the panel already has.
`PanelHoldsWhatWasAnnounced` is proved, `LineupIsOfThisSession` and
`QuietHudIsCurrent` are statements about two deals: with a third, a hand may wait
behind another one's commit until a newer deal's rows are out, and is then
published with its own, older lineup. It takes a commit that lasts as long as a
whole hand, which nothing in the code excludes.

The run `live` has tables of three seats, two sessions with a different hero seat and
different opponents but one, two tabs, two deals, one replay detail, an
opponent's seat that may be empty, and one heavy fault (stop, reload, import,
rebuild, panel) or two light ones (port lost, late port, filter change, missed
start, watched hand). Two sessions and two tabs are what the boundary is about;
two deals let a row of the first arrive after the second. To keep it finite the
panel is opened in the first session only, one fetch is in flight at a time and
only the tab that played last is reloaded. That IndexedDB serves transactions in the
order they were asked for is assumed (`Passed`). Not reached: two hands in the
commit queue at once, the timeout of the last-table load, the panes of the
hand log, moves between tables of a tournament. Safety only; CHECK_DEADLOCK
is FALSE: the game may end.

`RestoredSeatsStay` states what a comment (`App.tsx:524-527`) and a test
(`App.last-table-restore.test.tsx:193`) say of the restored last table: after a reload
the pre-game statistics must not erase it. TLC refutes it (add it as an INVARIANT to
`MCLiveHud_live.cfg`): the content script forwards them as a live event first
(`content_script.ts:551`), App takes that for a live lineup and discards the restored
seats; the test calls the message handler alone, without the content script's event.

Observed while modelling: `recalculateAllStats` drops empty rows, so that rows may
shift against the deal they are sent with; a reconnection re-sends old rows with the
new deal; statistics that are late, or a filter changed between sessions, consume
the session boundary; a hand whose events came over two generations of the port is not
counted; `handCompletionEpoch` restarts at 0 with the worker, so that an open panel
does not notice a hand whose epoch equals one it has fetched for, although
`RecentHandsPanel.tsx:22-27` says it follows every completed hand (drop
`~env.restarted` from `PanelHoldsWhatWasAnnounced`, give `Faults` the value
`{"stop", "panel"}` and `Alone` `{}`: TLC finds it in seconds).

## 11. `StatSettings` and `LedgerWindow`

What the HUD counts is what the popup chose. `LedgerWindow` is the data of the ledger
for one player: rows of the newest hands per battle type and table size, an aggregate
with a bucket per battle type, table size and position, lazy baselines,
replacement, and every filtered read; every write is one step here (the transactions
are in `StatsLedger`). `StatSettings` is the way of the filters: the options in
storage, the bucket of an older version merged into them at the first read, the
popup, the worker that reads them at its start and is told of every change. A
storage read is answered later than it is made.

Property: `HudCountsTheChosenHands`: once the settings have settled, what is shown of a
player sums exactly the hands the stored settings choose, the newest of them if there
is a limit, and the drill-down splits them by position.

The run `settings` has three hands with two or three versions each (another time, battle
type, table size, position, none), a window of two rows, three table sizes, two
old options (a limit above the largest, a gap between table sizes, a statistic missing), two
changes in the popup, two starts of the worker, one opening of the popup. Three hands over
a window of two make one leave it and come back. The settings and the
ledger share no variable, so every pair of their states that can meet also meets
when the settings move first: `MCNext` takes only these behaviours, and the view
drops the bookkeeping of settings that have come to rest. CHECK_DEADLOCK is FALSE
because of the bounds.

Set apart by the history variable `raced`: options that have changed since they were read.
It happens: the worker's restore and the migration write back what they read
over a change of the popup, and a popup that is used before it has loaded writes
defaults. Also observed: a restore does not recalculate what is shown, and a gap in the table
sizes is rounded to an interval when the popup opens and announced as a change.

## 12. `AuthService`, `AccountSession` and `AccountSync`

Every other part asks `firebaseAuthService` who is signed in and compares
`getAuthGeneration()` before it commits anything. `AccountSession` is that
promise: a login, a generation, and how far a sign-out has got. `AuthService` is the
service that makes it, with its storage area, Google and the Firebase endpoints
around it, and implements it (`KeepsTheSession`). `AccountSync` stands on the
promise and models what `AutoSyncService` and its boot do with every change of the account.
An action of `AuthService` is one answer from outside, with everything that runs
until the next call; an action of `AccountSync` is one stretch between two awaits.

| state of `AuthService` | in the code |
|---|---|
| `stored`, `writes` | `firebaseRestAuthState`; the calls to `storage.local` that have no answer yet, in their order |
| `access`, `restored` | `storageAccessPromise`, `restorePromise` |
| `current`, `authGeneration` | `currentState`, `authGeneration` |
| `signIn`, `googleToken`, `preceding`, `tail` | the calls of `signInWithGoogle` and the chain of commits, `pendingSignInCommit` |
| `signOut` | `pendingSignOut` |
| `refresh` | the calls of `getIdToken` that found the token expired |
| `googleCache`, `revoked` | what Chrome caches (external); history: what was sent to be revoked |
| `Minted` | external: the token Google issues to a sign-out's `getChromeAuthToken(false)` when none is cached; a removal that fails leaves it cached for the next sign-in |
| `askedAfter`, `storedLate`, `removed` | history, for the properties |

| state of `AccountSync` | in the code |
|---|---|
| `restored`, `boot`, `seen`, `replies` | `restorePromise`; `initializeAutoSyncOnReady` has its turn to come; `previousSignedIn` of the transition handler; the rest of a sign-out's message is to run |
| `scoped`, `legacy` | `autoSyncLastTime:<uid>`; `autoSyncLastTime` of an earlier version |
| `shown` | `syncState.lastSyncTime` |
| `inits`, `sync`, `busy` | the calls of `initialize()`, the pass of `performSync` that holds `_isSyncing`, any other holder of the operation slot |
| `heirs` | history: who was given the unattributed time |

A time is told apart by whose sync it is of. That is what the properties need:
`mixed` is the time of a sync during which somebody else was signed in, also if the
first account is back.

Properties of `AuthService`: `StorageFollowsTheAccount` (what a restart restores is
what was live, and what a sign-out removed stays removed), `TokensFollowTheSession` (in memory,
in storage, with Google and with the callers of `getIdToken`), the refinement
`KeepsTheSession`; under fairness `SessionSettles`. Of `AccountSync`: `ShownIsOfTheLiveAccount`,
`StoredTimesAreTrue` (earned by a sync, or inherited by one account), `TimeIsNotTaken`;
under fairness `FirstSyncComes`. The first two of `AuthService`, `SessionSettles` and
`StoredTimesAreTrue` are conjunctions of named parts.

| run | instance | shows |
|---|---|---|
| `account` | 3 sign-ins, the first and last of one account, 1 refresh, 1 sign-out, 1 failure, 1 stop, fair | all four |
| `accounts` | 2 accounts, 2 calls of `initialize()`, 3 changes of the account, and 1 manual sync, failure, other operation or stop (`MaxEvents`), fair | all four |

Bounds. A refresh needs its account to go and to come back (the third sign-in) to
mistake one session for another; a sign-out and a second sign-in fill the chain of commits.
Three changes of the account are A, nobody or B, and A
again. Two calls of `initialize()` are the one of the boot and the one of a sign-in.
`MaxAttempts` is the code's 3: a first sync then survives the pass of another
account and one more obstacle, which is why `MaxEvents` is 1; with more of them the retries run
out by design. What the theorems of section 13 say of both modules holds for any bounds. `FirstSyncComes` exempts a failing storage call, recovery or
sign-out: after those the code leaves the account without a first sync until a threshold or the user
starts one. Fairness: calls to storage, Google and Firebase end, the worker goes on with
what it has begun; nobody is obliged to sign in, to sign out or to sync. CHECK_DEADLOCK is
FALSE: a worker with nothing to do stops.

`StoredIsLive` is what the comment at `firebase-auth-service.ts:231-235` says: memory
shows nothing that storage does not hold, so that no restart reverts a sign-in. TLC refutes it (add it
as an INVARIANT to `MCAuthService_account.cfg`): `getIdToken` publishes a refreshed
account and then stores it (lines 458-465). When a newer sign-in's write is under way,
the refresh is stored behind it, storage keeps the old account and the next start
restores it; the history variable `storedLate` names exactly these states, so that
`StoredIsLiveUnlessLate` says something of all others. No property covers the hazard itself,
nor the caller of such a refresh, who is answered with a token of the newer sign-in (`late`).

`OwnTimeIsNotReplaced` is what the comment at `auto-sync-service.ts:618-620` says: an
account that has its own time keeps it. TLC refutes it (add it as a PROPERTY to
`MCAccountSync_accounts.cfg`): `initialize()` reads the own time and the unattributed one
together (line 625), and by the time it writes (line 667), two awaits later, a manual sync
may have stored the own one.

Left out: the account's profile, `syncState.status` and other reports, the size of a
backlog; a token that has not expired is answered at once and changes nothing.

## 13. Proofs

The type invariants of the modules are theorems for every value of the constants, each a
part of the inductive invariants below; the runs spend their properties on other questions.

`StatsLedgerProofs` proves, for every finite or infinite choice of the
constants allowed by the three assumptions of `StatsLedger`, the invariants
`TypeOK`, `LedgerMatchesCanonical`, `PendingFenceHasOwner` and the action
property `NothingPublishedWhileHybrid`.

`LedgerMatchesCanonical` is not inductive: the aggregate a batch publishes was
computed from reads made many transactions earlier. The strengthening `IInv`
adds what makes these reads still valid when they are used:

* `Structure`: a canonical version belongs to its hand; while a chunked rebuild
  has replaced hands, a marker that no other worker mistakes for its own is
  present; markers, explicit fences and the failing flag have the shape their
  writers give them;
* `Baselines`: while the revision a batch remembers is the current one, what it
  has read is the canonical table (`ScanCurrent`, `ScanComplete`), and while the
  aggregate holds its token, the rows it has written are the ones it means to
  write (`RowsWritten`).

The proof has one step per action, and under it one per conjunct the action can
disturb; actions that leave the variables of a conjunct alone are covered by one
frame lemma each. Proved from the same invariant, `NothingPublishedWhileHybrid`
needs that a batch publishes only while no rebuild marker is present and that a
hybrid state has one.

`NoLostResult` and `LiveHandsSurviveActivation` need a second invariant, `LakeInv`,
and the hypothesis `OneResultPerHand`. The invariant says that whatever the
markers, snapshots and tables name is in the lake (`KnownFromLake`), that a replay
runs only under its slot (`RebuildInSlot`), and accounts during a replay for every
result of the lake (`ReplayCovers`): it is still to be read, or its hand has been
derived or refused, or it came after the replay had read past it and belongs to
a hand that was not there before, which the cleanup spares. That a page of the
replay reads the least results behind its cursor is where cardinalities come in.
The hypothesis is needed: the run `concurrent` is the counterexample when a hand's
result is sent again.

`SlotAndSessionProofs` proves `TypeOK`, `SlotExclusive`, `SlotNamesItsHolder`
and the refinement `OneHolderAtATime` for any sets of hands, uploads and jobs and
any bounds. `SlotExclusive` and `SlotNamesItsHolder` are inductive together and
neither is alone: a `finally` block frees the slot when it finds its own type
there, which is right only because no two holders run; no two run only because
every claim was made on an idle slot, which says nobody runs. The refinement
follows step by step from this invariant and its next state.

`LakeAndUpdateProofs` proves `TypeOK` and the four properties of the run `lake`. `MergesNeverClash` and
`TypeOK` are inductive together. `UploadReplacesNothing` is not: it compares a
row with a document that may have left the lake two deletions ago. The
invariant adds that all copies of this device's rows (in the lake, in the
transaction, in the cloud, in the file, in the page being read) agree on their keys
(`CopiesAgree`), that a copy in a group that can still grow is in the lake
(`RecentInLake`), so that a number given to a live event is new everywhere, that an
old client's row is always its group's first (`LegacyFirst`), and where inputs
without a sequence come from (`Unnumbered`, `Stamped`). `RestoreIsComplete` follows from
`PagesPlaced`: what the cursor has passed is in the lake or in the transaction.

`LakeAndUpdateProofs` also proves `UpdateTypeOK` and the safety properties of the run `forced`. The invariant
says of each check that what it has left to await is the whole of every tail that
has not been replaced (`ChecksAwaitWholeTails`), so one that finds both tails in place
finds both empty; that an upload and a deletion hold the slot, so nobody else frees it; and that
the last message that tells something and is not acted upon says how the game
is, while without one an inactive session is no game (`ActivityLagsByQueue`).

`CloudUploadProofs` proves both safety properties of the run `prefix`. Between two
transactions of a pass neither the watermark, nor the floor, nor the marker of the
backfill alone says what is protected, so the invariant follows the pass
(`PassInv`): with no sign-in since it began its account is the one signed in (`SameIsSignedIn`), and
the watermark together with what it has read is all there is in the collection
(`WatermarkHolds`); the floor is below every row that the spent rewind was for
(`RewindHolds`); the scan leaves out no row that only the floor protects
(`ScanBelowFloor`); a row it has read is in the collection, still in its page, or above
the floor it has written or is about to write (`ReadIsKept`, `Protected`); and the rows
behind the watermark are counted before a pass may give its floor up
(`CountReachesBehind`).

`SlotAndSessionProofs` also proves the safety properties of the run `account` and the
refinement `KeepsTheSession`, for any sign-ins, callers and bounds. The invariant
(`AuthInv`) is about the queue of calls to storage: the access level, the restoration and
everything else come in this order (`StartUpInOrder`); a sign-out waits for every
commit, so no sign-in's write is behind its removal (`QueueInOrder`); commits form one chain,
ordered by a rank that exists at every moment, with one writer at its head (`OneChain`); every
token anywhere was issued to the login it is with and is no longer wanted only once it has been removed
(`TokensOwned`); a refresh whose generation is current is of the login that is live
(`RefreshesOfTheirSession`); and what Google issues to a sign-in without an answer, or to the
lookup a sign-out has yet to make, has not been seen before, in particular not revoked (`GoogleTokens`).

`CloudUploadProofs` also proves the safety properties of the run `accounts`. The invariant
(`AccountInv`) says what a call that waits may rely on: a pass or a call of
`initialize()` whose generation is still the current one has noted the account that is
signed in, and it has been all along (`SyncNotes`, `InitNotes`); the time a call holds is that
account's or one it inherited (`InitTime`); and an unattributed time in the
hands of a call is no longer stored, and nobody else holds it (`InitMigrates`). `TimeIsNotTaken` needs in
addition that whoever is signed in has taken a generation (`LiveIsCounted`).

`ReplayImportProofs` proves the three safety properties of the run `replay`.
`NoRequestInSession` follows from what the page alone knows (`PageQuiet`): while it is
not outside a session, the request it has sent is aborted. `NothingStoredInSession`
relates the page to the worker (`StartIsAhead`): while a session is played, its start
is in the outbox of the port or in the ingestion queue with no end behind it, or the
worker has taken it in and no end is on its way. `QueueLosesNothing` is inductive only
together with the order of the hands (`HandsInOrder`): what waits in the outbox was
played after what waits in the ingestion queue, that after the mutations under way, and
those after the queue, the batch and what is being settled; so a hand once settled never
comes again and a settled hand is stored or released (`SettledIsKept`).

`LiveHudProofs` proves `TypeOK` and `PanelHoldsWhatWasAnnounced`. The invariant
(`PanelInv`) says that what a page is told is stored, that the cache and every fetch
begun under the current `cacheGen` hold what has been told so far, and that a panel that is
ready, or whose answer is under way, holds what its page was told together with what the
worker would tell it under the epoch it has already heard. A reconnection plays
the whole outbox of a page in one step; the proof follows it event by event with an
induction over the least index that could be wrong, the form of induction these
provers accept.

`StatSettingsProofs` proves `HudCountsTheChosenHands` for any finite set of hands and
versions, any size of the window and any settings, under `LedgerAssumption` and
`SettingsAssumption`. Three facts meet in it.

* What the ledger holds (`LedgerInv`, with `LedgerIsBaseline` as its reading): a player who is
  ready has the rows and the aggregate that his baseline would compute from the stored hands. The
  hard step is the incremental write: a cell that loses a row of a full window
  cannot know the row that should take its place, so `invalidatesWindow` must
  drop the player exactly then (`WindowKept`).
* What a read makes of it: the newest rows of the cells are enough for the newest rows
  of any selection of cells (`NewestRowsAnswer`), and disjoint buckets that are whole
  add up to the number of chosen hands (`ReadsTheChosen`).
* Which filters are used (`SettingsInv`): the last message on its way to the worker, or
  without one the filters the worker has, agrees with the options in storage, unless an
  option was used that had changed since it was read (`Agreement`); a worker that
  has read nothing yet counts everything (`NothingYet`).

`OddsProofs` proves `OddsAreTrue` (`OddsHold`) for every deal of `DealShape`, any stacks,
seats, quirks and number of raises, of the specification the run `hand` checks. The
odds are arithmetic on three numbers of an event (the pots, the bets, a stack), and they
come out right because of two facts that neither side states. First, of the table
(`BetsMatch`): nobody is above the bet; who can still bet has matched it or is still to
act; and nobody has more in from the streets before than a player who can still bet, just as much
if he has bet in this street. So what is out of a player's reach is exactly the part of
the bets of this street above what he can put in (`unmatchedExcess`), though the code never looks
at earlier streets. Second, of the wire: the pots of an event add up to what
was paid (`PotSizeIsTotal`), which takes an induction over the levels of the side
pots. The invariant (`OddsInvariant`) joins them: while a hand is played the table is
`Underway` and the stream `Keeps` up with it, having its bets, stacks and statuses unless
a timeout or added chips kept something off the wire; once it is over nothing is shown.
The rest is one lemma per action of the table (`DealKeeps`, `ActKeeps`, `StreetKeeps`, ...).
The other steps of `HandRecord` leave table and wire alone (`RecordPlays`).

The sums of counters, of chips and of odds are folds over a finite set. Their values follow from
an induction over finite sets (`SetInduction`): the set of subsets that violate a claim
has a least element under strict inclusion.

Model-checked only: liveness and `ENABLED`, which are out of the prover's reach;
of section 8 the rows, accountings, statistics, log and panel of a hand (`LiveHandIsTrue`,
`AccountingIsExactOrUnknown`, `RebuildKeepsTheHand`, `StatisticsAgree`, `WhatIsReadIsTrue`), each of
several folds over the events of the whole hand, about which no lemma is proved here; and the two lineup properties of `LiveHud`, which hold of two
deals only (section 10).

## 14. Not modelled

What the code leaves open, as far as it was met while modelling; no property covers it:

* a forced recovery request that has joined a pass which then fails (section 4);
* the chunks of an abandoned file transfer, taken into the next one (chunks carry no session
  id, `import-export.ts:53`);
* a live row stored behind the cursor of its own millisecond, and two devices that upload for
  one account (section 5, `auto-sync-service.ts:975` and `1210`);
* an update record replaced while a recheck awaits (section 7, `update-manager.ts:389`);
* the options applied and written back by a worker that has read them before the popup changed
  them (section 11, `background.ts:134`);
* the service context that a rebuild restores over a game that went on (`auto-sync-service.ts:1936`);
* a sign-out that fails, whose generation all the same ends the first sync under way
  (section 12, `auto-sync-service.ts:861`).

Parts without a model:

* The evaluation of cards (`poker-evaluator.ts`) and the probabilities of improvement
  (`hand-improvement.ts`, `river-probabilities.ts`): functions of cards, checked
  best by enumeration in a test.
* Rendering, dragging, layout and formatting of the user interface; badges,
  advisories and what's-new.
* Observability: it reads state and changes none of it.
* Developer tools other than the oracle of verify-stats: they print what they read.
* The interception of the websocket and the schemas of the messages
  (`types/api.ts`): a message is what the schema lets through.
* The audit of the replay ledger and the context a rebuild restores; these are on the list
  of section 2.
