---------------------------- MODULE ForcedUpdate ----------------------------
(***************************************************************************)
(* Forced updates: the extension replaces its own running worker when an   *)
(* update is downloaded, at a moment when no game, no message, no storage  *)
(* write and no long operation is lost by it.                              *)
(*                                                                         *)
(* Nobody holds a lock.  Every trigger (update found, session over, entry  *)
(* cancelled, operation over, worker started, popup) starts a check of its *)
(* own, which awaits two promise tails until they stand still and then     *)
(* decides in one synchronous turn.  One action is one such turn.  Chrome  *)
(* serves storage requests in the order they are made, so one takes effect *)
(* when it is made; its answer is a later turn.                            *)
(***************************************************************************)
EXTENDS Naturals, Sequences, FiniteSets

CONSTANTS
  Checks,     \* bound: checks that are under way at once
  MaxQueue,   \* bound: messages of the page that wait
  MaxWrites,  \* bound: storage writes that wait
  MaxVersion  \* bound: the latest version Chrome downloads

ASSUME UpdateBounds == MaxQueue \in Nat /\ MaxWrites \in Nat /\ MaxVersion \in Nat \ {0}

VARIABLES
  inGame,      \* what the messages that were accepted say of the game
  queue,       \* ingestionQueue: the messages not processed yet, oldest first
  processed,   \* the oldest one is stored and acted upon, and its task not settled yet
  activity,    \* sessionActivity
  slot,        \* currentOperationState.type; "sync" is also _isSyncing
  writes,      \* pendingStorageWriteCount
  checks,      \* the calls of commitReloadIfStillSafe, and what precedes and follows them
  deletion,    \* deleteAllData
  record,      \* pendingUpdate in chrome.storage.local
  lost,        \* history: a stale answer has replaced the record of what is downloaded
  installed,   \* the version that runs
  downloaded,  \* the version Chrome has ready
  reload       \* who has called chrome.runtime.reload()

page == <<inGame, queue, processed, activity>>
chrome == <<installed, downloaded>>
updates == <<record, lost, chrome>>
updateVars == <<page, slot, writes, checks, deletion, updates, reload>>

Message ==
  [kind : {"start", "end", "cancel", "other"}, resent : {FALSE}]
    \cup [kind : {"end"}, resent : {TRUE}]
Record == [pending : BOOLEAN, version : 0..MaxVersion]
NoRecord == [pending |-> FALSE, version |-> 0]

\* A check remembers, of each tail it awaits, how much of it is not settled and whether
\* another tail has taken its place.
Check == [pc : {"off", "session", "upload", "recheck", "recorded",
                "ingestion", "storage", "decide", "refused"},
          popup : BOOLEAN,
          seen : Record,
          ahead : 0..MaxQueue, moved : BOOLEAN,
          unwritten : 0..MaxWrites, rewritten : BOOLEAN]
NoCheck == [pc |-> "off", popup |-> FALSE, seen |-> NoRecord,
            ahead |-> 0, moved |-> FALSE, unwritten |-> 0, rewritten |-> FALSE]
CheckAt(pc) == [NoCheck EXCEPT !.pc = pc]
\* recheckPendingUpdate has asked for the record.
Rechecking == [NoCheck EXCEPT !.pc = "recheck", !.seen = record]
Draining(check) ==
  [check EXCEPT !.pc = "ingestion", !.seen = NoRecord, !.ahead = Len(queue), !.moved = FALSE,
                !.unwritten = 0, !.rewritten = FALSE]

Awaiting == {"ingestion", "storage", "decide"}
\* A message, or a write, comes and its tail replaces the one that is awaited.
MessageComes(cs) ==
  [c \in Checks |-> IF cs[c].pc \in Awaiting THEN [cs[c] EXCEPT !.moved = TRUE] ELSE cs[c]]
WriteComes(cs) ==
  [c \in Checks |->
     IF cs[c].pc \in {"storage", "decide"} THEN [cs[c] EXCEPT !.rewritten = TRUE] ELSE cs[c]]
MessageGoes(cs) ==
  [c \in Checks |-> IF cs[c].ahead > 0 THEN [cs[c] EXCEPT !.ahead = @ - 1] ELSE cs[c]]
WriteGoes(cs) ==
  [c \in Checks |-> IF cs[c].unwritten > 0 THEN [cs[c] EXCEPT !.unwritten = @ - 1] ELSE cs[c]]

Started(cs, check) ==
  IF check = NoCheck THEN cs ELSE [cs EXCEPT ![CHOOSE c \in Checks : cs[c].pc = "off"] = check]

\* The checks that a message starts.
Starts(m) ==
  IF m.resent THEN 0 ELSE IF m.kind = "end" THEN 2 ELSE IF m.kind = "cancel" THEN 1 ELSE 0
\* The bound on checks: what is under way may start this many, itself included.
Load ==
  LET with(pc) == Cardinality({c \in Checks : checks[c].pc = pc})
      \* a message that is processed has started its own already
      todo == {i \in DOMAIN queue : i > 1 \/ ~processed}
      waiting(n) == Cardinality({i \in todo : Starts(queue[i]) >= n})
  IN  Cardinality(Checks) - with("off") + with("session")
        + waiting(1) + waiting(2)
        + (IF slot = "idle" THEN 0 ELSE 1)
RoomFor(n) == Load + n <= Cardinality(Checks)

UpdateInit ==
  /\ inGame \in BOOLEAN
  /\ queue = <<>> /\ processed = FALSE /\ activity = "unknown"
  /\ slot = "idle" /\ writes = 0 /\ deletion = "off" /\ reload = "no"
  /\ installed = 1 /\ downloaded \in 1..MaxVersion
  \* the latest version is recorded, be it that Chrome has installed it itself
  /\ \/ record = [pending |-> TRUE, version |-> downloaded]
     \/ downloaded = 1 /\ record = NoRecord
  /\ lost = FALSE
  /\ checks = Started([c \in Checks |-> NoCheck], Rechecking)

-----------------------------------------------------------------------------
\* The page's messages, in order.  One that was stored before and comes again says nothing.
Accept(m) ==
  /\ slot # "delete"
  /\ Len(queue) < MaxQueue
  /\ RoomFor(Starts(m))
  /\ queue' = Append(queue, m)
  /\ checks' = MessageComes(checks)
  /\ inGame' = IF m.resent \/ m.kind = "other" THEN inGame ELSE m.kind = "start"
  /\ UNCHANGED <<processed, activity, slot, writes, deletion, updates, reload>>

\* What could not be stored may start a game but not end one.
ActivityOfStored(m, merged) ==  \* mutant
  IF merged # "stored" THEN activity
  ELSE IF m.kind = "start" THEN "active"
  ELSE IF m.kind \in {"end", "cancel"} THEN "inactive"
  ELSE activity
SessionActivity(m, merged) ==
  IF merged = "duplicate" THEN activity
  ELSE IF m.kind = "start" THEN "active"
  ELSE IF m.kind \in {"end", "cancel"} /\ merged = "stored" THEN "inactive"
  ELSE activity

\* A session's end is uploaded first; a cancelled entry has nothing to upload.
TriggeredAtEnd(m) == IF m.kind = "end" THEN CheckAt("session") ELSE NoCheck  \* mutant
Triggered(m) ==
  IF m.kind = "end" THEN CheckAt("session") ELSE IF m.kind = "cancel" THEN Rechecking ELSE NoCheck

\* processEvent after its raw merge.  Its task is settled later, so a check that it starts
\* may find it in the queue.
Process ==
  /\ queue # <<>> /\ ~processed
  /\ processed' = TRUE
  /\ \E merged \in {IF Head(queue).resent THEN "duplicate" ELSE "stored", "failed"} :
       /\ activity' = SessionActivity(Head(queue), merged)
       /\ checks' = IF merged = "stored" THEN Started(checks, Triggered(Head(queue))) ELSE checks
  /\ UNCHANGED <<inGame, queue, slot, writes, deletion, updates, reload>>
Settle ==
  /\ processed
  /\ queue' = Tail(queue) /\ processed' = FALSE
  /\ checks' = MessageGoes(checks)
  /\ UNCHANGED <<inGame, activity, slot, writes, deletion, updates, reload>>

-----------------------------------------------------------------------------
\* onGameSessionEnd(): there may be nothing to upload, and the slot may be taken.
SkipUpload(c) ==
  /\ checks[c].pc = "session"
  /\ checks' = [checks EXCEPT ![c] = Rechecking]
  /\ UNCHANGED <<page, slot, writes, deletion, updates, reload>>
StartUpload(c) ==
  /\ checks[c].pc = "session"
  /\ slot = "idle"
  /\ slot' = "sync"
  /\ checks' = [checks EXCEPT ![c] = CheckAt("upload")]
  /\ UNCHANGED <<page, writes, deletion, updates, reload>>

OnIdleNothing(cs) == cs  \* mutant
\* onOperationBecameIdle: recheckPendingUpdate is one of the listeners.
OnIdle(cs) == Started(cs, Rechecking)
EndUpload(c) ==
  /\ checks[c].pc = "upload"
  /\ slot' = "idle"
  /\ checks' = OnIdle([checks EXCEPT ![c] = Rechecking])
  /\ UNCHANGED <<page, writes, deletion, updates, reload>>

\* An export, import, rebuild or sync.
StartOperation ==
  /\ slot = "idle" /\ RoomFor(1)
  /\ slot' = "busy"
  /\ UNCHANGED <<page, writes, checks, deletion, updates, reload>>
EndOperation ==
  /\ slot = "busy"
  /\ slot' = "idle"
  /\ checks' = OnIdle(checks)
  /\ UNCHANGED <<page, writes, deletion, updates, reload>>

\* deleteAllData: no message is accepted any more; those that were are waited for.
StartDeletion ==
  /\ slot = "idle" /\ RoomFor(1)
  /\ slot' = "delete" /\ deletion' = "drain"
  /\ UNCHANGED <<page, writes, checks, updates, reload>>
DeletionDrained ==
  /\ deletion = "drain" /\ queue = <<>>
  /\ deletion' = "delete"
  /\ UNCHANGED <<page, slot, writes, checks, updates, reload>>
DeletionReloads ==
  /\ deletion = "delete"
  /\ deletion' = "done" /\ reload' = "delete"
  /\ UNCHANGED <<page, slot, writes, checks, updates>>
DeletionFails ==
  /\ deletion = "delete"
  /\ deletion' = "off" /\ slot' = "idle"
  /\ checks' = OnIdle(checks)
  /\ UNCHANGED <<page, writes, updates, reload>>

EnqueueWrite ==
  /\ writes < MaxWrites
  /\ writes' = writes + 1
  /\ checks' = WriteComes(checks)
  /\ UNCHANGED <<page, slot, deletion, updates, reload>>
\* The count goes down once, whether the write succeeds or fails.
WritesLeft == writes - 1
SettleWrite ==
  /\ writes > 0
  /\ writes' = WritesLeft
  /\ checks' = WriteGoes(checks)
  /\ UNCHANGED <<page, slot, deletion, updates, reload>>

-----------------------------------------------------------------------------
\* handleUpdateAvailable: recorded first, so that a worker that stops finds it again.
UpdateAvailable ==
  /\ downloaded < MaxVersion /\ RoomFor(1)
  /\ downloaded' = downloaded + 1
  /\ record' = [pending |-> TRUE, version |-> downloaded']
  /\ checks' = Started(checks, CheckAt("recorded"))
  /\ UNCHANGED <<page, slot, writes, deletion, lost, installed, reload>>
RecordedFirst(c) ==
  /\ checks[c].pc = "recorded"
  /\ checks' = [checks EXCEPT ![c] = Draining(@)]
  /\ UNCHANGED <<page, slot, writes, deletion, updates, reload>>

\* The record is replaced by one made from an earlier answer.
SetRecord(seen, new) ==
  /\ record' = new
  /\ lost' = (lost \/ (record # seen /\ record.version > installed))

\* The rest of recheckPendingUpdate: a version that runs already is not pending any more.
Recheck(c) ==
  /\ checks[c].pc = "recheck"
  /\ LET seen == checks[c].seen
     IN  /\ checks' = [checks EXCEPT ![c] = IF seen.pending /\ seen.version # installed
                                            THEN Draining(@) ELSE NoCheck]
         /\ IF seen.pending /\ seen.version = installed THEN SetRecord(seen, NoRecord)
            ELSE UNCHANGED <<record, lost>>
  /\ UNCHANGED <<page, slot, writes, deletion, chrome, reload>>

\* applyUpdateNow, which the popup offers while an update is pending.
ApplyNow ==
  /\ record.pending /\ RoomFor(1)
  /\ checks' = Started(checks, Draining([NoCheck EXCEPT !.popup = TRUE]))
  /\ UNCHANGED <<page, slot, writes, deletion, updates, reload>>
Refused(c) ==
  /\ checks[c].pc = "refused"
  /\ SetRecord(checks[c].seen, [checks[c].seen EXCEPT !.pending = TRUE])
  /\ checks' = [checks EXCEPT ![c] = NoCheck]
  /\ UNCHANGED <<page, slot, writes, deletion, chrome, reload>>

-----------------------------------------------------------------------------
\* commitReloadIfStillSafe: each tail is awaited until it is still the tail afterwards.
IngestionSettled(c) ==
  /\ checks[c].pc = "ingestion" /\ checks[c].ahead = 0
  /\ checks' = [checks EXCEPT ![c] =
                  IF @.moved THEN Draining(@)
                  ELSE [@ EXCEPT !.pc = "storage", !.unwritten = writes]]
  /\ UNCHANGED <<page, slot, writes, deletion, updates, reload>>
StorageSettled(c) ==
  /\ checks[c].pc = "storage" /\ checks[c].unwritten = 0
  /\ checks' = [checks EXCEPT ![c] =
                  IF @.rewritten THEN [@ EXCEPT !.unwritten = writes, !.rewritten = FALSE]
                  ELSE [@ EXCEPT !.pc = "decide"]]
  /\ UNCHANGED <<page, slot, writes, deletion, updates, reload>>

IsSafe == activity = "inactive" /\ slot = "idle"
StillStorage(check) == ~check.rewritten  \* mutant
StillIngestion(check) == ~check.moved  \* mutant
StandsStill(check) == ~check.moved /\ ~check.rewritten
Decide(c) ==
  /\ checks[c].pc = "decide"
  /\ LET check == checks[c]
         commits == StandsStill(check) /\ reload # "update" /\ IsSafe
     IN  /\ checks' = [checks EXCEPT ![c] =
                         IF ~StandsStill(check) THEN Draining(check)
                         ELSE IF check.popup /\ reload # "update" /\ ~IsSafe
                         THEN [NoCheck EXCEPT !.pc = "refused", !.seen = record]
                         ELSE NoCheck]
         /\ reload' = IF commits THEN "update" ELSE reload
         \* nobody waits for the record to be cleared
         /\ record' \in IF commits THEN {record, NoRecord} ELSE {record}
  /\ UNCHANGED <<page, slot, writes, deletion, lost, chrome>>

\* The worker stops and starts again, because of a reload, on Chrome's own account, or
\* with the browser, which installs what is downloaded.
WorkerRestart ==
  /\ queue' = <<>> /\ processed' = FALSE /\ activity' = "unknown"
  /\ slot' = "idle" /\ writes' = 0 /\ deletion' = "off" /\ reload' = "no"
  /\ checks' = Started([c \in Checks |-> NoCheck], Rechecking)
  /\ installed' \in IF reload = "no" THEN {installed, downloaded} ELSE {downloaded}
  /\ lost' = (lost /\ installed' # downloaded)
  /\ UNCHANGED <<inGame, record, downloaded>>

CheckStep(c) ==
  \/ SkipUpload(c) \/ StartUpload(c) \/ EndUpload(c)
  \/ RecordedFirst(c) \/ Recheck(c) \/ Refused(c)
  \/ IngestionSettled(c) \/ StorageSettled(c) \/ Decide(c)
Deletion == DeletionDrained \/ DeletionReloads \/ DeletionFails

UpdateNext ==
  \/ \E m \in Message : Accept(m)
  \/ Process \/ Settle
  \/ StartOperation \/ EndOperation
  \/ StartDeletion \/ Deletion
  \/ EnqueueWrite \/ SettleWrite
  \/ UpdateAvailable \/ ApplyNow
  \/ \E c \in Checks : CheckStep(c)
  \/ WorkerRestart

UpdateSpec == UpdateInit /\ [][UpdateNext]_updateVars

\* The worker goes on with what it has begun; nobody owes a message, an update or a crash.
Fairness ==
  /\ WF_updateVars(Process) /\ WF_updateVars(Settle) /\ WF_updateVars(SettleWrite) /\ WF_updateVars(EndOperation)
  /\ WF_updateVars(Deletion)
  /\ \A c \in Checks : WF_updateVars(CheckStep(c))
  /\ WF_updateVars(reload # "no" /\ WorkerRestart)
FairUpdateSpec == UpdateSpec /\ Fairness

-----------------------------------------------------------------------------
\* Every variable stays in its type.
UpdateTypeOK ==
  /\ inGame \in BOOLEAN
  /\ queue \in Seq(Message) /\ Len(queue) <= MaxQueue
  /\ processed \in BOOLEAN
  /\ activity \in {"unknown", "active", "inactive"}
  /\ slot \in {"idle", "sync", "busy", "delete"}
  /\ writes \in 0..MaxWrites
  /\ checks \in [Checks -> Check]
  /\ deletion \in {"off", "drain", "delete", "done"}
  /\ record \in Record /\ lost \in BOOLEAN
  /\ installed \in 1..MaxVersion /\ downloaded \in installed..MaxVersion
  /\ reload \in {"no", "update", "delete"}

Commits(who) == reload # who /\ reload' = who

\* A reload for an update finds no message that was accepted and not processed, no storage
\* write that was asked for and not done, and no operation; one after a deletion finds no
\* message.
ReloadOvertakesNothing ==
  [][/\ Commits("update") => queue = <<>> /\ writes = 0 /\ slot = "idle"
     /\ Commits("delete") => queue = <<>>]_updateVars

\* A reload for an update never comes in a game, whatever failed to be stored.
ReloadOutsideGame == [][Commits("update") => ~inGame]_updateVars

\* A safe moment that lasts is used: it is never the case from some point on that an update
\* is recorded, all is quiet, and nobody checks.
SafeMomentMissed ==
  /\ record.pending /\ ~lost /\ record.version > installed
  /\ IsSafe /\ queue = <<>> /\ writes = 0 /\ reload = "no"
SafeMomentNotMissed == []<>~SafeMomentMissed

\* An update that was found stays recorded until it is installed.
RecordedUpdateIsPending == downloaded > installed /\ reload = "no" => record.pending
=============================================================================
