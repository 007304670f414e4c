--------------------------- MODULE OperationSlot ---------------------------
(***************************************************************************)
(* The slot that long operations of the service worker share, and who       *)
(* claims it: jobs asked for by the popup, the chunked transfer of an       *)
(* import file, cloud syncs, the uploads a session boundary triggers, and   *)
(* the recovery of canonical data after a failed live commit, with its      *)
(* single-flight pass and the scheduler that drains requests into passes.   *)
(*                                                                         *)
(* One action is one synchronous stretch of JavaScript: what runs from one  *)
(* await to the next.  A waiter of waitForOperationIdle is woken by the      *)
(* transition to idle and runs later, when the slot may be taken again.     *)
(***************************************************************************)
EXTENDS Naturals, FiniteSets

CONSTANTS
  Fences,       \* raw results whose live commit may fail, each at most once
  Triggers,     \* session boundaries with a backlog above the threshold
  Jobs,         \* popup operations in play: "export", "rebuild", "import", "delete"
  MaxRequests,  \* bound: jobs, transfers and syncs that are ever asked for
  MaxFailures,  \* bound: jobs, syncs and recovery passes that throw
  MaxRestarts   \* bound: times the service worker is stopped

ASSUME JobsAssumption == Jobs \subseteq {"export", "rebuild", "import", "delete"}
ASSUME BoundsAssumption ==
  MaxRequests \in Nat /\ MaxFailures \in Nat /\ MaxRestarts \in Nat

VARIABLES
  op,          \* currentOperationState.type
  session,     \* currentImportSession: none, open, or complete
  job,         \* the popup operation whose handler is running
  sync,        \* how far performSync has got
  trigger,     \* syncIfBacklogExceedsThreshold of each session boundary
  pass,        \* canonicalRecoveryPromise
  drain,       \* canonicalRecoveryDrainPromise
  requested,   \* canonicalRecoveryRequestPending
  forced,      \* forcedCanonicalRecoveryFenceIds
  listed,      \* fences the running rebuild has listed
  boot,        \* the recovery a worker asks for when it starts
  dirty,       \* the canonical-rebuild marker
  marked,      \* fences recovery can see
  pending,     \* fences of failed hands still owned by this worker
  silent,      \* failed hands whose error the stream has not emitted yet
  fresh,       \* results whose commit has not failed so far
  requests, failures, restarts,
  ownPass      \* history: fences a forced pass has been started for

durable == <<dirty, marked, pending>>
scheduler == <<drain, requested, forced>>
bounds == <<requests, failures, restarts>>
vars == <<op, session, job, sync, trigger, pass, drain, requested, forced, listed, boot,
          dirty, marked, pending, silent, fresh, requests, failures, restarts, ownPass>>

NoPass == [pc |-> "none", force |-> FALSE, ids |-> {}]
NoDrain == [pc |-> "none", ids |-> {}, during |-> FALSE, durable |-> FALSE]
NeedsRecovery == dirty \/ marked # {}

\* Given the results whose commit may still fail, the boundaries that have a backlog,
\* and how much of the bounds is spent.
InitWith(failing, backlog, asked, thrown) ==
  /\ op = "idle" /\ session = "none" /\ job = "none" /\ sync = "none"
  /\ trigger = [t \in Triggers |-> IF t \in backlog THEN "fresh" ELSE "settled"]
  /\ pass = NoPass /\ drain = NoDrain /\ requested = FALSE /\ forced = {} /\ listed = {}
  /\ boot = "start"
  /\ dirty \in BOOLEAN /\ marked = {} /\ pending = {} /\ silent = {} /\ fresh = failing
  /\ requests = asked /\ failures = thrown /\ restarts = 0 /\ ownPass = {}
Init == InitWith(Fences, Triggers, 0, 0)

-----------------------------------------------------------------------------
\* setOperationState({ type: 'idle' }) notifies a snapshot of the listeners.
WakeTriggersSpliced(ws) ==  \* mutant
  LET first == CHOOSE t \in Triggers : ws[t] = "wait"
  IN [t \in Triggers |-> IF ws[t] = "wait" /\ t = first THEN "woken" ELSE ws[t]]
WakeTriggers(ws) == [t \in Triggers |-> IF ws[t] = "wait" THEN "woken" ELSE ws[t]]
WakePass(p) == IF p.pc = "wait" THEN [p EXCEPT !.pc = "woken"] ELSE p
BecomeIdle ==
  /\ op' = "idle"
  /\ trigger' = WakeTriggers(trigger)
  /\ pass' = WakePass(pass)

Request == requests < MaxRequests /\ requests' = requests + 1
Fail == failures < MaxFailures /\ failures' = failures + 1

\* rebuildLocalEntities ends: what it listed is recovered, and its marker goes.
ListFences(explicit) == listed' = marked \cup explicit
RebuildDone ==
  /\ dirty' = FALSE
  /\ marked' = marked \ listed
  /\ pending' = pending \ listed
\* performFullRebuild clears every marker and every fence.
FullRebuildDone == dirty' = FALSE /\ marked' = {} /\ pending' = {}

-----------------------------------------------------------------------------
\* Popup operations: the message handler checks the slot and claims it at once.
StartJob(j) ==
  /\ op = "idle"
  /\ Request
  /\ job' = j /\ op' = j
  /\ UNCHANGED <<session, sync, trigger, pass, scheduler, listed, boot, durable, silent,
                 fresh, failures, restarts, ownPass>>

\* An import merges pages under the dirty marker, then rebuilds in the same slot.
ImportRebuilds ==
  /\ job = "import" /\ op = "import"
  /\ op' = "rebuild"
  /\ dirty' = TRUE
  /\ UNCHANGED <<session, job, sync, trigger, pass, scheduler, listed, boot, marked, pending,
                 silent, fresh, bounds, ownPass>>

FinishJob ==
  /\ job \in {"export", "rebuild", "import"}
  /\ \/ job # "export" /\ op = "rebuild" /\ FullRebuildDone
     \/ op # "rebuild" /\ UNCHANGED durable
  /\ job' = "none"
  /\ BecomeIdle
  /\ UNCHANGED <<session, sync, scheduler, listed, boot, silent, fresh, bounds, ownPass>>

FailJob ==
  /\ job # "none"
  /\ Fail
  /\ job' = "none"
  /\ BecomeIdle
  /\ UNCHANGED <<session, sync, scheduler, listed, boot, durable, silent, fresh, requests,
                 restarts, ownPass>>

\* The transfer of an import file owns the slot from its first message.
StartImportSession ==
  /\ "import" \in Jobs
  /\ op = "idle"
  /\ Request
  /\ session' = "open" /\ op' = "import"
  /\ UNCHANGED <<job, sync, trigger, pass, scheduler, listed, boot, durable, silent, fresh,
                 failures, restarts, ownPass>>

AddImportChunk ==
  /\ session # "none" /\ op = "import"
  /\ session' \in {session, "complete"}
  /\ UNCHANGED <<op, job, sync, trigger, pass, scheduler, listed, boot, durable, silent,
                 fresh, bounds, ownPass>>

\* importDataCancel, or no chunk for IMPORT_SESSION_TIMEOUT_MS.
ClearImportSession ==
  /\ session # "none"
  /\ session' = "none"
  /\ IF op = "import" THEN BecomeIdle ELSE UNCHANGED <<op, trigger, pass>>
  /\ UNCHANGED <<job, sync, scheduler, listed, boot, durable, silent, fresh, bounds, ownPass>>

\* importDataProcess detaches the session; importData goes on in the same slot.
ProcessImportSession ==
  /\ session = "complete" /\ op = "import"
  /\ session' = "none" /\ job' = "import"
  /\ UNCHANGED <<op, sync, trigger, pass, scheduler, listed, boot, durable, silent, fresh,
                 bounds, ownPass>>

-----------------------------------------------------------------------------
\* performSync: latch and slot are claimed before the first await.
ClaimSync == sync = "none" /\ op = "idle" /\ sync' = "gate" /\ op' = "sync"

StartSync ==
  /\ Request
  /\ ClaimSync
  /\ UNCHANGED <<session, job, trigger, pass, scheduler, listed, boot, durable, silent,
                 fresh, failures, restarts, ownPass>>

EndSync ==
  /\ sync' = "none"
  /\ IF op = "sync" THEN BecomeIdle ELSE UNCHANGED <<op, trigger, pass>>

\* The minimum-version gate ends the pass, or a pending recovery goes first.
PassGate ==
  /\ sync = "gate"
  /\ \/ EndSync
     \/ /\ sync' = IF NeedsRecovery THEN "recover" ELSE "body"
        /\ op' = IF NeedsRecovery THEN "rebuild" ELSE op
        /\ UNCHANGED <<trigger, pass>>
  /\ UNCHANGED <<session, job, scheduler, listed, boot, durable, silent, fresh, bounds,
                 ownPass>>

\* recoverCanonicalRebuildWithOwnedSlot, inside the slot of the sync.
SyncListsFences ==
  /\ sync \in {"recover", "recover after failure"}
  /\ sync' = IF sync = "recover" THEN "replay" ELSE "replay after failure"
  /\ ListFences({})
  /\ UNCHANGED <<op, session, job, trigger, pass, scheduler, boot, durable, silent, fresh,
                 bounds, ownPass>>

RestoreNothing == UNCHANGED op  \* mutant
RestoreOperation == op' = IF op = "rebuild" THEN "sync" ELSE op
SyncRecovered ==
  /\ sync \in {"replay", "replay after failure"}
  /\ RebuildDone
  /\ RestoreOperation
  /\ sync' = IF sync = "replay" THEN "body" ELSE "end"
  /\ UNCHANGED <<session, job, trigger, pass, scheduler, listed, boot, silent, fresh, bounds,
                 ownPass>>
SyncRecoveryFails ==
  /\ sync \in {"recover", "replay", "recover after failure", "replay after failure"}
  /\ Fail
  /\ RestoreOperation
  /\ sync' = "end"
  /\ UNCHANGED <<session, job, trigger, pass, scheduler, listed, boot, durable, silent,
                 fresh, requests, restarts, ownPass>>

\* The download merges rows under the dirty marker and rebuilds.
SyncDownloads ==
  /\ sync = "body"
  /\ sync' = "download"
  /\ dirty' = TRUE
  /\ ListFences({})
  /\ UNCHANGED <<op, session, job, trigger, pass, scheduler, boot, marked, pending, silent,
                 fresh, bounds, ownPass>>
SyncSucceeds ==
  /\ \/ sync = "body" /\ UNCHANGED durable
     \/ sync = "download" /\ RebuildDone
  /\ sync' = "end"
  /\ UNCHANGED <<op, session, job, trigger, pass, scheduler, listed, boot, silent, fresh,
                 bounds, ownPass>>
\* The upload or the download throws; what it left dirty is recovered at once.
SyncFails ==
  /\ sync \in {"body", "download"}
  /\ Fail
  /\ sync' = IF NeedsRecovery THEN "recover after failure" ELSE "end"
  /\ op' = IF NeedsRecovery THEN "rebuild" ELSE op
  /\ UNCHANGED <<session, job, trigger, pass, scheduler, listed, boot, durable, silent,
                 fresh, requests, restarts, ownPass>>
FinishSync ==
  /\ sync = "end"
  /\ EndSync
  /\ UNCHANGED <<session, job, scheduler, listed, boot, durable, silent, fresh, bounds,
                 ownPass>>

-----------------------------------------------------------------------------
\* syncIfBacklogExceedsThreshold: waits for the slot, and gives way to a running
\* sync, which covers the same backlog.
TriggerUpload(t) ==
  /\ trigger[t] \in {"fresh", "woken"}
  /\ \/ /\ sync = "none" /\ op = "idle"
        /\ ClaimSync
        /\ trigger' = [trigger EXCEPT ![t] = "settled"]
     \/ /\ sync = "none" /\ op # "idle"
        /\ trigger' = [trigger EXCEPT ![t] = "wait"]
        /\ UNCHANGED <<op, sync>>
     \/ /\ sync # "none" \/ trigger[t] = "woken"  \* the account may have changed
        /\ trigger' = [trigger EXCEPT ![t] = "settled"]
        /\ UNCHANGED <<op, sync>>
  /\ UNCHANGED <<session, job, pass, scheduler, listed, boot, durable, silent, fresh, bounds,
                 ownPass>>

-----------------------------------------------------------------------------
\* recoverInterruptedCanonicalRebuild.  A forced pass takes a free slot at once; any
\* other first asks the markers.
BeginPass(force, ids) ==
  /\ pass' = [pc |-> IF ~force THEN "ask" ELSE IF op = "idle" THEN "list" ELSE "wait",
              force |-> force, ids |-> ids]
  /\ op' = IF force /\ op = "idle" THEN "rebuild" ELSE op
  /\ ownPass' = ownPass \cup ids

\* The worker asks for a recovery when it starts; it joins a pass already running.
BootRecovery ==
  /\ boot = "start"
  /\ boot' = "done"
  /\ IF pass.pc = "none" THEN BeginPass(FALSE, {}) ELSE UNCHANGED <<op, pass, ownPass>>
  /\ UNCHANGED <<session, job, sync, trigger, scheduler, listed, durable, silent, fresh,
                 bounds>>

\* Who awaits the pass when it settles: the drain that began it, or joined it.
PassAwaited ==
  drain' = CASE drain.pc = "own" -> [drain EXCEPT !.pc = "passed"]
             [] drain.pc = "joined" -> [drain EXCEPT !.pc = "next"]
             [] OTHER -> drain
NothingToRecover == op' = op /\ pass' = NoPass /\ PassAwaited

AskMarkers ==
  /\ pass.pc = "ask"
  /\ IF NeedsRecovery
     THEN /\ pass' = [pass EXCEPT !.pc = IF op = "idle" THEN "ask again" ELSE "wait"]
          /\ UNCHANGED <<op, drain>>
     ELSE NothingToRecover
  /\ UNCHANGED <<session, job, sync, trigger, requested, forced, listed, boot, durable,
                 silent, fresh, bounds, ownPass>>

\* The slot may have been taken while the markers were read.
TakeSlotUnchecked(retry) ==  \* mutant
  op' = "rebuild" /\ pass' = [pass EXCEPT !.pc = "list"]
TakeSlot(retry) ==
  IF op = "idle" THEN op' = "rebuild" /\ pass' = [pass EXCEPT !.pc = "list"]
  ELSE op' = op /\ pass' = [pass EXCEPT !.pc = retry]

AskMarkersAgain ==
  /\ pass.pc = "ask again" \/ (pass.pc = "woken" /\ ~pass.force)
  /\ IF NeedsRecovery THEN TakeSlot("ask") /\ drain' = drain ELSE NothingToRecover
  /\ UNCHANGED <<session, job, sync, trigger, requested, forced, listed, boot, durable,
                 silent, fresh, bounds, ownPass>>

RetryForcedPass ==
  /\ pass.pc = "woken" /\ pass.force
  /\ TakeSlot("wait")
  /\ UNCHANGED <<session, job, sync, trigger, scheduler, listed, boot, durable, silent,
                 fresh, bounds, ownPass>>

PassListsFences ==
  /\ pass.pc = "list"
  /\ pass' = [pass EXCEPT !.pc = "replay"]
  /\ ListFences(pass.ids)
  /\ UNCHANGED <<op, session, job, sync, trigger, scheduler, boot, durable, silent, fresh,
                 bounds, ownPass>>

\* The pass settles: the promise is cleared and the drain goes on.
SettlePass ==
  /\ op' = IF op = "rebuild" THEN "idle" ELSE op
  /\ trigger' = IF op = "rebuild" THEN WakeTriggers(trigger) ELSE trigger
  /\ pass' = NoPass

PassRecovered ==
  /\ pass.pc = "replay"
  /\ RebuildDone
  /\ SettlePass
  /\ PassAwaited
  /\ UNCHANGED <<session, job, sync, requested, forced, listed, boot, silent, fresh, bounds,
                 ownPass>>

PassFails ==
  /\ pass.pc \in {"list", "replay"}
  /\ Fail
  /\ SettlePass
  /\ drain' = IF drain.pc \in {"own", "joined"} THEN [drain EXCEPT !.pc = "leave"] ELSE drain
  /\ UNCHANGED <<session, job, sync, requested, forced, listed, boot, durable, silent,
                 fresh, requests, restarts, ownPass>>

-----------------------------------------------------------------------------
\* A live commit aborts; its fence is marked, or the mark fails as well.
AbortLiveCommit(f) ==
  /\ f \in fresh
  /\ fresh' = fresh \ {f}
  /\ silent' = silent \cup {f}
  /\ \/ marked' = marked \cup {f} /\ pending' = pending
     \/ marked' = marked /\ pending' = pending \cup {f}
  /\ UNCHANGED <<op, session, job, sync, trigger, pass, scheduler, listed, boot, dirty,
                 bounds, ownPass>>

\* One turn of the drain loop: its own pass, or the one already running first.
DrainTurn(ids) ==
  IF pass.pc = "none"
  THEN /\ BeginPass(TRUE, ids)
       /\ drain' = [NoDrain EXCEPT !.pc = "own", !.ids = ids]
  ELSE /\ drain' = [NoDrain EXCEPT !.pc = "joined", !.ids = ids]
       /\ UNCHANGED <<op, pass, ownPass>>

\* scheduleCanonicalRebuildRecovery, from the error event of the stream
ScheduleRecovery(f) ==
  /\ f \in silent
  /\ silent' = silent \ {f}
  /\ forced' = forced \cup {f}
  /\ IF drain.pc # "none"
     THEN requested' = TRUE /\ UNCHANGED <<op, pass, drain, ownPass>>
     ELSE requested' = FALSE /\ DrainTurn(forced')
  /\ UNCHANGED <<session, job, sync, trigger, listed, boot, durable, fresh, bounds>>

\* The pass it joined has settled: now its own fences.
DrainOwnPass ==
  /\ drain.pc = "next"
  /\ DrainTurn(drain.ids)
  /\ UNCHANGED <<session, job, sync, trigger, requested, forced, listed, boot, durable,
                 silent, fresh, bounds>>

DrainPassed ==
  /\ drain.pc = "passed"
  /\ forced' = forced \ drain.ids
  /\ drain' = [drain EXCEPT !.pc = "ask", !.during = requested]
  /\ UNCHANGED <<op, session, job, sync, trigger, pass, requested, listed, boot, durable,
                 silent, fresh, bounds, ownPass>>

DrainAsksMarkers ==
  /\ drain.pc = "ask"
  /\ drain' = [drain EXCEPT !.pc = "decide", !.durable = NeedsRecovery]
  /\ UNCHANGED <<op, session, job, sync, trigger, pass, requested, forced, listed, boot,
                 durable, silent, fresh, bounds, ownPass>>

DrainDecides ==
  /\ drain.pc = "decide"
  /\ IF drain.during \/ forced # {} \/ drain.durable
     THEN requested' = FALSE /\ DrainTurn(forced)
     ELSE requested' = FALSE /\ drain' = [drain EXCEPT !.pc = "leave"]
          /\ UNCHANGED <<op, pass, ownPass>>
  /\ UNCHANGED <<session, job, sync, trigger, forced, listed, boot, durable, silent, fresh,
                 bounds>>

AskedSinceNever == FALSE  \* mutant
AskedSince == requested
\* finally: a request that came after the last decision starts another drain.
LeaveDrain ==
  /\ drain.pc = "leave"
  /\ IF AskedSince
     THEN requested' = FALSE /\ DrainTurn(forced)
     ELSE drain' = NoDrain /\ UNCHANGED <<op, pass, requested, ownPass>>
  /\ UNCHANGED <<session, job, sync, trigger, forced, listed, boot, durable, silent, fresh,
                 bounds>>

-----------------------------------------------------------------------------
\* A new worker: fences of the former one are visible to its recovery.
NewWorker ==
  /\ op' = "idle" /\ session' = "none" /\ job' = "none" /\ sync' = "none"
  /\ pass' = NoPass /\ drain' = NoDrain /\ requested' = FALSE /\ forced' = {} /\ listed' = {}
  /\ silent' = {} /\ boot' = "start"
  /\ trigger' = [t \in Triggers |-> IF trigger[t] = "fresh" THEN "fresh" ELSE "settled"]

Restart ==
  /\ restarts < MaxRestarts
  /\ restarts' = restarts + 1
  /\ NewWorker
  /\ marked' = marked \cup pending /\ pending' = {}
  /\ UNCHANGED <<dirty, fresh, requests, failures, ownPass>>

\* deleteAllData ends in runtime.reload over an empty database.
DeleteAllData ==
  /\ job = "delete"
  /\ NewWorker
  /\ dirty' = FALSE /\ marked' = {} /\ pending' = {}
  /\ UNCHANGED <<fresh, bounds, ownPass>>

-----------------------------------------------------------------------------
JobNext ==
  \/ \E j \in Jobs : StartJob(j)
  \/ ImportRebuilds
  \/ FinishJob
  \/ FailJob
  \/ StartImportSession
  \/ AddImportChunk
  \/ ClearImportSession
  \/ ProcessImportSession
SyncNext ==
  \/ StartSync
  \/ PassGate
  \/ SyncListsFences
  \/ SyncRecovered
  \/ SyncRecoveryFails
  \/ SyncDownloads
  \/ SyncSucceeds
  \/ SyncFails
  \/ FinishSync
PassNext ==
  \/ BootRecovery
  \/ AskMarkers
  \/ AskMarkersAgain
  \/ RetryForcedPass
  \/ PassListsFences
  \/ PassRecovered
  \/ PassFails
DrainNext ==
  \/ \E f \in Fences : AbortLiveCommit(f) \/ ScheduleRecovery(f)
  \/ DrainOwnPass
  \/ DrainPassed
  \/ DrainAsksMarkers
  \/ DrainDecides
  \/ LeaveDrain
Next ==
  \/ JobNext
  \/ SyncNext
  \/ PassNext
  \/ DrainNext
  \/ \E t \in Triggers : TriggerUpload(t)
  \/ Restart
  \/ DeleteAllData

Spec == Init /\ [][Next]_vars

\* The JavaScript event loop runs every continuation that is ready, an operation that
\* runs ends, and the transfer timer fires.
Fairness ==
  /\ WF_vars(ImportRebuilds) /\ WF_vars(FinishJob) /\ WF_vars(ClearImportSession)
  /\ WF_vars(DeleteAllData)
  /\ WF_vars(PassGate) /\ WF_vars(SyncListsFences) /\ WF_vars(SyncRecovered)
  /\ WF_vars(SyncSucceeds) /\ WF_vars(FinishSync)
  /\ WF_vars(BootRecovery) /\ WF_vars(AskMarkers) /\ WF_vars(AskMarkersAgain)
  /\ WF_vars(RetryForcedPass) /\ WF_vars(PassListsFences) /\ WF_vars(PassRecovered)
  /\ \A f \in Fences : WF_vars(ScheduleRecovery(f))
  /\ WF_vars(DrainOwnPass) /\ WF_vars(DrainPassed) /\ WF_vars(DrainAsksMarkers)
  /\ WF_vars(DrainDecides) /\ WF_vars(LeaveDrain)
  /\ \A t \in Triggers : WF_vars(TriggerUpload(t))
FairSpec == Spec /\ Fairness

-----------------------------------------------------------------------------
PassRecord ==
  [pc : {"none", "ask", "ask again", "wait", "woken", "list", "replay"},
   force : BOOLEAN, ids : SUBSET Fences]
DrainRecord ==
  [pc : {"none", "own", "joined", "next", "passed", "ask", "decide", "leave"},
   ids : SUBSET Fences, during : BOOLEAN, durable : BOOLEAN]
SyncSteps ==
  {"gate", "recover", "replay", "body", "download", "recover after failure",
   "replay after failure", "end"}

\* Every variable stays in its type.
TypeOK ==
  /\ op \in {"idle", "sync"} \cup {"export", "rebuild", "import", "delete"}
  /\ session \in {"none", "open", "complete"}
  /\ job \in {"none", "export", "rebuild", "import", "delete"}
  /\ sync \in SyncSteps \cup {"none"}
  /\ trigger \in [Triggers -> {"fresh", "wait", "woken", "settled"}]
  /\ pass \in PassRecord
  /\ drain \in DrainRecord
  /\ requested \in BOOLEAN /\ dirty \in BOOLEAN
  /\ forced \subseteq Fences /\ listed \subseteq Fences /\ ownPass \subseteq Fences
  /\ marked \subseteq Fences /\ pending \subseteq Fences
  /\ silent \subseteq Fences /\ fresh \subseteq Fences
  /\ boot \in {"start", "done"}
  /\ requests \in 0..MaxRequests /\ failures \in 0..MaxFailures
  /\ restarts \in 0..MaxRestarts

\* Who runs a long operation, by the code it is in and not by the slot.
Holders ==
  {h \in {"transfer", "job", "sync", "recovery"} :
     CASE h = "transfer" -> session # "none"
       [] h = "job" -> job # "none"
       [] h = "sync" -> sync # "none"
       [] h = "recovery" -> pass.pc \in {"list", "replay"}}

\* The shared slot is idle exactly when nobody runs, and never two run at once: no
\* recheck after an await is missing, no finally frees a slot it does not own, and
\* no slot is left claimed by an operation that has ended.
SlotExclusive ==
  /\ op = "idle" <=> Holders = {}
  /\ \A a, b \in Holders : a = b

\* A recovery nested in a sync runs as "rebuild" and gives the slot back to it, so the
\* sync's finally finds its own type there.
SlotNamesItsHolder ==
  /\ sync \in {"gate", "body", "download", "end"} => op = "sync"
  /\ sync \in SyncSteps \ {"gate", "body", "download", "end"} => op = "rebuild"
  /\ pass.pc \in {"list", "replay"} => op = "rebuild"
  /\ session # "none" => op = "import"

\* The slot implements the exclusive operation: transfer and import of a file are one
\* holder, a sync and the recovery nested in it are one, and a holder that ends leaves
\* the slot free before the next one takes it.
Holder ==
  IF session # "none" \/ job # "none" THEN "popup"
  ELSE IF sync # "none" THEN "sync"
  ELSE IF pass.pc \in {"list", "replay"} THEN "recovery" ELSE "nobody"
Slot == INSTANCE ExclusiveOperation
          WITH Kinds <- {"popup", "sync", "recovery"}, Nobody <- "nobody", holder <- Holder
OneHolderAtATime == Slot!Spec

\* A hand whose live commit failed is recovered, whatever pass is running and whatever
\* holds the slot when its request arrives, and across restarts, as long as no
\* operation throws.
FailedHandsRecovered == \A n \in {0, MaxFailures} :
  [](failures = n) =>
    \A f \in Fences : f \in marked \cup pending ~> f \notin marked \cup pending

\* Every upload that waits for the slot is woken and settles.
WaitingUploadsSettle == \A t \in Triggers : trigger[t] = "wait" ~> trigger[t] = "settled"

\* No operation keeps the slot for ever; a sync that recovers inside its own slot does
\* not wait for that slot.
SlotReleased == op # "idle" ~> op = "idle"

\* Nobody waits for ever on the slot: whoever holds it lets go, and whoever waits is woken.
HoldersAndWaitersSettle == SlotReleased /\ WaitingUploadsSettle

\* A forced request gets a pass of its own after the pass it joined.
ForcedRequestGetsItsPass == \A f \in Fences : f \in forced ~> f \in ownPass
=============================================================================
