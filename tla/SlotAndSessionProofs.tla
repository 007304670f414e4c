------------------------ MODULE SlotAndSessionProofs ------------------------
(***************************************************************************)
(* The two things every part of the worker asks for before it commits: the    *)
(* operation slot, which is exclusive whatever operations, failures and      *)
(* restarts come together, and the account session, which keeps its promise  *)
(* for any number of sign-ins, token refreshes, sign-outs and restarts.       *)
(***************************************************************************)
EXTENDS OperationSlot, AuthService, TLAPS

-----------------------------------------------------------------------------
(* The operation slot.                                                      *)

Transferring == session # "none"
Working == job # "none"
Syncing == sync # "none"
Recovering == pass.pc \in {"list", "replay"}

\* The slot, said of each pair of holders.
Alone ==
  /\ op = "idle" <=> ~Transferring /\ ~Working /\ ~Syncing /\ ~Recovering
  /\ ~(Transferring /\ Working) /\ ~(Transferring /\ Syncing)
  /\ ~(Transferring /\ Recovering) /\ ~(Working /\ Syncing)
  /\ ~(Working /\ Recovering) /\ ~(Syncing /\ Recovering)

\* Exclusiveness is inductive once each holder knows the type it left in the slot.
SlotInv == Alone /\ SlotNamesItsHolder

\* The holders, one by one.
LEMMA HoldersAre ==
  /\ "transfer" \in Holders <=> Transferring
  /\ "job" \in Holders <=> Working
  /\ "sync" \in Holders <=> Syncing
  /\ "recovery" \in Holders <=> Recovering
  /\ Holders \subseteq {"transfer", "job", "sync", "recovery"}
BY DEF Holders, Transferring, Working, Syncing, Recovering

\* What is proved of pairs is what the run checks of the set of holders.
LEMMA AloneIsExclusive == Alone => SlotExclusive
<1>1. ASSUME Alone PROVE op = "idle" <=> Holders = {}
  BY <1>1, HoldersAre DEF Alone
<1>2. ASSUME Alone, NEW a \in Holders, NEW b \in Holders PROVE a = b
  BY <1>2, HoldersAre DEF Alone
<1> QED
  BY <1>1, <1>2 DEF SlotExclusive

LEMMA InitHolds == Init => SlotInv
BY DEF Init, InitWith, SlotInv, Alone, SlotNamesItsHolder, Transferring, Working, Syncing, Recovering,
       NoPass, SyncSteps

-----------------------------------------------------------------------------
\* Type correctness, one group of actions at a time.
PassSteps == {"none", "ask", "ask again", "wait", "woken", "list", "replay"}
DrainSteps == {"none", "own", "joined", "next", "passed", "ask", "decide", "leave"}

LEMMA PassAt ==
  ASSUME pass \in PassRecord, NEW pc \in PassSteps
  PROVE  [pass EXCEPT !.pc = pc] \in PassRecord
BY DEF PassRecord, PassSteps

LEMMA DrainAt ==
  ASSUME drain \in DrainRecord, NEW pc \in DrainSteps
  PROVE  [drain EXCEPT !.pc = pc] \in DrainRecord
BY DEF DrainRecord, DrainSteps

LEMMA Resting == NoPass \in PassRecord /\ NoDrain \in DrainRecord
BY DEF NoPass, NoDrain, PassRecord, DrainRecord

LEMMA InitTypes == Init => TypeOK
<1> SUFFICES ASSUME Init PROVE TypeOK
  OBVIOUS
<1>1. requests \in 0..MaxRequests /\ failures \in 0..MaxFailures /\ restarts \in 0..MaxRestarts
  BY BoundsAssumption DEF Init, InitWith
<1>2. pass \in PassRecord /\ drain \in DrainRecord
  BY Resting DEF Init, InitWith
<1> QED
  BY <1>1, <1>2 DEF Init, InitWith, TypeOK

LEMMA WakeTypes ==
  ASSUME TypeOK, BecomeIdle
  PROVE  op' = "idle" /\ trigger' \in [Triggers -> {"fresh", "wait", "woken", "settled"}]
           /\ pass' \in PassRecord
BY DEF TypeOK, BecomeIdle, WakeTriggers, WakePass, PassRecord

LEMMA RequestTypes == ASSUME TypeOK, Request PROVE requests' \in 0..MaxRequests
BY BoundsAssumption DEF TypeOK, Request

LEMMA FailTypes == ASSUME TypeOK, Fail PROVE failures' \in 0..MaxFailures
BY BoundsAssumption DEF TypeOK, Fail

LEMMA JobTypes == ASSUME TypeOK, JobNext PROVE TypeOK'
<1>1. ASSUME NEW j \in Jobs, StartJob(j) PROVE TypeOK'
  BY <1>1, JobsAssumption, RequestTypes DEF StartJob, TypeOK, durable, scheduler
<1>2. CASE ImportRebuilds
  BY <1>2 DEF ImportRebuilds, TypeOK, scheduler, bounds
<1>3. CASE FinishJob
  BY <1>3, WakeTypes DEF FinishJob, FullRebuildDone, TypeOK, durable, scheduler, bounds
<1>4. CASE FailJob
  BY <1>4, WakeTypes, FailTypes DEF FailJob, TypeOK, durable, scheduler
<1>5. CASE StartImportSession
  BY <1>5, RequestTypes DEF StartImportSession, TypeOK, durable, scheduler
<1>6. CASE AddImportChunk
  BY <1>6 DEF AddImportChunk, TypeOK, durable, scheduler, bounds
<1>7. CASE ClearImportSession
  BY <1>7, WakeTypes DEF ClearImportSession, TypeOK, durable, scheduler, bounds
<1>8. CASE ProcessImportSession
  BY <1>8 DEF ProcessImportSession, TypeOK, durable, scheduler, bounds
<1> QED
  BY <1>1, <1>2, <1>3, <1>4, <1>5, <1>6, <1>7, <1>8 DEF JobNext

LEMMA SyncTypes == ASSUME TypeOK, SyncNext PROVE TypeOK'
<1>1. CASE StartSync
  BY <1>1, RequestTypes DEF StartSync, ClaimSync, TypeOK, SyncSteps, durable, scheduler
<1>2. CASE PassGate
  BY <1>2, WakeTypes DEF PassGate, EndSync, TypeOK, SyncSteps, durable, scheduler, bounds
<1>3. CASE SyncListsFences
  BY <1>3 DEF SyncListsFences, ListFences, TypeOK, SyncSteps, durable, scheduler, bounds
<1>4. CASE SyncRecovered
  BY <1>4 DEF SyncRecovered, RebuildDone, RestoreOperation, TypeOK, SyncSteps, scheduler,
              bounds
<1>5. CASE SyncRecoveryFails
  BY <1>5, FailTypes DEF SyncRecoveryFails, RestoreOperation, TypeOK, SyncSteps, durable,
                         scheduler
<1>6. CASE SyncDownloads
  BY <1>6 DEF SyncDownloads, ListFences, TypeOK, SyncSteps, scheduler, bounds
<1>7. CASE SyncSucceeds
  BY <1>7 DEF SyncSucceeds, RebuildDone, TypeOK, SyncSteps, durable, scheduler, bounds
<1>8. CASE SyncFails
  BY <1>8, FailTypes DEF SyncFails, TypeOK, SyncSteps, durable, scheduler
<1>9. CASE FinishSync
  BY <1>9, WakeTypes DEF FinishSync, EndSync, TypeOK, durable, scheduler, bounds
<1> QED
  BY <1>1, <1>2, <1>3, <1>4, <1>5, <1>6, <1>7, <1>8, <1>9 DEF SyncNext

LEMMA BeginPassTypes ==
  ASSUME TypeOK, NEW force \in BOOLEAN, NEW ids \in SUBSET Fences, BeginPass(force, ids)
  PROVE  /\ pass' \in PassRecord
         /\ op' \in {op, "rebuild"}
         /\ ownPass' \subseteq Fences
BY DEF TypeOK, BeginPass, PassRecord

LEMMA PassAwaitedTypes == ASSUME TypeOK, PassAwaited PROVE drain' \in DrainRecord
BY DEF TypeOK, PassAwaited, DrainRecord

LEMMA SettleTypes ==
  ASSUME TypeOK, SettlePass
  PROVE  /\ op' \in {op, "idle"}
         /\ trigger' \in [Triggers -> {"fresh", "wait", "woken", "settled"}]
         /\ pass' \in PassRecord
BY DEF TypeOK, SettlePass, WakeTriggers, NoPass, PassRecord

LEMMA TakeSlotTypes ==
  ASSUME TypeOK, NEW retry \in {"ask", "wait"}, TakeSlot(retry)
  PROVE  op' \in {op, "rebuild"} /\ pass' \in PassRecord
BY PassAt DEF TypeOK, TakeSlot, PassSteps

LEMMA PassTypes == ASSUME TypeOK, PassNext PROVE TypeOK'
<1>1. CASE BootRecovery
  BY <1>1, BeginPassTypes DEF BootRecovery, TypeOK, durable, scheduler, bounds
<1>2. CASE AskMarkers
  <2>1. CASE NeedsRecovery
    <3>1. pass' \in PassRecord
      BY <1>2, <2>1, PassAt DEF AskMarkers, TypeOK, PassSteps
    <3> QED
      BY <1>2, <2>1, <3>1 DEF AskMarkers, TypeOK, durable, bounds
  <2>2. CASE ~NeedsRecovery
    BY <1>2, <2>2, PassAwaitedTypes, Resting DEF AskMarkers, NothingToRecover, TypeOK,
                                                 durable, bounds
  <2> QED
    BY <2>1, <2>2
<1>3. CASE AskMarkersAgain
  <2>1. CASE NeedsRecovery
    <3>1. TakeSlot("ask")
      BY <1>3, <2>1 DEF AskMarkersAgain
    <3>2. op' \in {op, "rebuild"} /\ pass' \in PassRecord
      BY <3>1, TakeSlotTypes
    <3> QED
      BY <1>3, <2>1, <3>2 DEF AskMarkersAgain, TypeOK, durable, bounds
  <2>2. CASE ~NeedsRecovery
    BY <1>3, <2>2, PassAwaitedTypes, Resting DEF AskMarkersAgain, NothingToRecover, TypeOK,
                                                 durable, bounds
  <2> QED
    BY <2>1, <2>2
<1>4. CASE RetryForcedPass
  BY <1>4, TakeSlotTypes DEF RetryForcedPass, TypeOK, durable, scheduler, bounds
<1>5. CASE PassListsFences
  BY <1>5 DEF PassListsFences, ListFences, TypeOK, PassRecord, durable, scheduler, bounds
<1>6. CASE PassRecovered
  BY <1>6, PassAwaitedTypes, SettleTypes DEF PassRecovered, RebuildDone, TypeOK, bounds
<1>7. CASE PassFails
  <2>1. drain' \in DrainRecord
    BY <1>7 DEF PassFails, TypeOK, DrainRecord
  <2> QED
    BY <1>7, <2>1, SettleTypes, FailTypes DEF PassFails, TypeOK, durable
<1> QED
  BY <1>1, <1>2, <1>3, <1>4, <1>5, <1>6, <1>7 DEF PassNext

LEMMA DrainTurnTypes ==
  ASSUME TypeOK, NEW ids \in SUBSET Fences, DrainTurn(ids)
  PROVE  /\ drain' \in DrainRecord
         /\ pass' \in PassRecord
         /\ op' \in {op, "rebuild"}
         /\ ownPass' \subseteq Fences
<1>1. drain' \in DrainRecord
  BY DEF DrainTurn, NoDrain, DrainRecord
<1>2. CASE pass.pc = "none"
  BY <1>1, <1>2, BeginPassTypes DEF DrainTurn
<1>3. CASE pass.pc # "none"
  BY <1>1, <1>3 DEF DrainTurn, TypeOK
<1> QED
  BY <1>2, <1>3

LEMMA DrainTypes == ASSUME TypeOK, DrainNext PROVE TypeOK'
<1>1. ASSUME NEW f \in Fences, AbortLiveCommit(f) PROVE TypeOK'
  BY <1>1 DEF AbortLiveCommit, TypeOK, scheduler, bounds
<1>2. ASSUME NEW f \in Fences, ScheduleRecovery(f) PROVE TypeOK'
  <2>1. forced' \in SUBSET Fences
    BY <1>2 DEF ScheduleRecovery, TypeOK
  <2>2. CASE drain.pc # "none"
    BY <1>2, <2>1, <2>2 DEF ScheduleRecovery, TypeOK, durable, bounds
  <2>3. CASE drain.pc = "none"
    BY <1>2, <2>1, <2>3, DrainTurnTypes DEF ScheduleRecovery, TypeOK, durable, bounds
  <2> QED
    BY <2>2, <2>3
<1>3. CASE DrainOwnPass
  <2>1. drain.ids \in SUBSET Fences
    BY DEF TypeOK, DrainRecord
  <2> QED
    BY <1>3, <2>1, DrainTurnTypes DEF DrainOwnPass, TypeOK, durable, bounds
<1>4. CASE DrainPassed
  BY <1>4 DEF DrainPassed, TypeOK, DrainRecord, durable, bounds
<1>5. CASE DrainAsksMarkers
  BY <1>5 DEF DrainAsksMarkers, NeedsRecovery, TypeOK, DrainRecord, durable, bounds
<1>6. CASE DrainDecides
  <2>1. CASE drain.during \/ forced # {} \/ drain.durable
    <3>1. forced \in SUBSET Fences
      BY DEF TypeOK
    <3> QED
      BY <1>6, <2>1, <3>1, DrainTurnTypes DEF DrainDecides, TypeOK, durable, bounds
  <2>2. CASE ~(drain.during \/ forced # {} \/ drain.durable)
    <3>1. drain' \in DrainRecord
      BY <1>6, <2>2, DrainAt DEF DrainDecides, TypeOK, DrainSteps
    <3> QED
      BY <1>6, <2>2, <3>1 DEF DrainDecides, TypeOK, durable, bounds
  <2> QED
    BY <2>1, <2>2
<1>7. CASE LeaveDrain
  <2>1. CASE AskedSince
    <3>1. forced \in SUBSET Fences
      BY DEF TypeOK
    <3> QED
      BY <1>7, <2>1, <3>1, DrainTurnTypes DEF LeaveDrain, TypeOK, durable, bounds
  <2>2. CASE ~AskedSince
    BY <1>7, <2>2, Resting DEF LeaveDrain, TypeOK, durable, bounds
  <2> QED
    BY <2>1, <2>2
<1> QED
  BY <1>1, <1>2, <1>3, <1>4, <1>5, <1>6, <1>7 DEF DrainNext

LEMMA TypeStep == TypeOK /\ [Next]_vars => TypeOK'
<1> SUFFICES ASSUME TypeOK, [Next]_vars PROVE TypeOK'
  OBVIOUS
<1>1. CASE JobNext
  BY <1>1, JobTypes
<1>2. CASE SyncNext
  BY <1>2, SyncTypes
<1>3. CASE PassNext
  BY <1>3, PassTypes
<1>4. CASE DrainNext
  BY <1>4, DrainTypes
<1>5. ASSUME NEW t \in Triggers, TriggerUpload(t) PROVE TypeOK'
  BY <1>5 DEF TriggerUpload, ClaimSync, TypeOK, SyncSteps, durable, scheduler, bounds
<1>6. CASE Restart
  <2>1. restarts' \in 0..MaxRestarts
    BY <1>6, BoundsAssumption DEF Restart, TypeOK
  <2> QED
    BY <1>6, <2>1, Resting DEF Restart, NewWorker, TypeOK
<1>7. CASE DeleteAllData
  BY <1>7, Resting DEF DeleteAllData, NewWorker, TypeOK, bounds
<1>8. CASE UNCHANGED vars
  BY <1>8 DEF vars, TypeOK
<1> QED
  BY <1>1, <1>2, <1>3, <1>4, <1>5, <1>6, <1>7, <1>8 DEF Next

\* Every reachable state is well typed.
THEOREM TypeCorrect == Spec => []TypeOK
<1>1. Init => TypeOK
  BY InitTypes
<1>2. TypeOK /\ [Next]_vars => TypeOK'
  BY TypeStep
<1> QED
  BY <1>1, <1>2, PTL DEF Spec

-----------------------------------------------------------------------------
\* No step hands the slot from one holder to another.
HandsOver == Holder # "nobody" /\ Holder' # "nobody" /\ Holder' # Holder

\* A pass changes no holder when it is woken.
LEMMA WakingTakesNothing ==
  ASSUME TypeOK
  PROVE  WakePass(pass).pc \in {"list", "replay"} <=> Recovering
BY DEF TypeOK, WakePass, PassRecord, Recovering

LEMMA JobSlot ==
  ASSUME TypeOK, SlotInv, JobNext PROVE SlotInv' /\ ~HandsOver
<1> USE DEF SlotInv, Alone, SlotNamesItsHolder, Transferring, Working, Syncing, Recovering,
            HandsOver, Holder, SyncSteps
<1>1. ASSUME NEW j \in Jobs, StartJob(j) PROVE SlotInv' /\ ~HandsOver
  BY <1>1, JobsAssumption DEF StartJob
<1>2. CASE ImportRebuilds
  BY <1>2 DEF ImportRebuilds
<1>3. CASE FinishJob
  BY <1>3, WakingTakesNothing DEF FinishJob, BecomeIdle
<1>4. CASE FailJob
  BY <1>4, WakingTakesNothing DEF FailJob, BecomeIdle
<1>5. CASE StartImportSession
  BY <1>5 DEF StartImportSession
<1>6. CASE AddImportChunk
  BY <1>6 DEF AddImportChunk
<1>7. CASE ClearImportSession
  BY <1>7, WakingTakesNothing DEF ClearImportSession, BecomeIdle
<1>8. CASE ProcessImportSession
  BY <1>8 DEF ProcessImportSession
<1> QED
  BY <1>1, <1>2, <1>3, <1>4, <1>5, <1>6, <1>7, <1>8 DEF JobNext

LEMMA SyncSlot ==
  ASSUME TypeOK, SlotInv, SyncNext PROVE SlotInv' /\ ~HandsOver
<1> USE DEF SlotInv, Alone, SlotNamesItsHolder, Transferring, Working, Syncing, Recovering,
            HandsOver, Holder, SyncSteps
<1>1. CASE StartSync
  BY <1>1 DEF StartSync, ClaimSync
<1>2. CASE PassGate
  BY <1>2, WakingTakesNothing DEF PassGate, EndSync, BecomeIdle
<1>3. CASE SyncListsFences
  BY <1>3 DEF SyncListsFences
<1>4. CASE SyncRecovered
  BY <1>4 DEF SyncRecovered, RestoreOperation
<1>5. CASE SyncRecoveryFails
  BY <1>5 DEF SyncRecoveryFails, RestoreOperation
<1>6. CASE SyncDownloads
  BY <1>6 DEF SyncDownloads
<1>7. CASE SyncSucceeds
  BY <1>7 DEF SyncSucceeds
<1>8. CASE SyncFails
  BY <1>8 DEF SyncFails
<1>9. CASE FinishSync
  BY <1>9, WakingTakesNothing DEF FinishSync, EndSync, BecomeIdle
<1> QED
  BY <1>1, <1>2, <1>3, <1>4, <1>5, <1>6, <1>7, <1>8, <1>9 DEF SyncNext

\* A pass that begins takes a free slot or leaves it alone.
LEMMA BeginPassStep ==
  ASSUME NEW force \in BOOLEAN, NEW ids, BeginPass(force, ids)
  PROVE  \/ op = "idle" /\ op' = "rebuild" /\ pass'.pc = "list"
         \/ op' = op /\ pass'.pc \in {"ask", "wait"}
<1>1. pass'.pc = IF ~force THEN "ask" ELSE IF op = "idle" THEN "list" ELSE "wait"
  BY Zenon DEF BeginPass
<1>2. op' = IF force /\ op = "idle" THEN "rebuild" ELSE op
  BY DEF BeginPass
<1> QED
  BY <1>1, <1>2

\* Moving a pass to another step changes nothing else of it.
LEMMA StepOfPass ==
  ASSUME TypeOK, NEW pc, pass' = [pass EXCEPT !.pc = pc]
  PROVE  pass'.pc = pc
BY DEF TypeOK, PassRecord

LEMMA TakeSlotStep ==
  ASSUME TypeOK, NEW retry \in {"ask", "wait"}, TakeSlot(retry)
  PROVE  \/ op = "idle" /\ op' = "rebuild" /\ pass'.pc = "list"
         \/ op' = op /\ pass'.pc \in {"ask", "wait"}
BY StepOfPass DEF TakeSlot

LEMMA NothingToRecoverStep ==
  ASSUME NothingToRecover PROVE op' = op /\ pass'.pc = "none"
BY DEF NothingToRecover, NoPass

\* A turn of the drain begins a pass only when none is running.
LEMMA DrainTurnSlot ==
  ASSUME TypeOK, SlotInv, NEW ids, DrainTurn(ids), UNCHANGED <<session, job, sync>>
  PROVE  SlotInv' /\ ~HandsOver
<1> USE DEF SlotInv, Alone, SlotNamesItsHolder, Transferring, Working, Syncing, Recovering,
            HandsOver, Holder, SyncSteps
<1>1. CASE pass.pc = "none"
  <2>1. BeginPass(TRUE, ids)
    BY <1>1 DEF DrainTurn
  <2> QED
    BY <1>1, <2>1, BeginPassStep
<1>2. CASE pass.pc # "none"
  BY <1>2 DEF DrainTurn
<1> QED
  BY <1>1, <1>2

LEMMA PassSlot ==
  ASSUME TypeOK, SlotInv, PassNext PROVE SlotInv' /\ ~HandsOver
<1> USE DEF SlotInv, Alone, SlotNamesItsHolder, Transferring, Working, Syncing, Recovering,
            HandsOver, Holder, SyncSteps
<1>1. CASE BootRecovery
  <2>1. CASE pass.pc = "none"
    <3>1. BeginPass(FALSE, {})
      BY <1>1, <2>1 DEF BootRecovery
    <3> QED
      BY <1>1, <2>1, <3>1, BeginPassStep DEF BootRecovery
  <2>2. CASE pass.pc # "none"
    BY <1>1, <2>2 DEF BootRecovery
  <2> QED
    BY <2>1, <2>2
<1>2. CASE AskMarkers
  <2>1. CASE NeedsRecovery
    <3>1. op' = op /\ pass'.pc \in {"ask again", "wait"}
      BY <1>2, <2>1, StepOfPass DEF AskMarkers
    <3> QED
      BY <1>2, <3>1 DEF AskMarkers
  <2>2. CASE ~NeedsRecovery
    BY <1>2, <2>2, NothingToRecoverStep DEF AskMarkers
  <2> QED
    BY <2>1, <2>2
<1>3. CASE AskMarkersAgain
  <2>1. CASE NeedsRecovery
    BY <1>3, <2>1, TakeSlotStep DEF AskMarkersAgain
  <2>2. CASE ~NeedsRecovery
    BY <1>3, <2>2, NothingToRecoverStep DEF AskMarkersAgain
  <2> QED
    BY <2>1, <2>2
<1>4. CASE RetryForcedPass
  BY <1>4, TakeSlotStep DEF RetryForcedPass
<1>5. CASE PassListsFences
  BY <1>5 DEF PassListsFences, TypeOK, PassRecord
<1>6. CASE PassRecovered
  BY <1>6 DEF PassRecovered, SettlePass, NoPass
<1>7. CASE PassFails
  BY <1>7 DEF PassFails, SettlePass, NoPass
<1> QED
  BY <1>1, <1>2, <1>3, <1>4, <1>5, <1>6, <1>7 DEF PassNext

LEMMA DrainSlot ==
  ASSUME TypeOK, SlotInv, DrainNext PROVE SlotInv' /\ ~HandsOver
<1>a. UNCHANGED <<op, session, job, sync, pass>> => SlotInv' /\ ~HandsOver
  BY DEF SlotInv, Alone, SlotNamesItsHolder, Transferring, Working, Syncing, Recovering,
         HandsOver, Holder
<1>1. ASSUME NEW f \in Fences, AbortLiveCommit(f) PROVE SlotInv' /\ ~HandsOver
  BY <1>1, <1>a DEF AbortLiveCommit
<1>2. ASSUME NEW f \in Fences, ScheduleRecovery(f) PROVE SlotInv' /\ ~HandsOver
  BY <1>2, <1>a, DrainTurnSlot DEF ScheduleRecovery
<1>3. CASE DrainOwnPass
  BY <1>3, DrainTurnSlot DEF DrainOwnPass
<1>4. CASE DrainPassed
  BY <1>4, <1>a DEF DrainPassed
<1>5. CASE DrainAsksMarkers
  BY <1>5, <1>a DEF DrainAsksMarkers
<1>6. CASE DrainDecides
  BY <1>6, <1>a, DrainTurnSlot DEF DrainDecides
<1>7. CASE LeaveDrain
  BY <1>7, <1>a, DrainTurnSlot DEF LeaveDrain
<1> QED
  BY <1>1, <1>2, <1>3, <1>4, <1>5, <1>6, <1>7 DEF DrainNext

LEMMA SlotStep ==
  ASSUME TypeOK, SlotInv, [Next]_vars PROVE SlotInv' /\ ~HandsOver
<1> USE DEF SlotInv, Alone, SlotNamesItsHolder, Transferring, Working, Syncing, Recovering,
            HandsOver, Holder, SyncSteps
<1>1. CASE JobNext
  BY <1>1, JobSlot
<1>2. CASE SyncNext
  BY <1>2, SyncSlot
<1>3. CASE PassNext
  BY <1>3, PassSlot
<1>4. CASE DrainNext
  BY <1>4, DrainSlot
<1>5. ASSUME NEW t \in Triggers, TriggerUpload(t) PROVE SlotInv' /\ ~HandsOver
  BY <1>5 DEF TriggerUpload, ClaimSync
<1>6. CASE Restart
  BY <1>6 DEF Restart, NewWorker, NoPass
<1>7. CASE DeleteAllData
  BY <1>7 DEF DeleteAllData, NewWorker, NoPass
<1>8. CASE UNCHANGED vars
  BY <1>8 DEF vars
<1> QED
  BY <1>1, <1>2, <1>3, <1>4, <1>5, <1>6, <1>7, <1>8 DEF Next

THEOREM Inductive == Spec => [](TypeOK /\ SlotInv)
<1>1. Init => TypeOK /\ SlotInv
  BY InitTypes, InitHolds
<1>2. TypeOK /\ SlotInv /\ [Next]_vars => (TypeOK /\ SlotInv)'
  BY TypeStep, SlotStep
<1> QED
  BY <1>1, <1>2, PTL DEF Spec

\* The slot is idle exactly when nobody runs, and never two run at once.
THEOREM Exclusive == Spec => []SlotExclusive
<1>1. TypeOK /\ SlotInv => SlotExclusive
  BY AloneIsExclusive DEF SlotInv
<1> QED
  BY <1>1, Inductive, PTL

\* Each holder finds in the slot the type it left there.
THEOREM NamesItsHolder == Spec => []SlotNamesItsHolder
<1>1. TypeOK /\ SlotInv => SlotNamesItsHolder
  BY DEF SlotInv
<1> QED
  BY <1>1, Inductive, PTL

\* The slot with all its waiters implements the exclusive operation.
THEOREM Implements == Spec => OneHolderAtATime
<1>1. Init => Slot!Init
  BY DEF Init, Slot!Init, InitWith, Holder, NoPass
<1>2. TypeOK /\ SlotInv /\ [Next]_vars => [Slot!Next]_Holder
  <2> SUFFICES ASSUME TypeOK, SlotInv, [Next]_vars, Holder' # Holder
               PROVE  Slot!Next
    OBVIOUS
  <2>1. Holder = "nobody" \/ Holder' = "nobody"
    BY SlotStep DEF HandsOver
  <2>2. Holder' \in {"popup", "sync", "recovery", "nobody"}
    BY DEF Holder
  <2>3. CASE Holder = "nobody"
    BY <2>2, <2>3 DEF Slot!Next, Slot!Acquire
  <2>4. CASE Holder # "nobody"
    BY <2>1, <2>4 DEF Slot!Next, Slot!Release
  <2> QED
    BY <2>3, <2>4
<1> QED
  BY <1>1, <1>2, Inductive, PTL DEF Spec, OneHolderAtATime, Slot!Spec

-----------------------------------------------------------------------------
(* The account session: the inductive invariant.                             *)

\* Sign-ins whose outcome is known, and those that have yet to ask Google or to be answered.
Settled(l) == signIn[l] \in {"done", "failed"}
Unanswered(l) == signIn[l] \in {"new", "google"}
Committing == {l \in Logins : signIn[l] \in {"writing", "chained"}}

\* The storage area is restricted and read before anything is written to it.
StartUpInOrder ==
  /\ access = "pending" => writes = <<Access>> /\ restored = "pending"
  /\ access = "failed" => writes = <<>>
  /\ restored = "pending" => current = Nobody
  /\ restored = "ok" => access = "ok"
  /\ \A l \in Logins : signIn[l] \in {"google", "exchange", "exchanged", "chained", "writing"} =>
       access = "ok" /\ restored # "pending"
  /\ signOut.pc \in {"lookup", "remove", "uncache", "revoke"} => access = "ok" /\ tail = Nobody

\* What each outstanding call to storage says of the sign-in, refresh or sign-out it belongs to.
CallBelongs(i) ==
  LET w == writes[i]
  IN /\ w.kind = "access" => access = "pending"
     /\ w.kind = "get" => i = 1 /\ restored = "pending" /\ access = "ok"
     /\ w.kind = "signIn" => w.by \in Logins /\ signIn[w.by] = "writing" /\ w = SetSignIn(w.by)
     /\ w.kind = "refresh" => /\ w.by \in Callers /\ w.state \in State
                              /\ refresh[w.by].pc = "store" /\ refresh[w.by].late = w.late
     /\ w.kind = "remove" => w = Remove /\ i = Len(writes) /\ signOut.pc = "remove"
\* A refresh that is not late goes before any change of the account.
RefreshIsFirst(i) ==
  writes[i].kind = "refresh" /\ ~writes[i].late =>
    /\ restored = "ok" /\ current # Nobody /\ current.login = writes[i].state.login
    /\ refresh[writes[i].by].login = writes[i].state.login
    /\ \A j \in 1..(i - 1) : writes[j].kind = "refresh"
QueueInOrder ==
  /\ \A i \in DOMAIN writes : CallBelongs(i) /\ RefreshIsFirst(i)
  /\ \A i, j \in DOMAIN writes :
       /\ writes[i].kind = "signIn" /\ writes[j].kind = "signIn" => i = j
       /\ writes[i].kind = "refresh" /\ writes[j].kind = "refresh" /\ writes[i].by = writes[j].by
            => i = j

\* The commits form one chain: the one that writes is the first, the tail the last.
ChainedBy(rank) ==
  /\ \A l \in Committing : rank[l] <= rank[tail]
  /\ \A l, m \in Committing : rank[l] = rank[m] => l = m
  /\ \A l \in Committing : signIn[l] = "chained" =>
       preceding[l] \in Committing /\ rank[l] = rank[preceding[l]] + 1
  /\ \A l, m \in Committing : signIn[l] = "writing" => rank[l] <= rank[m]
OneChain ==
  /\ IF tail = Nobody THEN Committing = {} ELSE tail \in Committing
  /\ \E rank \in [Logins -> Nat] : tail = Nobody \/ ChainedBy(rank)

\* Tokens go with their sign-in, wherever they are.
Owned(s) == s.token = s.login /\ Settled(s.login) /\ s.login \notin removed
TokensOwned ==
  /\ \A s \in {stored, current} \ {Nobody} : Owned(s)
  /\ \A i \in DOMAIN writes : writes[i].kind = "refresh" => Owned(writes[i].state)
  /\ \A l \in removed : Settled(l)

\* A refresh of the generation is of the account that is live.
RefreshOfItsSession(c) ==
  /\ refresh[c].pc = "fetch" =>
       /\ refresh[c].login \in Logins /\ refresh[c].token = refresh[c].login /\ ~refresh[c].late
       /\ refresh[c].gen <= authGeneration
       /\ refresh[c].gen = authGeneration =>
            /\ restored = "ok" /\ signOut.pc = "none"
            /\ current # Nobody /\ current.login = refresh[c].login
  /\ refresh[c].pc = "got" /\ ~refresh[c].late => refresh[c].token = refresh[c].login
RefreshesOfTheirSession == \A c \in Callers : RefreshOfItsSession(c)

\* The token Chrome has cached is in use; the one a sign-out revokes has left the cache.  Those
\* of sign-ins not yet answered and of lookups not yet made are new.
Issued == {googleCache, signOut.token} \cup revoked
ToBeMinted(n) == n > signOuts \/ (n = signOuts /\ signOut.pc \in {"wait", "lookup"})
GoogleTokens ==
  /\ googleCache \notin revoked
  /\ \A t \in Issued \cap Logins : ~Unanswered(t)
  /\ \A n \in 1..MaxSignOuts : ToBeMinted(n) => Minted[n] \notin Issued
  /\ signOut.pc # "none" => signOuts > 0
  /\ signOut.pc \in {"uncache", "revoke"} => signOut.token # Nobody
  /\ Nobody \notin revoked
  /\ \A l \in Logins :
       /\ askedAfter[l] <= signOuts
       /\ signIn[l] \in {"google", "exchange"} /\ askedAfter[l] = signOuts => signOut.pc = "none"
       /\ signIn[l] = "exchange" /\ askedAfter[l] = signOuts => googleToken[l] \notin revoked

AuthInv ==
  /\ AuthTypeOK /\ StartUpInOrder /\ QueueInOrder /\ OneChain /\ TokensOwned
  /\ RefreshesOfTheirSession /\ GoogleTokens /\ StoredIsLiveUnlessLate
-----------------------------------------------------------------------------
\* The queue of calls to storage.
LEMMA AuthPopped ==
  ASSUME AuthTypeOK, writes # <<>>
  PROVE  /\ Head(writes) = writes[1] /\ 1 \in DOMAIN writes
         /\ Tail(writes) \in Seq(CallsToStorage) /\ Len(Tail(writes)) = Len(writes) - 1
         /\ \A i \in DOMAIN Tail(writes) : Tail(writes)[i] = writes[i + 1] /\ i + 1 \in DOMAIN writes
         /\ DOMAIN writes = 1..Len(writes) /\ DOMAIN Tail(writes) = 1..(Len(writes) - 1)
         /\ Len(writes) \in Nat \ {0}
BY DEF AuthTypeOK

LEMMA AuthPushed ==
  ASSUME NEW q \in Seq(CallsToStorage), NEW w \in CallsToStorage
  PROVE  /\ Append(q, w) \in Seq(CallsToStorage) /\ Len(Append(q, w)) = Len(q) + 1
         /\ \A i \in DOMAIN q : Append(q, w)[i] = q[i]
         /\ Append(q, w)[Len(q) + 1] = w
         /\ DOMAIN Append(q, w) = 1..(Len(q) + 1) /\ DOMAIN q = 1..Len(q) /\ Len(q) \in Nat
OBVIOUS

LEMMA AuthCalls ==
  /\ Access \in CallsToStorage /\ Get \in CallsToStorage /\ Remove \in CallsToStorage
  /\ \A l \in Logins : SetSignIn(l) \in CallsToStorage
  /\ \A c \in Callers, s \in State, b \in BOOLEAN : SetRefresh(c, s, b) \in CallsToStorage
BY DEF Access, Get, Remove, SetSignIn, SetRefresh, CallsToStorage, State

LEMMA RefreshAt ==
  ASSUME NEW r \in RefreshRecord, NEW p \in {"new", "fetch", "store", "got", "thrown"}
  PROVE  /\ [r EXCEPT !.pc = p] \in RefreshRecord /\ NoRefresh \in RefreshRecord
         /\ [NoRefresh EXCEPT !.pc = p] \in RefreshRecord
         /\ \A t \in Logins : [r EXCEPT !.pc = p, !.token = t] \in RefreshRecord
         /\ \A b \in BOOLEAN : [r EXCEPT !.pc = p, !.late = b] \in RefreshRecord
BY DEF RefreshRecord, NoRefresh

LEMMA AuthInitTypes == AuthInit => AuthTypeOK
<1> SUFFICES ASSUME AuthInit PROVE AuthTypeOK
  OBVIOUS
<1>1. writes \in Seq(CallsToStorage)
  BY AuthCalls DEF AuthInit
<1>2. refresh \in [Callers -> RefreshRecord]
  BY DEF AuthInit, RefreshRecord, NoRefresh
<1>3. signOuts \in 0..MaxSignOuts /\ faults \in 0..MaxFaults /\ stops \in 0..MaxStops
  BY AuthBoundsAssumption DEF AuthInit
<1>4. signOut \in [pc : {"none", "wait", "lookup", "remove", "uncache", "revoke"},
                  token : GoogleToken \cup {Nobody}]
  BY DEF AuthInit, NoSignOut
<1> QED
  BY <1>1, <1>2, <1>3, <1>4 DEF AuthInit, AuthTypeOK

LEMMA AuthStorageTypes == ASSUME AuthTypeOK, QueueInOrder, StorageNext PROVE AuthTypeOK'
<1> USE AuthPopped, AuthCalls, AuthBoundsAssumption DEF durableState, loginState, googleState
<1>a. ASSUME NEW l \in Logins, Completed(l, "done") \/ Completed(l, "failed"), writes # <<>>
      PROVE  tail' \in Logins \cup {Nobody} /\ writes' \in Seq(CallsToStorage)
             /\ signIn' \in [Logins -> {"new", "google", "exchange", "exchanged", "chained", "writing",
                            "done", "failed"}]
  <2>1. Successors(l) # {} => (CHOOSE m \in Successors(l) : TRUE) \in Logins
    BY DEF Successors
  <2>2. writes' \in Seq(CallsToStorage)
    BY <1>a, <2>1, AuthPushed DEF Completed
  <2> QED
    BY <1>a, <2>2 DEF Completed, AuthTypeOK
<1>b. ASSUME writes # <<>> PROVE Head(writes) \in CallsToStorage /\ CallBelongs(1)
  BY <1>b DEF AuthTypeOK, QueueInOrder
<1>1. CASE AccessGranted
  <2>1. writes' \in Seq(CallsToStorage)
    BY <1>1, AuthPushed DEF AccessGranted
  <2> QED
    BY <1>1, <2>1 DEF AccessGranted, AuthTypeOK
<1>2. CASE AccessDenied
  BY <1>2 DEF AccessDenied, AuthTypeOK, Fault
<1>3. CASE RestoreAuthState
  BY <1>3 DEF RestoreAuthState, AuthTypeOK
<1>4. CASE RestoreFails
  BY <1>4 DEF RestoreFails, AuthTypeOK, Fault
<1>5. CASE SignInStored
  <2>1. Head(writes).by \in Logins /\ Head(writes).state \in State
    BY <1>5, <1>b DEF SignInStored, CallBelongs, SetSignIn, State
  <2> QED
    <3>1. Completed(Head(writes).by, "done") /\ writes # <<>>
      BY <1>5 DEF SignInStored
    <3>2. tail' \in Logins \cup {Nobody} /\ writes' \in Seq(CallsToStorage)
          /\ signIn' \in [Logins -> {"new", "google", "exchange", "exchanged", "chained", "writing",
                            "done", "failed"}]
      BY <2>1, <3>1, <1>a
    <3>3. authGeneration' \in Nat /\ restored' = "ok" /\ storedLate' = FALSE
      BY <1>5 DEF SignInStored, AuthTypeOK
    <3> QED
      BY <1>5, <2>1, <3>1, <3>2, <3>3 DEF SignInStored, AuthTypeOK, Completed
<1>6. CASE SignInNotStored
  <2>1. Head(writes).by \in Logins
    BY <1>6, <1>b DEF SignInNotStored, CallBelongs
  <2> QED
    <3>1. Completed(Head(writes).by, "failed") /\ writes # <<>>
      BY <1>6 DEF SignInNotStored
    <3>2. tail' \in Logins \cup {Nobody} /\ writes' \in Seq(CallsToStorage)
          /\ signIn' \in [Logins -> {"new", "google", "exchange", "exchanged", "chained", "writing",
                            "done", "failed"}]
      BY <2>1, <3>1, <1>a
    <3>3. faults' \in 0..MaxFaults
      BY <1>6 DEF SignInNotStored, AuthTypeOK, Fault
    <3> QED
      BY <1>6, <3>1, <3>2, <3>3 DEF SignInNotStored, AuthTypeOK, Completed
<1>7. CASE SignedOutStored
  <2>1. removed' \subseteq Logins
    BY <1>7 DEF SignedOutStored, AuthTypeOK, TokensHeld, State
  <2>2. signOut' \in [pc : {"none", "wait", "lookup", "remove", "uncache", "revoke"},
                   token : GoogleToken \cup {Nobody}]
    BY <1>7 DEF SignedOutStored, AuthTypeOK, NoSignOut
  <2> QED
    <3>1. writes' \in Seq(CallsToStorage) /\ authGeneration' \in Nat
      BY <1>7 DEF SignedOutStored, AuthTypeOK
    <3> QED
      BY <1>7, <2>1, <2>2, <3>1 DEF SignedOutStored, AuthTypeOK
<1>8. CASE SignedOutNotStored
  BY <1>8 DEF SignedOutNotStored, AuthTypeOK, Fault, NoSignOut
<1>9. CASE RefreshStored
  <2>1. Head(writes).by \in Callers /\ Head(writes).state \in State /\ Head(writes).late \in BOOLEAN
    BY <1>9, <1>b DEF RefreshStored, CallBelongs, CallsToStorage
  <2>2. refresh' \in [Callers -> RefreshRecord]
    BY <1>9, <2>1, RefreshAt DEF RefreshStored, AuthTypeOK, State
  <2> QED
    BY <1>9, <2>1, <2>2 DEF RefreshStored, AuthTypeOK
<1>10. CASE RefreshNotStored
  <2>2. refresh' \in [Callers -> RefreshRecord]
    BY <1>10, RefreshAt DEF RefreshNotStored, AuthTypeOK
  <2> QED
    BY <1>10, <2>2 DEF RefreshNotStored, AuthTypeOK, Fault
<1> QED
  BY <1>1, <1>2, <1>3, <1>4, <1>5, <1>6, <1>7, <1>8, <1>9, <1>10 DEF StorageNext

LEMMA AuthSignInTypes == ASSUME AuthTypeOK, SignInNext PROVE AuthTypeOK'
<1> USE AuthCalls, AuthBoundsAssumption DEF durableState, loginState, googleState
<1> PICK l \in Logins : AskGoogle(l) \/ GoogleAnswers(l) \/ Exchanged(l) \/ SignInFails(l)
                        \/ ChainCommit(l)
  BY DEF SignInNext
<1>1. CASE AskGoogle(l)
  BY <1>1 DEF AskGoogle, AuthTypeOK
<1>2. CASE GoogleAnswers(l)
  BY <1>2 DEF GoogleAnswers, AuthTypeOK, GoogleToken
<1>3. CASE Exchanged(l)
  BY <1>3 DEF Exchanged, TokenUsed, AuthTypeOK
<1>4. CASE SignInFails(l)
  BY <1>4 DEF SignInFails, TokenUsed, AuthTypeOK, Fault
<1>5. CASE ChainCommit(l)
  <2>1. writes' \in Seq(CallsToStorage)
    <3>1. writes \in Seq(CallsToStorage) /\ SetSignIn(l) \in CallsToStorage
      BY DEF AuthTypeOK
    <3> QED
      BY <1>5, <3>1, AuthPushed DEF ChainCommit
  <2> QED
    BY <1>5, <2>1 DEF ChainCommit, AuthTypeOK
<1> QED
  BY <1>1, <1>2, <1>3, <1>4, <1>5

LEMMA AuthSignOutTypes == ASSUME AuthTypeOK, GoogleTokens, SignOutNext PROVE AuthTypeOK'
<1> USE AuthCalls, AuthBoundsAssumption DEF durableState, loginState, googleState, NoSignOut
<1>1. CASE SignOut
  BY <1>1 DEF SignOut, AuthTypeOK
<1>2. CASE SignOutRefused
  BY <1>2 DEF SignOutRefused, AuthTypeOK
<1>3. CASE CommitsDrained
  BY <1>3 DEF CommitsDrained, AuthTypeOK
<1>4. CASE RemoveStored
  <2>1. signOuts \in 1..MaxSignOuts
    BY <1>4 DEF RemoveStored, GoogleTokens, AuthTypeOK
  <2>2. PICK t \in {IF googleCache = Nobody THEN Minted[signOuts] ELSE googleCache, Nobody} :
          /\ signOut' = [pc |-> "remove", token |-> t]
          /\ googleCache' = IF t = Nobody THEN googleCache ELSE t
    BY <1>4 DEF RemoveStored
  <2>3. t \in GoogleToken \cup {Nobody}
    BY <2>1 DEF AuthTypeOK, GoogleToken
  <2>4. /\ googleCache' \in GoogleToken \cup {Nobody}
        /\ signOut' \in [pc : {"none", "wait", "lookup", "remove", "uncache", "revoke"},
                         token : GoogleToken \cup {Nobody}]
    BY <2>2, <2>3 DEF AuthTypeOK
  <2>5. writes' \in Seq(CallsToStorage)
    BY <1>4, AuthPushed DEF RemoveStored, AuthTypeOK
  <2> QED
    BY <1>4, <2>4, <2>5 DEF RemoveStored, AuthTypeOK
<1>5. CASE Uncached
  <2>1. signOut' \in [pc : {"none", "wait", "lookup", "remove", "uncache", "revoke"},
                   token : GoogleToken \cup {Nobody}]
    BY <1>5 DEF Uncached, AuthTypeOK
  <2>2. signOut.token \in GoogleToken
    BY <1>5 DEF Uncached, AuthTypeOK, GoogleTokens
  <2> QED
    BY <1>5, <2>1, <2>2 DEF Uncached, AuthTypeOK
<1>6. CASE Revoked
  BY <1>6 DEF Revoked, AuthTypeOK
<1> QED
  BY <1>1, <1>2, <1>3, <1>4, <1>5, <1>6 DEF SignOutNext

LEMMA AuthStopTypes == ASSUME AuthTypeOK, QueueInOrder, Stop PROVE AuthTypeOK'
<1> USE AuthCalls, AuthBoundsAssumption
<1>1. writes' \in Seq(CallsToStorage)
  BY DEF Stop
<1>2. refresh' \in [Callers -> RefreshRecord]
  BY RefreshAt DEF Stop, AuthTypeOK
<1>3. \A i \in Changes : writes[i] \in CallsToStorage /\ (writes[i].kind # "remove" => writes[i].state \in State)
  BY DEF Changes, AuthTypeOK, QueueInOrder, CallBelongs, SetSignIn, State
<1>4. stored' \in State \cup {Nobody} /\ storedLate' \in BOOLEAN /\ removed' \subseteq Logins
  <2>1. CASE UNCHANGED durableState
    BY <2>1 DEF durableState, AuthTypeOK
  <2>2. CASE \E i \in Changes :
          /\ stored' = writes[i].state /\ storedLate' = writes[i].late
          /\ removed' = IF \E j \in Changes : j <= i /\ writes[j].kind = "remove"
                        THEN removed \cup TokensHeld \cup
                               {writes[j].state.token : j \in {k \in Changes : k <= i
                                                      /\ writes[k].kind # "remove"}}
                        ELSE removed
    <3>1. TokensHeld \subseteq Logins
      BY DEF TokensHeld, AuthTypeOK, State
    <3>2. \A k \in Changes : writes[k].kind # "remove" => writes[k].state.token \in Logins
      BY <1>3 DEF State
    <3> QED
      BY <2>2, <3>1, <3>2, <1>3 DEF CallsToStorage, AuthTypeOK
  <2> QED
    BY <2>1, <2>2 DEF Stop
<1>5. stops' \in 0..MaxStops
  BY DEF Stop, AuthTypeOK
<1>6. signIn' \in [Logins -> {"new", "google", "exchange", "exchanged", "chained", "writing", "done",
                            "failed"}]
  BY DEF Stop, AuthTypeOK
<1>7. signOut' \in [pc : {"none", "wait", "lookup", "remove", "uncache", "revoke"},
                   token : GoogleToken \cup {Nobody}]
  BY DEF Stop, NoSignOut
<1> QED
  BY <1>1, <1>2, <1>4, <1>5, <1>6, <1>7 DEF Stop, AuthTypeOK, googleState

LEMMA AuthRefreshTypes == ASSUME AuthTypeOK, RefreshesOfTheirSession, RefreshNext PROVE AuthTypeOK'
<1> USE AuthCalls, AuthBoundsAssumption DEF durableState, loginState, googleState
<1> PICK c \in Callers : StartRefresh(c) \/ DiscardRefresh(c) \/ PublishRefresh(c) \/ RefreshFails(c)
  BY DEF RefreshNext
<1>1. CASE StartRefresh(c)
  <2>1. [NoRefresh EXCEPT !.pc = "fetch", !.login = current.login, !.token = current.token,
                         !.gen = authGeneration] \in RefreshRecord
    BY <1>1 DEF StartRefresh, AuthTypeOK, State, NoRefresh, RefreshRecord
  <2>2. refresh' \in [Callers -> RefreshRecord]
    BY <1>1, <2>1 DEF StartRefresh, AuthTypeOK
  <2> QED
    BY <1>1, <2>2 DEF StartRefresh, AuthTypeOK
<1>2. CASE DiscardRefresh(c)
  <2>2. refresh' \in [Callers -> RefreshRecord]
    BY <1>2, RefreshAt DEF DiscardRefresh, AuthTypeOK
  <2> QED
    BY <1>2, <2>2 DEF DiscardRefresh, AuthTypeOK
<1>3. CASE PublishRefresh(c)
  <2> DEFINE b == Outstanding("signIn")
             s == [current EXCEPT !.token = refresh[c].token]
  <2>1. b \in BOOLEAN
    BY DEF Outstanding
  <2>2. refresh' \in [Callers -> RefreshRecord]
    <3>1. refresh' = [refresh EXCEPT ![c] = [@ EXCEPT !.pc = "store", !.late = b]]
      BY <1>3 DEF PublishRefresh
    <3> HIDE DEF b
    <3> QED
      BY <2>1, <3>1, RefreshAt DEF AuthTypeOK
  <2>3. s \in State
    BY <1>3 DEF PublishRefresh, SameSession, AuthTypeOK, State, RefreshesOfTheirSession,
                RefreshOfItsSession
  <2>4. writes' \in Seq(CallsToStorage)
    <3>1. writes' = Append(writes, SetRefresh(c, s, b)) /\ writes \in Seq(CallsToStorage)
      BY <1>3 DEF PublishRefresh, AuthTypeOK
    <3> HIDE DEF b, s
    <3> QED
      BY <2>1, <2>3, <3>1, AuthPushed
  <2> QED
    BY <1>3, <2>2, <2>3, <2>4 DEF PublishRefresh, AuthTypeOK
<1>4. CASE RefreshFails(c)
  <2>2. refresh' \in [Callers -> RefreshRecord]
    BY <1>4, RefreshAt DEF RefreshFails, AuthTypeOK
  <2> QED
    BY <1>4, <2>2 DEF RefreshFails, AuthTypeOK, Fault
<1> QED
  BY <1>1, <1>2, <1>3, <1>4

-----------------------------------------------------------------------------
\* The chain of commits.
LEMMA OneChainStays ==
  ASSUME AuthTypeOK, AuthTypeOK', OneChain, tail' = tail, preceding' = preceding,
         \A l \in Logins : signIn'[l] = signIn[l]
           \/ (signIn[l] \notin {"writing", "chained"} /\ signIn'[l] \notin {"writing", "chained"})
  PROVE  OneChain'
<1>1. Committing' = Committing /\ \A l \in Committing : signIn'[l] = signIn[l]
  BY DEF Committing
<1> QED
  BY <1>1 DEF OneChain, ChainedBy

\* A commit joins the chain behind its tail.
LEMMA ChainGrows ==
  ASSUME AuthTypeOK, OneChain, NEW l \in Logins, ChainCommit(l)
  PROVE  OneChain'
<1>1. /\ signIn[l] = "exchanged" /\ tail' = l /\ preceding' = [preceding EXCEPT ![l] = tail]
      /\ signIn' = [signIn EXCEPT ![l] = IF tail = Nobody THEN "writing" ELSE "chained"]
  BY DEF ChainCommit
<1>2. Committing' = Committing \cup {l} /\ l \notin Committing
  BY <1>1 DEF AuthTypeOK, Committing
<1>3. PICK rank \in [Logins -> Nat] : tail = Nobody \/ ChainedBy(rank)
  BY DEF OneChain
<1>4. l # Nobody
  BY NobodyAssumption
<1>5. CASE tail = Nobody
  <2>1. Committing' = {l} /\ signIn'[l] = "writing"
    BY <1>1, <1>2, <1>5 DEF OneChain, AuthTypeOK
  <2>2. ChainedBy(rank)'
    BY <1>1, <1>3, <2>1 DEF ChainedBy
  <2>3. tail' \in Committing'
    BY <1>1, <2>1
  <2> QED
    BY <1>1, <1>3, <1>4, <2>2, <2>3 DEF OneChain
<1>6. CASE tail # Nobody
  <2>1. tail \in Committing /\ tail \in Logins /\ ChainedBy(rank)
    BY <1>3, <1>6 DEF OneChain, Committing
  <2>2. PICK longer \in [Logins -> Nat] :
          longer[l] = rank[tail] + 1 /\ \A m \in Committing : longer[m] = rank[m]
    <3>1. [rank EXCEPT ![l] = rank[tail] + 1] \in [Logins -> Nat]
      BY <1>3, <2>1
    <3> QED
      BY <1>2, <3>1 DEF Committing
  <2>3. signIn'[l] = "chained" /\ preceding'[l] = tail
        /\ \A m \in Committing : signIn'[m] = signIn[m] /\ preceding'[m] = preceding[m]
    BY <1>1, <1>2, <1>6 DEF AuthTypeOK, Committing
  <2>4. \A m \in Committing' :
          /\ longer[m] <= longer[l] /\ (signIn'[m] = "writing" => m \in Committing)
          /\ signIn'[m] = "chained" =>
               preceding'[m] \in Committing /\ longer[m] = longer[preceding'[m]] + 1
    BY <1>2, <1>3, <2>1, <2>2, <2>3 DEF ChainedBy, Committing
  <2>5. \A m, n \in Committing' : /\ longer[m] = longer[n] => m = n
                                  /\ signIn'[m] = "writing" => longer[m] <= longer[n]
    BY <1>2, <1>3, <2>1, <2>2, <2>3 DEF ChainedBy, Committing
  <2>6. ChainedBy(longer)'
    BY <1>1, <1>2, <2>4, <2>5 DEF ChainedBy
  <2> QED
    BY <1>1, <1>2, <1>4, <2>2, <2>6 DEF OneChain
<1> QED
  BY <1>5, <1>6

\* A commit that is over leaves it at the front.
LEMMA ChainShrinks ==
  ASSUME AuthTypeOK, OneChain, NEW l \in Logins, signIn[l] = "writing",
         NEW outcome \in {"done", "failed"}, Completed(l, outcome)
  PROVE  /\ OneChain'
         /\ \A m \in Successors(l) : m \in Logins /\ Successors(l) = {m}
         /\ \A m \in Logins : signIn'[m] = IF m = l THEN outcome
                                ELSE IF m \in Successors(l) THEN "writing" ELSE signIn[m]
         /\ \A m \in Logins : m # l => signIn[m] # "writing"
<1>1. l \in Committing /\ l # Nobody /\ tail # Nobody /\ tail \in Committing
  BY NobodyAssumption DEF Committing, OneChain
<1>2. PICK rank \in [Logins -> Nat] : ChainedBy(rank)
  BY <1>1 DEF OneChain
<1>3. \A m \in Logins : signIn'[m] = IF m = l THEN outcome
                                ELSE IF m \in Successors(l) THEN "writing" ELSE signIn[m]
  BY DEF Completed
<1>4. \A m \in Logins : m # l => signIn[m] # "writing"
  BY <1>1, <1>2 DEF ChainedBy, Committing
<1>5. \A m \in Successors(l) : m \in Committing /\ m # l /\ rank[m] = rank[l] + 1
  BY <1>2 DEF ChainedBy, Successors, Committing
<1>6. \A m \in Successors(l) : m \in Logins /\ Successors(l) = {m}
  BY <1>2, <1>5 DEF ChainedBy, Committing
<1>7. Committing' = Committing \ {l}
  BY <1>3, <1>5 DEF Committing
<1>8. tail' = IF tail = l THEN Nobody ELSE tail
  BY DEF Completed
<1>9. preceding' = preceding
  BY DEF Completed
<1>10. CASE tail = l
  <2>1. \A m \in Committing : rank[m] = rank[l]
    BY <1>1, <1>2, <1>10 DEF ChainedBy, Committing
  <2>2. Committing' = {}
    BY <1>1, <1>2, <1>7, <2>1 DEF ChainedBy
  <2>3. tail' = Nobody
    BY <1>8, <1>10
  <2> QED
    BY <1>2, <1>3, <1>4, <1>6, <2>2, <2>3 DEF OneChain
<1>11. CASE tail # l
  <2>1. tail' = tail /\ tail \in Committing'
    BY <1>1, <1>7, <1>8, <1>11
  <2>2. ASSUME NEW m \in Committing', signIn'[m] = "chained"
        PROVE  preceding[m] \in Committing' /\ rank[m] = rank[preceding[m]] + 1
    <3>1. signIn[m] = "chained" /\ m \notin Successors(l) /\ m \in Committing
      BY <1>3, <1>7, <2>2 DEF Committing
    <3>2. preceding[m] # l
      BY <3>1 DEF Successors, Committing
    <3> QED
      BY <1>2, <1>7, <3>1, <3>2 DEF ChainedBy
  <2>3. ASSUME NEW m \in Committing', NEW n \in Committing', signIn'[m] = "writing"
        PROVE  rank[m] <= rank[n]
    <3>1. m \in Successors(l)
      BY <1>3, <1>4, <1>7, <2>3 DEF Committing
    <3>2. rank[m] = rank[l] + 1 /\ rank[l] <= rank[n] /\ rank[l] # rank[n]
      BY <1>1, <1>2, <1>5, <1>7, <3>1 DEF ChainedBy
    <3> QED
      BY <1>2, <1>7, <3>2 DEF Committing
  <2>4. ChainedBy(rank)'
    BY <1>2, <1>7, <1>9, <2>1, <2>2, <2>3 DEF ChainedBy
  <2> QED
    BY <1>1, <1>2, <1>3, <1>4, <1>6, <2>1, <2>4 DEF OneChain
<1> QED
  BY <1>10, <1>11

\* What the answer to a commit means for the chain.
LEMMA CommitAnswered ==
  ASSUME AuthTypeOK, QueueInOrder, OneChain, SignInStored \/ SignInNotStored
  PROVE  LET l == Head(writes).by
         IN /\ l \in Logins /\ signIn[l] = "writing" /\ writes[1] = SetSignIn(l) /\ writes # <<>>
            /\ Completed(l, "done") \/ Completed(l, "failed")
            /\ OneChain' /\ \A m \in Successors(l) : m \in Logins /\ Successors(l) = {m}
            /\ \A m \in Logins : \/ m = l /\ signIn'[m] \in {"done", "failed"}
                                 \/ m # l /\ m \in Successors(l) /\ signIn'[m] = "writing"
                                 \/ m # l /\ m \notin Successors(l) /\ signIn'[m] = signIn[m]
            /\ \A m \in Logins : m # l => signIn[m] # "writing"
            /\ tail # Nobody
<1> DEFINE l == Head(writes).by
<1>1. writes # <<>> /\ (Completed(l, "done") \/ Completed(l, "failed"))
      /\ Head(writes).kind = "signIn"
  BY DEF SignInStored, SignInNotStored
<1>2. l \in Logins /\ signIn[l] = "writing" /\ writes[1] = SetSignIn(l)
  BY <1>1, AuthPopped DEF QueueInOrder, CallBelongs
<1>3. tail # Nobody
  BY <1>2 DEF OneChain, Committing
<1> HIDE DEF l
<1>4. /\ OneChain' /\ \A m \in Successors(l) : m \in Logins /\ Successors(l) = {m}
      /\ \A m \in Logins : \/ m = l /\ signIn'[m] \in {"done", "failed"}
                           \/ m # l /\ m \in Successors(l) /\ signIn'[m] = "writing"
                           \/ m # l /\ m \notin Successors(l) /\ signIn'[m] = signIn[m]
      /\ \A m \in Logins : m # l => signIn[m] # "writing"
  <2>1. CASE Completed(l, "done")
    BY <1>2, <2>1, ChainShrinks
  <2>2. CASE Completed(l, "failed")
    BY <1>2, <2>2, ChainShrinks
  <2> QED
    BY <1>1, <2>1, <2>2
<1> QED
  BY <1>1, <1>2, <1>3, <1>4 DEF l

LEMMA ChainKept ==
  ASSUME AuthTypeOK, AuthTypeOK', QueueInOrder, OneChain, AuthNext
  PROVE  OneChain'
<1> USE DEF durableState, loginState, googleState
<1>1. CASE SignInNext
  <2> PICK l \in Logins : AskGoogle(l) \/ GoogleAnswers(l) \/ Exchanged(l) \/ SignInFails(l)
                          \/ ChainCommit(l)
    BY <1>1 DEF SignInNext
  <2>1. CASE ChainCommit(l)
    BY <2>1, ChainGrows
  <2>2. CASE AskGoogle(l)
    BY <2>2, OneChainStays DEF AskGoogle, AuthTypeOK
  <2>3. CASE GoogleAnswers(l)
    BY <2>3, OneChainStays DEF GoogleAnswers, AuthTypeOK
  <2>4. CASE Exchanged(l)
    BY <2>4, OneChainStays DEF Exchanged, AuthTypeOK
  <2>5. CASE SignInFails(l)
    BY <2>5, OneChainStays DEF SignInFails, AuthTypeOK
  <2> QED
    BY <2>1, <2>2, <2>3, <2>4, <2>5
<1>2. CASE SignInStored \/ SignInNotStored
  BY <1>2, CommitAnswered
<1>3. CASE (StorageNext /\ ~SignInStored /\ ~SignInNotStored) \/ SignOutNext \/ RefreshNext
  <2>1. UNCHANGED <<tail, preceding, signIn>>
    <3>1. CASE StorageNext /\ ~SignInStored /\ ~SignInNotStored
      BY <3>1 DEF StorageNext, AccessGranted, AccessDenied, RestoreAuthState, RestoreFails,
                  SignedOutStored, SignedOutNotStored, RefreshStored, RefreshNotStored
    <3>2. CASE SignOutNext
      BY <3>2 DEF SignOutNext, SignOut, SignOutRefused, CommitsDrained, RemoveStored, Uncached,
                  Revoked
    <3>3. CASE RefreshNext
      BY <3>3 DEF RefreshNext, StartRefresh, DiscardRefresh, PublishRefresh, RefreshFails
    <3> QED
      BY <1>3, <3>1, <3>2, <3>3
  <2> QED
    BY <2>1, OneChainStays
<1>4. CASE Stop
  <2>1. tail' = Nobody /\ Committing' = {}
    BY <1>4 DEF Stop, Committing
  <2>2. [l \in Logins |-> 0] \in [Logins -> Nat]
    OBVIOUS
  <2> QED
    BY <2>1, <2>2 DEF OneChain
<1> QED
  BY <1>1, <1>2, <1>3, <1>4 DEF AuthNext

-----------------------------------------------------------------------------
LEMMA StartUpKept ==
  ASSUME AuthTypeOK, AuthTypeOK', StartUpInOrder, QueueInOrder, OneChain, RefreshesOfTheirSession,
         AuthNext
  PROVE  StartUpInOrder'
<1> USE DEF durableState, loginState, googleState
<1>1. CASE SignInNext
  <2> PICK l \in Logins : AskGoogle(l) \/ GoogleAnswers(l) \/ Exchanged(l) \/ SignInFails(l)
                          \/ ChainCommit(l)
    BY <1>1 DEF SignInNext
  <2>1. CASE ChainCommit(l)
    BY <2>1 DEF ChainCommit, StartUpInOrder, AuthTypeOK
  <2>2. CASE AskGoogle(l)
    BY <2>2 DEF AskGoogle, StartUpInOrder, AuthTypeOK
  <2>3. CASE GoogleAnswers(l)
    BY <2>3 DEF GoogleAnswers, StartUpInOrder, AuthTypeOK
  <2>4. CASE Exchanged(l)
    BY <2>4 DEF Exchanged, StartUpInOrder, AuthTypeOK
  <2>5. CASE SignInFails(l)
    BY <2>5 DEF SignInFails, StartUpInOrder, AuthTypeOK
  <2> QED
    BY <2>1, <2>2, <2>3, <2>4, <2>5
<1>2. CASE SignInStored \/ SignInNotStored
  <2> DEFINE l == Head(writes).by
  <2>1. /\ l \in Logins /\ signIn[l] = "writing" /\ writes # <<>> /\ tail # Nobody
        /\ UNCHANGED <<access, signOut>> /\ restored' \in {restored, "ok"}
        /\ \A m \in Logins : signIn'[m] \in {signIn[m], "done", "failed"} \/ signIn'[m] = "writing"
    BY <1>2, CommitAnswered DEF SignInStored, SignInNotStored, Completed
  <2>2. access = "ok" /\ restored # "pending"
    BY <2>1 DEF StartUpInOrder
  <2> QED
    BY <2>1, <2>2 DEF StartUpInOrder
<1>3. CASE AccessGranted
  BY <1>3, AuthPopped DEF AccessGranted, StartUpInOrder, QueueInOrder, CallBelongs
<1>4. CASE AccessDenied
  BY <1>4, AuthPopped DEF AccessDenied, StartUpInOrder, QueueInOrder, CallBelongs, Fault
<1>5. CASE RestoreAuthState \/ RestoreFails
  BY <1>5, AuthPopped DEF RestoreAuthState, RestoreFails, StartUpInOrder, QueueInOrder, CallBelongs
<1>6. CASE SignedOutStored \/ SignedOutNotStored
  <2>1. /\ UNCHANGED <<access, restored, signIn, tail>> /\ access = "ok" /\ tail = Nobody
        /\ current' \in {current, Nobody}
    BY <1>6, AuthPopped DEF SignedOutStored, SignedOutNotStored, StartUpInOrder, QueueInOrder,
                            CallBelongs
  <2>2. restored' = "pending" => current' = Nobody
    BY <2>1 DEF StartUpInOrder
  <2>4. access' = "ok" /\ tail' = Nobody
    BY <2>1
  <2>3. \A l \in Logins : signIn'[l] \in {"google", "exchange", "exchanged", "chained", "writing"} =>
          restored' # "pending"
    BY <2>1 DEF StartUpInOrder
  <2> QED
    BY <2>2, <2>3, <2>4 DEF StartUpInOrder
<1>7. CASE RefreshStored \/ RefreshNotStored
  <2>1. /\ UNCHANGED <<access, restored, signIn, tail, signOut, current>>
        /\ writes # <<>> /\ writes' = Tail(writes) /\ Head(writes).kind = "refresh"
    BY <1>7 DEF RefreshStored, RefreshNotStored
  <2>2. access = "ok"
    BY <2>1 DEF StartUpInOrder, Access, AuthTypeOK
  <2> QED
    BY <2>1, <2>2 DEF StartUpInOrder
<1>8. CASE SignOutNext
  BY <1>8 DEF SignOutNext, SignOut, SignOutRefused, CommitsDrained, RemoveStored, Uncached, Revoked,
              StartUpInOrder, NoSignOut
<1>9. CASE RefreshNext
  <2>1. UNCHANGED <<access, restored, signIn, signOut, tail>>
    BY <1>9 DEF RefreshNext, StartRefresh, DiscardRefresh, PublishRefresh, RefreshFails
  <2>2. UNCHANGED <<writes, current>> \/ restored = "ok"
    BY <1>9 DEF RefreshNext, StartRefresh, DiscardRefresh, PublishRefresh, RefreshFails, SameSession,
                RefreshesOfTheirSession, RefreshOfItsSession
  <2> QED
    BY <2>1, <2>2 DEF StartUpInOrder
<1>10. CASE Stop
  BY <1>10 DEF Stop, StartUpInOrder, NoSignOut
<1> QED
  BY <1>1, <1>2, <1>3, <1>4, <1>5, <1>6, <1>7, <1>8, <1>9, <1>10 DEF AuthNext, StorageNext

-----------------------------------------------------------------------------
LEMMA NoneIssued ==
  ASSUME GoogleTokens, Issued' \subseteq Issued \cup {Nobody},
         \A n \in 1..MaxSignOuts : ToBeMinted(n)' => ToBeMinted(n),
         \A l \in Logins : Unanswered(l)' => Unanswered(l)
  PROVE  /\ \A t \in Issued' \cap Logins : ~Unanswered(t)'
         /\ \A n \in 1..MaxSignOuts : ToBeMinted(n)' => Minted[n] \notin Issued'
BY NobodyAssumption, MintedAssumption DEF GoogleTokens

LEMMA GoogleKept ==
  ASSUME AuthTypeOK, AuthTypeOK', QueueInOrder, OneChain, GoogleTokens, AuthNext
  PROVE  GoogleTokens'
<1> USE NobodyAssumption DEF durableState, loginState, googleState
<1>1. CASE SignInNext
  <2> PICK l \in Logins : AskGoogle(l) \/ GoogleAnswers(l) \/ Exchanged(l) \/ SignInFails(l)
                          \/ ChainCommit(l)
    BY <1>1 DEF SignInNext
  <2>1. CASE ChainCommit(l)
    BY <2>1 DEF ChainCommit, GoogleTokens, Issued, ToBeMinted, AuthTypeOK, Unanswered
  <2>2. CASE AskGoogle(l)
    BY <2>2 DEF AskGoogle, GoogleTokens, Issued, ToBeMinted, AuthTypeOK, Unanswered
  <2>3. CASE GoogleAnswers(l)
    <3>1. /\ googleCache' \in {l, googleCache} \ {Nobody} /\ googleToken'[l] = googleCache'
          /\ \A m \in Logins \ {l} : signIn'[m] = signIn[m] /\ googleToken'[m] = googleToken[m]
          /\ signIn[l] = "google" /\ signIn'[l] = "exchange"
          /\ UNCHANGED <<revoked, signOut, signOuts, askedAfter>>
      BY <2>3 DEF GoogleAnswers, AuthTypeOK
    <3>2. Unanswered(l)
      BY <3>1 DEF Unanswered
    <3>3. \A t \in Issued : t # l
      BY <3>2 DEF GoogleTokens
    <3>4. l \notin revoked /\ googleCache' \notin revoked
      BY <3>1, <3>3 DEF GoogleTokens, Issued
    <3>5. \A m \in Logins : Unanswered(m)' => Unanswered(m) /\ m # l
      BY <3>1 DEF Unanswered
    <3>6. Issued' \subseteq Issued \cup {l}
      BY <3>1 DEF Issued
    <3>7. \A t \in Issued' \cap Logins : ~Unanswered(t)'
      BY <3>5, <3>6 DEF GoogleTokens
    <3>8. \A n \in 1..MaxSignOuts : ToBeMinted(n)' => Minted[n] \notin Issued'
      <4>1. \A n \in 1..MaxSignOuts : ToBeMinted(n)' => ToBeMinted(n) /\ Minted[n] # l
        BY <3>1, MintedAssumption DEF ToBeMinted
      <4> QED
        BY <3>6, <4>1 DEF GoogleTokens
    <3>9. \A m \in Logins :
       /\ askedAfter[m]' <= signOuts'
       /\ signIn'[m] \in {"google", "exchange"} /\ askedAfter'[m] = signOuts' => signOut'.pc = "none"
       /\ signIn'[m] = "exchange" /\ askedAfter'[m] = signOuts' => googleToken'[m] \notin revoked'
      BY <3>1, <3>4 DEF GoogleTokens
    <3> QED
      BY <3>1, <3>4, <3>7, <3>8, <3>9 DEF GoogleTokens
  <2>4. CASE Exchanged(l)
    BY <2>4 DEF Exchanged, TokenUsed, GoogleTokens, Issued, ToBeMinted, AuthTypeOK, Unanswered
  <2>5. CASE SignInFails(l)
    BY <2>5 DEF SignInFails, TokenUsed, GoogleTokens, Issued, ToBeMinted, AuthTypeOK, Unanswered
  <2> QED
    BY <2>1, <2>2, <2>3, <2>4, <2>5
<1>2. CASE SignInStored \/ SignInNotStored
  <2>1. UNCHANGED <<googleCache, signOut, revoked, signOuts, askedAfter, googleToken>>
    BY <1>2 DEF SignInStored, SignInNotStored, Completed
  <2>2. \A m \in Logins : signIn'[m] \notin {"new", "google", "exchange"} \/ signIn'[m] = signIn[m]
    BY <1>2, CommitAnswered
  <2> QED
    BY <2>1, <2>2 DEF GoogleTokens, Issued, ToBeMinted, Unanswered, AuthTypeOK
<1>3. CASE AccessGranted \/ AccessDenied \/ RestoreAuthState \/ RestoreFails \/ RefreshStored
           \/ RefreshNotStored \/ RefreshNext
  <2>1. UNCHANGED <<googleCache, signOut, revoked, signOuts, askedAfter, googleToken, signIn>>
    BY <1>3 DEF AccessGranted, AccessDenied, RestoreAuthState, RestoreFails, RefreshStored,
                RefreshNotStored, RefreshNext, StartRefresh, DiscardRefresh, PublishRefresh,
                RefreshFails
  <2> QED
    BY <2>1 DEF GoogleTokens, Issued, ToBeMinted, Unanswered
<1>4. CASE SignedOutStored \/ SignedOutNotStored
  <2>1. UNCHANGED <<googleCache, revoked, signOuts, askedAfter, googleToken, signIn>>
        /\ signOut.pc = "remove"
    BY <1>4, AuthPopped DEF SignedOutStored, SignedOutNotStored, QueueInOrder, CallBelongs
  <2>2. \/ signOut'.pc = "none" /\ signOut'.token = Nobody
        \/ signOut'.pc = "uncache" /\ signOut'.token = signOut.token /\ signOut.token # Nobody
    BY <1>4 DEF SignedOutStored, SignedOutNotStored, NoSignOut, AuthTypeOK
  <2>3. /\ \A t \in Issued' \cap Logins : ~Unanswered(t)'
        /\ \A n \in 1..MaxSignOuts : ToBeMinted(n)' => Minted[n] \notin Issued'
    BY <2>1, <2>2, NoneIssued DEF Issued, ToBeMinted, Unanswered
  <2>4. \A l \in Logins : signIn[l] \in {"google", "exchange"} => askedAfter[l] # signOuts
    BY <2>1 DEF GoogleTokens
  <2> QED
    BY <2>1, <2>2, <2>3, <2>4 DEF GoogleTokens
<1>5. CASE SignOutNext
  <2>1. CASE SignOut
    <3>1. /\ signOut.pc = "none" /\ signOut' = [pc |-> "wait", token |-> Nobody]
          /\ signOuts \in Nat /\ signOuts' = signOuts + 1
          /\ UNCHANGED <<googleCache, revoked, signIn, askedAfter, googleToken>>
      BY <2>1 DEF SignOut, NoSignOut, AuthTypeOK
    <3>2. /\ \A t \in Issued' \cap Logins : ~Unanswered(t)'
          /\ \A n \in 1..MaxSignOuts : ToBeMinted(n)' => Minted[n] \notin Issued'
      BY <3>1, NoneIssued DEF Issued, ToBeMinted, Unanswered
    <3>3. signOuts' > 0 /\ signOut'.pc = "wait"
      BY <3>1
    <3>4. \A l \in Logins : askedAfter'[l] <= signOuts' /\ askedAfter'[l] # signOuts'
      BY <3>1 DEF GoogleTokens, AuthTypeOK
    <3> QED
      BY <3>1, <3>2, <3>3, <3>4 DEF GoogleTokens
  <2>2. CASE SignOutRefused \/ CommitsDrained \/ Revoked
    <3>1. /\ UNCHANGED <<googleCache, revoked, signOuts, signIn, askedAfter, googleToken>>
          /\ signOut.pc # "none" /\ signOut'.pc \in {"none", "lookup"}
          /\ signOut'.token \in {signOut.token, Nobody}
          /\ signOut'.pc = "lookup" => signOut.pc = "wait"
      BY <2>2 DEF SignOutRefused, CommitsDrained, Revoked, NoSignOut, AuthTypeOK
    <3>2. /\ \A t \in Issued' \cap Logins : ~Unanswered(t)'
          /\ \A n \in 1..MaxSignOuts : ToBeMinted(n)' => Minted[n] \notin Issued'
      BY <3>1, NoneIssued DEF Issued, ToBeMinted, Unanswered
    <3> QED
      BY <3>1, <3>2 DEF GoogleTokens
  <2>3. CASE RemoveStored
    <3>1. /\ signOut.pc = "lookup" /\ UNCHANGED <<revoked, signOuts, signIn, askedAfter, googleToken>>
          /\ signOuts \in 1..MaxSignOuts
      BY <2>3 DEF RemoveStored, GoogleTokens, AuthTypeOK
    <3>2. PICK t \in {IF googleCache = Nobody THEN Minted[signOuts] ELSE googleCache, Nobody} :
            /\ signOut' = [pc |-> "remove", token |-> t]
            /\ googleCache' = IF t = Nobody THEN googleCache ELSE t
      BY <2>3 DEF RemoveStored
    <3>3. t \in {googleCache, Minted[signOuts], Nobody} /\ Minted[signOuts] \notin Issued
      BY <3>1, <3>2 DEF GoogleTokens, ToBeMinted
    <3>4. Issued' \subseteq Issued \cup {Minted[signOuts], Nobody}
          /\ googleCache' \in {googleCache, Minted[signOuts], Nobody}
      BY <3>1, <3>2, <3>3 DEF Issued
    <3>5. googleCache' \notin revoked'
      BY <3>1, <3>3, <3>4 DEF GoogleTokens, Issued
    <3>6. \A m \in Issued' \cap Logins : ~Unanswered(m)'
      BY <3>1, <3>4, MintedAssumption DEF GoogleTokens, Unanswered
    <3>7. \A n \in 1..MaxSignOuts : ToBeMinted(n)' => Minted[n] \notin Issued'
      <4>1. \A n \in 1..MaxSignOuts :
              ToBeMinted(n)' => ToBeMinted(n) /\ Minted[n] \notin {Minted[signOuts], Nobody}
        BY <3>1, <3>2, MintedAssumption DEF ToBeMinted
      <4> QED
        BY <3>4, <4>1 DEF GoogleTokens
    <3> QED
      BY <3>1, <3>2, <3>5, <3>6, <3>7 DEF GoogleTokens
  <2>4. CASE Uncached
    <3>1. /\ UNCHANGED <<signOuts, signIn, askedAfter, googleToken>>
          /\ signOut.pc = "uncache" /\ signOut'.pc = "revoke" /\ signOut'.token = signOut.token
          /\ googleCache' = IF googleCache = signOut.token THEN Nobody ELSE googleCache
          /\ revoked' = revoked \cup {signOut.token}
      BY <2>4 DEF Uncached, AuthTypeOK
    <3>2. /\ \A t \in Issued' \cap Logins : ~Unanswered(t)'
          /\ \A n \in 1..MaxSignOuts : ToBeMinted(n)' => Minted[n] \notin Issued'
      BY <3>1, NoneIssued DEF Issued, ToBeMinted, Unanswered
    <3>3. signOut.token # Nobody /\ Nobody \notin revoked' /\ googleCache' \notin revoked'
      BY <3>1 DEF GoogleTokens
    <3> QED
      BY <3>1, <3>2, <3>3 DEF GoogleTokens
  <2> QED
    BY <1>5, <2>1, <2>2, <2>3, <2>4 DEF SignOutNext
<1>6. CASE Stop
  <2>1. /\ UNCHANGED <<googleCache, revoked, signOuts>>
        /\ signOut'.pc = "none" /\ signOut'.token = Nobody
        /\ \A l \in Logins : /\ signIn'[l] \notin {"google", "exchange"} /\ askedAfter'[l] = 0
                             /\ Unanswered(l)' => Unanswered(l)
    BY <1>6 DEF Stop, Unanswered, NoSignOut
  <2>2. /\ \A t \in Issued' \cap Logins : ~Unanswered(t)'
        /\ \A n \in 1..MaxSignOuts : ToBeMinted(n)' => Minted[n] \notin Issued'
    <3>1. \A n \in 1..MaxSignOuts : ToBeMinted(n)' => ToBeMinted(n)
      BY <2>1 DEF ToBeMinted
    <3>2. Issued' \subseteq Issued \cup {Nobody}
      BY <2>1 DEF Issued
    <3> QED
      BY <2>1, <3>1, <3>2, NoneIssued
  <2>3. signOuts \in Nat
    BY DEF AuthTypeOK
  <2> QED
    BY <2>1, <2>2, <2>3 DEF GoogleTokens
<1> QED
  BY <1>1, <1>2, <1>3, <1>4, <1>5, <1>6 DEF AuthNext, StorageNext

-----------------------------------------------------------------------------
LEMMA RefreshesKept ==
  ASSUME AuthTypeOK, AuthTypeOK', StartUpInOrder, QueueInOrder, OneChain, TokensOwned,
         RefreshesOfTheirSession, AuthNext
  PROVE  RefreshesOfTheirSession'
<1> USE NobodyAssumption DEF durableState, loginState, googleState
<1> SUFFICES ASSUME NEW c \in Callers PROVE RefreshOfItsSession(c)'
  BY DEF RefreshesOfTheirSession
<1>0. RefreshOfItsSession(c)
  BY DEF RefreshesOfTheirSession
<1>1. CASE SignInNext
  <2>1. UNCHANGED <<refresh, authGeneration, restored, signOut, current>>
    BY <1>1 DEF SignInNext, AskGoogle, GoogleAnswers, Exchanged, SignInFails, ChainCommit
  <2> QED
    BY <1>0, <2>1 DEF RefreshOfItsSession
<1>2. CASE SignInStored \/ SignInNotStored
  <2>1. /\ UNCHANGED <<refresh, signOut>>
        /\ \/ UNCHANGED <<authGeneration, restored, current>>
           \/ authGeneration' = authGeneration + 1
    BY <1>2 DEF SignInStored, SignInNotStored, Completed
  <2> QED
    BY <1>0, <2>1 DEF RefreshOfItsSession, AuthTypeOK, RefreshRecord
<1>3. CASE AccessGranted \/ AccessDenied \/ RestoreAuthState \/ RestoreFails
  <2>1. /\ UNCHANGED <<refresh, signOut>>
        /\ \/ UNCHANGED <<authGeneration, restored, current>>
           \/ UNCHANGED authGeneration /\ restored = "pending"
           \/ authGeneration' = authGeneration + 1
    BY <1>3, AuthPopped DEF AccessGranted, AccessDenied, RestoreAuthState, RestoreFails, StartUpInOrder,
                QueueInOrder, CallBelongs
  <2> QED
    BY <1>0, <2>1 DEF RefreshOfItsSession, AuthTypeOK, RefreshRecord
<1>4. CASE SignedOutStored \/ SignedOutNotStored
  <2>1. /\ UNCHANGED <<refresh, restored>> /\ signOut.pc = "remove"
        /\ authGeneration' \in {authGeneration, authGeneration + 1}
    BY <1>4, AuthPopped DEF SignedOutStored, SignedOutNotStored, QueueInOrder, CallBelongs
  <2> QED
    BY <1>0, <2>1 DEF RefreshOfItsSession, AuthTypeOK, RefreshRecord
<1>5. CASE SignOutNext
  <2>1. /\ UNCHANGED <<refresh, restored, current>>
        /\ \/ UNCHANGED authGeneration /\ signOut.pc # "none"
           \/ authGeneration' = authGeneration + 1
    BY <1>5 DEF SignOutNext, SignOut, SignOutRefused, CommitsDrained, RemoveStored, Uncached, Revoked
  <2> QED
    BY <1>0, <2>1 DEF RefreshOfItsSession, AuthTypeOK, RefreshRecord
<1>6. CASE RefreshStored
  <2> DEFINE d == Head(writes).by
  <2>1. /\ d \in Callers /\ refresh[d].pc = "store" /\ refresh[d].late = writes[1].late
        /\ writes[1].by = d /\ RefreshIsFirst(1) /\ writes[1].kind = "refresh" /\ CallBelongs(1)
    BY <1>6, AuthPopped DEF RefreshStored, QueueInOrder, CallBelongs
  <2>2. UNCHANGED <<authGeneration, restored, signOut, current>>
        /\ \A e \in Callers \ {d} : refresh'[e] = refresh[e]
    BY <1>6 DEF RefreshStored, AuthTypeOK
  <2>3. CASE c # d
    BY <1>0, <2>2, <2>3 DEF RefreshOfItsSession
  <2>4. CASE c = d /\ current = Nobody
    BY <1>6, <2>1, <2>4 DEF RefreshStored, RefreshOfItsSession, AuthTypeOK, RefreshRecord
  <2>5. CASE c = d /\ current # Nobody
    <3>1. refresh'[c].pc = "got" /\ refresh'[c].token = current.token
          /\ refresh'[c].late = refresh[c].late /\ refresh'[c].login = refresh[c].login
      BY <1>6, <2>1, <2>5 DEF RefreshStored, AuthTypeOK, RefreshRecord
    <3>2. current.token = current.login
      BY <2>5 DEF TokensOwned, Owned
    <3>3. ~refresh[c].late => refresh[c].login = current.login
      BY <2>1, <2>5 DEF RefreshIsFirst
    <3> QED
      BY <3>1, <3>2, <3>3 DEF RefreshOfItsSession
  <2> QED
    BY <2>3, <2>4, <2>5
<1>7. CASE RefreshNotStored
  <2>1. UNCHANGED <<authGeneration, restored, signOut, current>>
        /\ refresh' = [refresh EXCEPT ![Head(writes).by].pc = "thrown"]
    BY <1>7 DEF RefreshNotStored
  <2> QED
    BY <1>0, <2>1 DEF RefreshOfItsSession, AuthTypeOK, RefreshRecord
<1>8. CASE RefreshNext
  <2> PICK d \in Callers : StartRefresh(d) \/ DiscardRefresh(d) \/ PublishRefresh(d) \/ RefreshFails(d)
    BY <1>8 DEF RefreshNext
  <2>0. RefreshOfItsSession(d)
    BY DEF RefreshesOfTheirSession
  <2>1. CASE StartRefresh(d)
    <3>1. current.token = current.login /\ current.login \in Logins
      BY <2>1 DEF StartRefresh, TokensOwned, Owned, AuthTypeOK, State
    <3>2. refresh' = [refresh EXCEPT ![d] = [NoRefresh EXCEPT !.pc = "fetch", !.login = current.login,
                         !.token = current.token, !.gen = authGeneration]]
      BY <2>1 DEF StartRefresh
    <3> QED
      BY <1>0, <2>1, <3>1, <3>2 DEF StartRefresh, RefreshOfItsSession, AuthTypeOK, NoRefresh
  <2>2. CASE DiscardRefresh(d)
    BY <1>0, <2>0, <2>2 DEF DiscardRefresh, RefreshOfItsSession, AuthTypeOK, RefreshRecord
  <2>3. CASE PublishRefresh(d)
    <3> DEFINE b == Outstanding("signIn")
               s == [current EXCEPT !.token = refresh[d].token]
    <3>a. /\ current' = s /\ current # Nobody /\ UNCHANGED <<authGeneration, restored, signOut>>
          /\ refresh' = [refresh EXCEPT ![d] = [@ EXCEPT !.pc = "store", !.late = b]]
      BY <2>3 DEF PublishRefresh, SameSession
    <3>b. current'.login = current.login /\ current' \in State
      <4>1. current \in State /\ refresh[d].token \in Logins
        BY <3>a, <2>0, <2>3 DEF AuthTypeOK, PublishRefresh, RefreshOfItsSession
      <4> QED
        BY <3>a, <4>1 DEF State
    <3>c. current' # Nobody
      BY <3>b, NobodyAssumption DEF State
    <3>1. /\ UNCHANGED <<authGeneration, restored, signOut>> /\ current' # Nobody
          /\ current'.login = current.login
          /\ \A e \in Callers : IF e = d THEN refresh'[e].pc = "store" ELSE refresh'[e] = refresh[e]
      <4> HIDE DEF b, s
      <4> QED
        BY <3>a, <3>b, <3>c DEF AuthTypeOK, RefreshRecord
    <3> QED
      BY <1>0, <3>1 DEF RefreshOfItsSession
  <2>4. CASE RefreshFails(d)
    BY <1>0, <2>4 DEF RefreshFails, RefreshOfItsSession, AuthTypeOK, RefreshRecord
  <2> QED
    BY <2>1, <2>2, <2>3, <2>4
<1>9. CASE Stop
  <2>1. refresh'[c].pc \notin {"fetch"} /\ (refresh'[c].pc = "got" => refresh'[c] = refresh[c])
    BY <1>9 DEF Stop, NoRefresh
  <2> QED
    BY <1>0, <2>1 DEF RefreshOfItsSession
<1> QED
  BY <1>1, <1>2, <1>3, <1>4, <1>5, <1>6, <1>7, <1>8, <1>9 DEF AuthNext, StorageNext

-----------------------------------------------------------------------------
\* What a step leaves as it was of the sign-in, refresh or sign-out a call belongs to.
CallKept(i) ==
  LET w == writes[i]
  IN /\ w.kind = "access" => access' = "pending"
     /\ w.kind = "get" => restored' = "pending" /\ access' = "ok"
     /\ w.kind = "signIn" => signIn'[w.by] = "writing"
     /\ w.kind = "refresh" =>
          /\ refresh'[w.by].pc = "store" /\ refresh'[w.by].late = w.late
          /\ refresh'[w.by].login = refresh[w.by].login
     /\ w.kind = "refresh" /\ ~w.late =>
          restored' = "ok" /\ current' # Nobody /\ current'.login = current.login
     /\ w.kind = "remove" => signOut'.pc = "remove"
\* The call at j was there before, s places behind.
MovedUp(j, s) ==
  /\ j + s \in DOMAIN writes /\ writes'[j] = writes[j + s] /\ CallKept(j + s)
  /\ writes[j + s].kind = "remove" => j = Len(writes')
\* The call at the end is new.
Added(j) ==
  /\ j = Len(writes') /\ CallBelongs(j)' /\ RefreshIsFirst(j)'
  /\ \A k \in 1..(j - 1) :
       /\ ~(writes'[k].kind = "signIn" /\ writes'[j].kind = "signIn")
       /\ ~(writes'[k].kind = "refresh" /\ writes'[j].kind = "refresh" /\ writes'[k].by = writes'[j].by)

LEMMA QueueMoves ==
  ASSUME AuthTypeOK, AuthTypeOK', QueueInOrder, NEW s \in {0, 1},
         \A j \in DOMAIN writes' : MovedUp(j, s) \/ Added(j)
  PROVE  QueueInOrder'
<1>1. DOMAIN writes' = 1..Len(writes') /\ Len(writes') \in Nat /\ DOMAIN writes = 1..Len(writes)
      /\ Len(writes) \in Nat
  BY DEF AuthTypeOK
<1>2. ASSUME NEW j \in DOMAIN writes', j # Len(writes') PROVE MovedUp(j, s)
  BY <1>2 DEF Added
<1>3. ASSUME NEW j \in DOMAIN writes' PROVE CallBelongs(j)' /\ RefreshIsFirst(j)'
  <2>1. CASE Added(j)
    BY <2>1 DEF Added
  <2>2. CASE MovedUp(j, s)
    <3>1. CallBelongs(j + s) /\ RefreshIsFirst(j + s) /\ CallKept(j + s) /\ j + s \in DOMAIN writes
          /\ writes'[j] = writes[j + s] /\ (writes[j + s].kind = "remove" => j = Len(writes'))
      BY <2>2 DEF MovedUp, QueueInOrder
    <3>2. CallBelongs(j)'
      BY <1>1, <3>1 DEF CallBelongs, CallKept
    <3>3. ASSUME NEW k \in 1..(j - 1), writes'[j].kind = "refresh", ~writes'[j].late
          PROVE  writes'[k].kind = "refresh"
      <4>0. j \in 1..Len(writes') /\ s \in {0, 1}
        BY <1>1
      <4>1. k \in DOMAIN writes' /\ k # Len(writes') /\ k + s \in 1..((j + s) - 1)
        <5> HIDE DEF MovedUp
        <5>1. k \in Nat /\ 1 <= k /\ k <= j - 1 /\ j <= Len(writes') /\ j \in Nat
          BY <1>1, <4>0
        <5>4. PICK n \in Nat : n = Len(writes')
          BY <1>1
        <5>2. k \in 1..Len(writes') /\ k # Len(writes')
          BY <5>1, <5>4
        <5>3. k + s \in 1..((j + s) - 1)
          BY <4>0, <5>1
        <5> QED
          BY <1>1, <5>2, <5>3
      <4>2. writes'[k] = writes[k + s]
        BY <1>2, <4>1 DEF MovedUp
      <4> QED
        BY <3>1, <3>3, <4>1, <4>2 DEF RefreshIsFirst
    <3>4. RefreshIsFirst(j)'
      BY <3>1, <3>3 DEF RefreshIsFirst, CallKept
    <3> QED
      BY <3>2, <3>4
  <2> QED
    BY <2>1, <2>2
<1>4. ASSUME NEW i \in DOMAIN writes', NEW j \in DOMAIN writes', i < j
      PROVE  /\ ~(writes'[i].kind = "signIn" /\ writes'[j].kind = "signIn")
             /\ ~(writes'[i].kind = "refresh" /\ writes'[j].kind = "refresh" /\ writes'[i].by = writes'[j].by)
  <2>1. MovedUp(i, s)
    BY <1>1, <1>2, <1>4
  <2>2. CASE Added(j)
    <3>1. i \in 1..(j - 1)
      BY <1>1, <1>4
    <3> QED
      BY <2>2, <3>1 DEF Added
  <2>3. CASE MovedUp(j, s)
    <3>1. i + s \in DOMAIN writes /\ j + s \in DOMAIN writes /\ i + s # j + s
          /\ writes'[i] = writes[i + s] /\ writes'[j] = writes[j + s]
      BY <1>1, <1>4, <2>1, <2>3 DEF MovedUp
    <3> QED
      BY <3>1 DEF QueueInOrder
  <2> QED
    BY <2>2, <2>3
<1>5. \A i, j \in DOMAIN writes' :
       /\ writes'[i].kind = "signIn" /\ writes'[j].kind = "signIn" => i = j
       /\ writes'[i].kind = "refresh" /\ writes'[j].kind = "refresh" /\ writes'[i].by = writes'[j].by
            => i = j
  <2> SUFFICES ASSUME NEW i \in DOMAIN writes', NEW j \in DOMAIN writes', i # j
               PROVE  /\ ~(writes'[i].kind = "signIn" /\ writes'[j].kind = "signIn")
                      /\ ~(writes'[i].kind = "refresh" /\ writes'[j].kind = "refresh"
                           /\ writes'[i].by = writes'[j].by)
    OBVIOUS
  <2>1. i < j \/ j < i
    BY <1>1
  <2> QED
    BY <1>4, <2>1
<1> QED
  BY <1>3, <1>5 DEF QueueInOrder

\* The three ways the queue moves.
LEMMA QueueStays ==
  ASSUME AuthTypeOK, AuthTypeOK', QueueInOrder, writes' = writes,
         \A i \in DOMAIN writes : CallKept(i)
  PROVE  QueueInOrder'
<1>1. ASSUME NEW j \in DOMAIN writes' PROVE MovedUp(j, 0)
  <2>1. j + 0 = j /\ CallBelongs(j)
    BY DEF AuthTypeOK, QueueInOrder
  <2> QED
    BY <2>1 DEF MovedUp, CallBelongs
<1> QED
  BY <1>1, QueueMoves
LEMMA QueuePops ==
  ASSUME AuthTypeOK, AuthTypeOK', QueueInOrder, writes # <<>>, writes' = Tail(writes),
         \A i \in DOMAIN writes \ {1} : CallKept(i)
  PROVE  QueueInOrder'
<1>1. ASSUME NEW j \in DOMAIN writes' PROVE MovedUp(j, 1)
  <2>1. j + 1 \in DOMAIN writes \ {1} /\ writes'[j] = writes[j + 1] /\ CallBelongs(j + 1)
        /\ Len(writes') = Len(writes) - 1
    BY AuthPopped DEF QueueInOrder
  <2>2. j \in Nat /\ Len(writes) \in Nat
    BY AuthPopped
  <2> QED
    BY <2>1, <2>2 DEF MovedUp, CallBelongs
<1> QED
  BY <1>1, QueueMoves
LEMMA QueueGrows ==
  ASSUME AuthTypeOK, AuthTypeOK', QueueInOrder, NEW w \in CallsToStorage,
         writes' = Append(writes, w),
         \A i \in DOMAIN writes : CallKept(i) /\ writes[i].kind # "remove",
         NEW n \in Nat, n = Len(writes) + 1, Added(n)
  PROVE  QueueInOrder'
<1>1. ASSUME NEW j \in DOMAIN writes' PROVE MovedUp(j, 0) \/ Added(j)
  <2>1. j = n \/ (j \in DOMAIN writes /\ writes'[j] = writes[j] /\ j + 0 = j)
    <3>1. writes \in Seq(CallsToStorage)
      BY DEF AuthTypeOK
    <3>2. /\ DOMAIN writes' = 1..(Len(writes) + 1) /\ DOMAIN writes = 1..Len(writes)
          /\ Len(writes) \in Nat /\ \A i \in DOMAIN writes : writes'[i] = writes[i]
      BY <3>1, AuthPushed
    <3> QED
      BY <3>2
  <2> QED
    BY <2>1 DEF MovedUp
<1> QED
  BY <1>1, QueueMoves
LEMMA QueuePopsAndGrows ==
  ASSUME AuthTypeOK, AuthTypeOK', QueueInOrder, NEW w \in CallsToStorage, writes # <<>>,
         writes' = Append(Tail(writes), w),
         \A i \in DOMAIN writes \ {1} : CallKept(i) /\ writes[i].kind # "remove",
         NEW n \in Nat, n = Len(writes), Added(n)
  PROVE  QueueInOrder'
<1>1. ASSUME NEW j \in DOMAIN writes' PROVE MovedUp(j, 1) \/ Added(j)
  <2>0. Tail(writes) \in Seq(CallsToStorage)
    BY AuthPopped
  <2>1. j = n \/ (j \in DOMAIN Tail(writes) /\ writes'[j] = Tail(writes)[j])
    BY <2>0, AuthPopped, AuthPushed
  <2>2. CASE j \in DOMAIN Tail(writes) /\ writes'[j] = Tail(writes)[j]
    <3>1. j + 1 \in DOMAIN writes /\ j + 1 # 1 /\ writes'[j] = writes[j + 1]
      BY <2>2, AuthPopped
    <3> QED
      BY <3>1 DEF MovedUp
  <2> QED
    BY <2>1, <2>2
<1> QED
  BY <1>1, QueueMoves

LEMMA CallsKept ==
  ASSUME AuthTypeOK, QueueInOrder, access' = access, restored' = restored,
         \A l \in Logins : signIn[l] = "writing" => signIn'[l] = "writing",
         \A c \in Callers : refresh[c].pc = "store" => refresh'[c] = refresh[c],
         signOut.pc = "remove" => signOut'.pc = "remove",
         restored = "ok" /\ current # Nobody => current' # Nobody /\ current'.login = current.login
  PROVE  \A i \in DOMAIN writes : CallKept(i)
<1> SUFFICES ASSUME NEW i \in DOMAIN writes PROVE CallKept(i)
  OBVIOUS
<1>1. CallBelongs(i) /\ RefreshIsFirst(i)
  BY DEF QueueInOrder
<1> QED
  BY <1>1 DEF CallBelongs, RefreshIsFirst, CallKept

LEMMA QueueKeptBySignIns ==
  ASSUME AuthTypeOK, AuthTypeOK', QueueInOrder, OneChain, SignInNext
  PROVE  QueueInOrder'
<1> USE DEF durableState, loginState, googleState
<1> PICK l \in Logins : AskGoogle(l) \/ GoogleAnswers(l) \/ Exchanged(l) \/ SignInFails(l)
                        \/ ChainCommit(l)
  BY DEF SignInNext
<1>1. UNCHANGED <<access, restored, refresh, signOut, current>>
      /\ \A m \in Logins : signIn[m] = "writing" => signIn'[m] = "writing"
  BY DEF AskGoogle, GoogleAnswers, Exchanged, SignInFails, ChainCommit, AuthTypeOK
<1>2. \A i \in DOMAIN writes : CallKept(i)
  BY <1>1, CallsKept
<1>3. CASE UNCHANGED writes
  BY <1>2, <1>3, QueueStays
<1>4. CASE ChainCommit(l) /\ writes' # writes
  <2>1. /\ writes' = Append(writes, SetSignIn(l)) /\ signIn'[l] = "writing" /\ tail = Nobody
        /\ signOut.pc = "none" /\ SetSignIn(l) \in CallsToStorage
    BY <1>4, AuthCalls DEF ChainCommit, AuthTypeOK
  <2>2. \A i \in DOMAIN writes : writes[i].kind \notin {"remove", "signIn"}
    BY <2>1 DEF QueueInOrder, CallBelongs, OneChain, Committing
  <2>4. PICK n \in Nat : n = Len(writes) + 1
    BY DEF AuthTypeOK
  <2>3. Added(n)
    <3>1. writes \in Seq(CallsToStorage)
      BY DEF AuthTypeOK
    <3>2. /\ Len(writes') = n /\ writes'[n] = SetSignIn(l)
          /\ \A k \in 1..(n - 1) : k \in DOMAIN writes /\ writes'[k] = writes[k]
      BY <2>1, <2>4, <3>1, AuthPushed
    <3>3. CallBelongs(n)' /\ RefreshIsFirst(n)'
      <4>1. SetSignIn(l).kind = "signIn" /\ SetSignIn(l).by = l
        BY DEF SetSignIn
      <4> QED
        BY <2>1, <3>2, <4>1 DEF CallBelongs, RefreshIsFirst
    <3> QED
      BY <2>2, <3>2, <3>3 DEF Added, SetSignIn
  <2> QED
    BY <1>2, <2>1, <2>2, <2>3, <2>4, QueueGrows
<1> QED
  BY <1>3, <1>4 DEF AskGoogle, GoogleAnswers, Exchanged, SignInFails, ChainCommit

LEMMA QueueKeptByCommits ==
  ASSUME AuthTypeOK, AuthTypeOK', StartUpInOrder, QueueInOrder, OneChain,
         SignInStored \/ SignInNotStored
  PROVE  QueueInOrder'
<1> DEFINE l == Head(writes).by
<1>1. /\ l \in Logins /\ writes[1] = SetSignIn(l) /\ writes # <<>> /\ tail # Nobody
      /\ \A m \in Successors(l) : m \in Logins /\ signIn'[m] = "writing"
      /\ UNCHANGED <<access, refresh, signOut>> /\ 1 \in DOMAIN writes
  BY CommitAnswered, AuthPopped DEF SignInStored, SignInNotStored, Completed, Successors
<1>2. \A i \in DOMAIN writes \ {1} : writes[i].kind = "refresh" /\ writes[i].late
  <2> SUFFICES ASSUME NEW i \in DOMAIN writes \ {1}
               PROVE  writes[i].kind = "refresh" /\ writes[i].late
    OBVIOUS
  <2>1. CallBelongs(i) /\ RefreshIsFirst(i) /\ CallBelongs(1)
    BY <1>1 DEF QueueInOrder
  <2>2. writes[1].kind = "signIn" /\ writes[i] \in CallsToStorage
    BY <1>1 DEF SetSignIn, AuthTypeOK
  <2>3. writes[i].kind # "signIn"
    BY <1>1, <2>2 DEF QueueInOrder
  <2>4. writes[i].kind # "remove"
    BY <1>1, <2>1 DEF CallBelongs, StartUpInOrder
  <2>5. writes[i].kind # "get"
    BY <2>1 DEF CallBelongs
  <2>6. writes[i].kind # "access"
    <3>1. writes[1].kind # "access" /\ writes[1] = <<Access>>[1] => writes[1].kind = "access"
      BY <2>2 DEF Access
    <3> QED
      BY <2>1, <2>2, <3>1 DEF CallBelongs, StartUpInOrder
  <2>7. writes[i].kind = "refresh"
    BY <2>2, <2>3, <2>4, <2>5, <2>6 DEF CallsToStorage
  <2>8. 1 \in 1..(i - 1)
    BY AuthPopped, <1>1
  <2>9. writes[i].late
    BY <2>2, <2>7, <2>8 DEF RefreshIsFirst, QueueInOrder
  <2> QED
    BY <2>7, <2>9
<1>3. \A i \in DOMAIN writes \ {1} : CallKept(i) /\ writes[i].kind # "remove"
  <2> SUFFICES ASSUME NEW i \in DOMAIN writes \ {1} PROVE CallKept(i) /\ writes[i].kind # "remove"
    OBVIOUS
  <2>1. CallBelongs(i) /\ writes[i].kind = "refresh" /\ writes[i].late
    BY <1>2 DEF QueueInOrder
  <2> QED
    BY <1>1, <2>1 DEF CallKept, CallBelongs
<1>4. CASE writes' = Tail(writes)
  BY <1>1, <1>3, <1>4, QueuePops
<1>5. CASE writes' # Tail(writes)
  <2>1. PICK m \in Successors(l) : writes' = Append(Tail(writes), SetSignIn(m))
    BY <1>5 DEF SignInStored, SignInNotStored, Completed
  <2>2. m \in Logins /\ signIn'[m] = "writing" /\ SetSignIn(m) \in CallsToStorage
    BY <1>1, <2>1, AuthCalls
  <2>4. PICK n \in Nat : n = Len(writes)
    BY AuthPopped, <1>1
  <2>3. Added(n)
    <3>1. Tail(writes) \in Seq(CallsToStorage) /\ Len(Tail(writes)) + 1 = Len(writes)
          /\ Len(writes) \in Nat
      BY <1>1, AuthPopped
    <3>2. /\ Len(writes') = n /\ writes'[n] = SetSignIn(m)
          /\ DOMAIN Tail(writes) = 1..(n - 1)
          /\ \A k \in 1..(n - 1) : writes'[k] = Tail(writes)[k]
      BY <2>1, <2>2, <2>4, <3>1, AuthPushed
    <3>3. \A k \in 1..(n - 1) : writes'[k].kind = "refresh"
      BY <1>1, <1>2, <2>4, <3>2, AuthPopped
    <3>4. CallBelongs(n)' /\ RefreshIsFirst(n)'
      BY <2>2, <3>2 DEF CallBelongs, RefreshIsFirst, SetSignIn
    <3> QED
      BY <3>2, <3>3, <3>4 DEF Added, SetSignIn
  <2> QED
    BY <1>1, <1>3, <2>1, <2>2, <2>3, <2>4, QueuePopsAndGrows
<1> QED
  BY <1>4, <1>5

LEMMA QueueKeptByStorage ==
  ASSUME AuthTypeOK, AuthTypeOK', StartUpInOrder, QueueInOrder,
         AccessGranted \/ AccessDenied \/ RestoreAuthState \/ RestoreFails \/ SignedOutStored
         \/ SignedOutNotStored \/ RefreshStored \/ RefreshNotStored
  PROVE  QueueInOrder'
<1> USE DEF durableState, loginState, googleState
<1>0. writes # <<>> /\ CallBelongs(1) /\ RefreshIsFirst(1) /\ Head(writes) = writes[1]
      /\ 1 \in DOMAIN writes
  BY AuthPopped DEF QueueInOrder, AccessGranted, AccessDenied, RestoreAuthState, RestoreFails,
                    SignedOutStored, SignedOutNotStored, RefreshStored, RefreshNotStored
<1>1. CASE AccessGranted \/ AccessDenied
  <2>1. writes = <<Access>> /\ restored = "pending"
    BY <1>0, <1>1 DEF AccessGranted, AccessDenied, CallBelongs, StartUpInOrder
  <2>2. Tail(writes) = <<>>
    BY <2>1
  <2>3. \/ writes' = <<>>
        \/ writes' = <<Get>> /\ restored' = "pending" /\ access' = "ok"
    BY <1>1, <2>1, <2>2 DEF AccessGranted, AccessDenied
  <2>4. writes' = <<Get>> => Len(writes') = 1 /\ DOMAIN writes' = {1} /\ writes'[1] = Get
    OBVIOUS
  <2> QED
    BY <2>3, <2>4 DEF QueueInOrder, CallBelongs, RefreshIsFirst, Get
<1>2. CASE RestoreAuthState \/ RestoreFails
  <2>1. writes' = Tail(writes) /\ restored = "pending" /\ UNCHANGED <<access, signIn, refresh, signOut>>
        /\ access = "ok"
    BY <1>0, <1>2 DEF RestoreAuthState, RestoreFails, CallBelongs
  <2>2. ASSUME NEW i \in DOMAIN writes \ {1} PROVE CallKept(i)
    <3>1. CallBelongs(i) /\ RefreshIsFirst(i)
      BY DEF QueueInOrder
    <3> QED
      BY <2>1, <3>1 DEF CallBelongs, RefreshIsFirst, CallKept
  <2> QED
    BY <1>0, <2>1, <2>2, QueuePops
<1>3. CASE SignedOutStored \/ SignedOutNotStored
  <2>1. writes' = Tail(writes) /\ Len(writes) = 1
    BY <1>0, <1>3 DEF SignedOutStored, SignedOutNotStored, CallBelongs
  <2>2. DOMAIN writes' = {}
    BY <1>0, <2>1, AuthPopped
  <2> QED
    BY <2>2 DEF QueueInOrder
<1>4. CASE RefreshStored \/ RefreshNotStored
  <2>1. /\ writes' = Tail(writes) /\ UNCHANGED <<access, restored, signIn, signOut, current>>
        /\ \A c \in Callers \ {writes[1].by} : refresh'[c] = refresh[c]
        /\ writes[1].kind = "refresh"
    BY <1>0, <1>4 DEF RefreshStored, RefreshNotStored, AuthTypeOK
  <2>2. ASSUME NEW i \in DOMAIN writes \ {1} PROVE CallKept(i)
    <3>1. CallBelongs(i) /\ RefreshIsFirst(i)
      BY DEF QueueInOrder
    <3>2. writes[i].kind = "refresh" => writes[i].by # writes[1].by
      BY <1>0, <2>1 DEF QueueInOrder
    <3> QED
      BY <2>1, <3>1, <3>2 DEF CallBelongs, RefreshIsFirst, CallKept
  <2> QED
    BY <1>0, <2>1, <2>2, QueuePops
<1> QED
  BY <1>1, <1>2, <1>3, <1>4

LEMMA QueueKeptBySignOut ==
  ASSUME AuthTypeOK, AuthTypeOK', QueueInOrder, SignOutNext
  PROVE  QueueInOrder'
<1> USE DEF durableState, loginState, googleState
<1>1. UNCHANGED <<access, restored, signIn, refresh, current>>
      /\ (signOut.pc = "remove" => UNCHANGED signOut)
  BY DEF SignOutNext, SignOut, SignOutRefused, CommitsDrained, RemoveStored, Uncached, Revoked
<1>2. \A i \in DOMAIN writes : CallKept(i)
  BY <1>1, CallsKept
<1>3. CASE UNCHANGED writes
  BY <1>2, <1>3, QueueStays
<1>4. CASE RemoveStored
  <2>1. /\ writes' = Append(writes, Remove) /\ signOut.pc = "lookup" /\ signOut'.pc = "remove"
    BY <1>4 DEF RemoveStored
  <2>2. \A i \in DOMAIN writes : writes[i].kind # "remove"
    BY <2>1 DEF QueueInOrder, CallBelongs
  <2>4. PICK n \in Nat : n = Len(writes) + 1
    BY DEF AuthTypeOK
  <2>3. Added(n)
    <3>1. writes \in Seq(CallsToStorage) /\ Remove \in CallsToStorage
      BY AuthCalls DEF AuthTypeOK
    <3>2. Len(writes') = n /\ writes'[n] = Remove
      BY <2>1, <2>4, <3>1, AuthPushed
    <3>3. CallBelongs(n)' /\ RefreshIsFirst(n)'
      <4>1. Remove.kind = "remove"
        BY DEF Remove
      <4> QED
        BY <2>1, <2>4, <3>2, <4>1 DEF CallBelongs, RefreshIsFirst
    <3> QED
      BY <3>2, <3>3 DEF Added, Remove
  <2> QED
    BY <1>2, <2>1, <2>2, <2>3, <2>4, QueueGrows, AuthCalls
<1> QED
  BY <1>3, <1>4 DEF SignOutNext, SignOut, SignOutRefused, CommitsDrained, RemoveStored, Uncached,
                    Revoked

LEMMA QueueKeptByRefreshes ==
  ASSUME AuthTypeOK, AuthTypeOK', StartUpInOrder, QueueInOrder, RefreshesOfTheirSession, RefreshNext
  PROVE  QueueInOrder'
<1> USE DEF durableState, loginState, googleState
<1> PICK c \in Callers : StartRefresh(c) \/ DiscardRefresh(c) \/ PublishRefresh(c) \/ RefreshFails(c)
  BY DEF RefreshNext
<1>1. /\ UNCHANGED <<access, restored, signIn, signOut>> /\ refresh[c].pc \in {"new", "fetch"}
      /\ \A d \in Callers : refresh[d].pc = "store" => refresh'[d] = refresh[d]
      /\ current' = current \/ PublishRefresh(c)
  BY DEF StartRefresh, DiscardRefresh, PublishRefresh, RefreshFails, AuthTypeOK
<1>2. CASE ~PublishRefresh(c)
  <2>1. UNCHANGED <<writes, current>>
    BY <1>2 DEF StartRefresh, DiscardRefresh, RefreshFails
  <2>2. \A i \in DOMAIN writes : CallKept(i)
    BY <1>1, <2>1, CallsKept
  <2> QED
    BY <2>1, <2>2, QueueStays
<1>3. CASE PublishRefresh(c)
  <2> DEFINE b == Outstanding("signIn")
             s == [current EXCEPT !.token = refresh[c].token]
             w == SetRefresh(c, s, b)
  <2>1. /\ current' = s /\ current # Nobody /\ writes' = Append(writes, w)
        /\ refresh' = [refresh EXCEPT ![c] = [@ EXCEPT !.pc = "store", !.late = b]]
        /\ refresh[c].pc = "fetch" /\ authGeneration = refresh[c].gen
    BY <1>3 DEF PublishRefresh, SameSession
  <2>2. /\ refresh[c].login \in Logins /\ restored = "ok" /\ signOut.pc = "none"
        /\ current.login = refresh[c].login /\ refresh[c].token \in Logins
    BY <2>1 DEF RefreshesOfTheirSession, RefreshOfItsSession
  <2>3. s \in State /\ s.login = current.login /\ s # Nobody
    <3>1. current \in State
      BY <2>1 DEF AuthTypeOK
    <3>2. s \in State /\ s.login = current.login
      BY <2>2, <3>1 DEF State
    <3> QED
      BY <3>2, NobodyAssumption DEF State
  <2>4. b \in BOOLEAN /\ (b <=> \E i \in DOMAIN writes : writes[i].kind = "signIn")
    BY DEF Outstanding
  <2> HIDE DEF b, s
  <2>5. w \in CallsToStorage /\ w.kind = "refresh" /\ w.by = c /\ w.state = s /\ w.late = b
    BY <2>3, <2>4, AuthCalls DEF SetRefresh
  <2> HIDE DEF w
  <2>6. refresh'[c].pc = "store" /\ refresh'[c].late = b /\ refresh'[c].login = refresh[c].login
    BY <2>1 DEF AuthTypeOK, RefreshRecord
  <2>7. \A i \in DOMAIN writes : CallKept(i)
    BY <1>1, <2>1, <2>3, CallsKept
  <2>8. \A i \in DOMAIN writes : /\ writes[i].kind \in {"signIn", "refresh"}
                                 /\ writes[i].kind = "refresh" => writes[i].by # c
    <3> SUFFICES ASSUME NEW i \in DOMAIN writes
                 PROVE  /\ writes[i].kind \in {"signIn", "refresh"}
                        /\ writes[i].kind = "refresh" => writes[i].by # c
      OBVIOUS
    <3>1. CallBelongs(i) /\ writes[i] \in CallsToStorage
      BY DEF QueueInOrder, AuthTypeOK
    <3>2. writes[i].kind \notin {"access", "get", "remove"}
      BY <2>2, <3>1 DEF CallBelongs, StartUpInOrder
    <3>3. writes[i].kind \in {"signIn", "refresh"}
      BY <3>1, <3>2 DEF CallsToStorage
    <3> QED
      BY <2>1, <3>1, <3>3 DEF CallBelongs
  <2>10. PICK n \in Nat : n = Len(writes) + 1
    BY DEF AuthTypeOK
  <2>9. Added(n)
    <3>1. writes \in Seq(CallsToStorage)
      BY DEF AuthTypeOK
    <3>2. /\ Len(writes') = n /\ writes'[n] = w
          /\ \A k \in 1..(n - 1) : k \in DOMAIN writes /\ writes'[k] = writes[k]
      BY <2>1, <2>5, <2>10, <3>1, AuthPushed
    <3>3. CallBelongs(n)'
      BY <2>3, <2>5, <2>6, <3>2 DEF CallBelongs
    <3>4. RefreshIsFirst(n)'
      BY <1>1, <2>1, <2>2, <2>3, <2>4, <2>5, <2>6, <2>8, <3>2 DEF RefreshIsFirst
    <3> QED
      BY <2>5, <2>8, <3>2, <3>3, <3>4 DEF Added
  <2> QED
    BY <2>1, <2>5, <2>7, <2>8, <2>9, <2>10, QueueGrows
<1> QED
  BY <1>2, <1>3

LEMMA QueueKept ==
  ASSUME AuthTypeOK, AuthTypeOK', StartUpInOrder, QueueInOrder, OneChain, RefreshesOfTheirSession,
         AuthNext
  PROVE  QueueInOrder'
<1>1. CASE Stop
  <2>1. writes' = <<Access>> /\ access' = "pending" /\ DOMAIN writes' = {1} /\ writes'[1] = Access
    BY <1>1 DEF Stop
  <2> QED
    BY <2>1 DEF QueueInOrder, CallBelongs, RefreshIsFirst, Access
<1> QED
  BY <1>1, QueueKeptBySignIns, QueueKeptByCommits, QueueKeptByStorage, QueueKeptBySignOut,
     QueueKeptByRefreshes DEF AuthNext, StorageNext

-----------------------------------------------------------------------------
\* The tokens.
LEMMA TokensStay ==
  ASSUME AuthTypeOK, QueueInOrder, TokensOwned, removed' = removed,
         \A l \in Logins : Settled(l) => Settled(l)',
         \A s \in {stored', current'} \ {Nobody} : s \in {stored, current} \/ Owned(s)',
         \A i \in DOMAIN writes' : writes'[i].kind = "refresh" =>
           (\E j \in DOMAIN writes : writes'[i] = writes[j]) \/ Owned(writes[i].state)'
  PROVE  TokensOwned'
<1>1. ASSUME NEW s \in State, Owned(s) PROVE Owned(s)'
  BY <1>1 DEF Owned, State
<1>2. ASSUME NEW s \in {stored', current'} \ {Nobody} PROVE Owned(s)'
  <2>1. CASE s \in {stored, current}
    <3>1. Owned(s) /\ s \in State
      BY <1>2, <2>1 DEF TokensOwned, AuthTypeOK
    <3> QED
      BY <1>1, <3>1
  <2> QED
    BY <1>2, <2>1
<1>3. ASSUME NEW i \in DOMAIN writes', writes'[i].kind = "refresh" PROVE Owned(writes[i].state)'
  <2>1. ASSUME NEW j \in DOMAIN writes, writes'[i] = writes[j] PROVE Owned(writes[i].state)'
    <3>1. Owned(writes[j].state) /\ writes[j].state \in State
      BY <1>3, <2>1 DEF TokensOwned, QueueInOrder, CallBelongs
    <3>2. PICK s : s = writes[j].state
      OBVIOUS
    <3>3. Owned(s)'
      BY <1>1, <3>1, <3>2
    <3> QED
      BY <2>1, <3>2, <3>3 DEF Owned
  <2> QED
    BY <1>3, <2>1
<1>4. \A l \in removed' : Settled(l)'
  BY DEF TokensOwned, AuthTypeOK
<1> QED
  BY <1>2, <1>3, <1>4 DEF TokensOwned

LEMMA RefreshesCalled ==
  ASSUME AuthTypeOK,
         \/ writes' = writes
         \/ writes # <<>> /\ writes' = Tail(writes)
         \/ \E w \in CallsToStorage :
              /\ w.kind # "refresh"
              /\ \/ writes' = Append(writes, w)
                 \/ writes # <<>> /\ writes' = Append(Tail(writes), w)
  PROVE  \A i \in DOMAIN writes' : writes'[i].kind = "refresh" =>
           \E j \in DOMAIN writes : writes'[i] = writes[j]
<1>1. CASE writes' = writes
  BY <1>1
<1>2. CASE writes # <<>> /\ writes' = Tail(writes)
  BY <1>2, AuthPopped
<1>3. ASSUME NEW w \in CallsToStorage, w.kind # "refresh", writes' = Append(writes, w)
      PROVE  \A i \in DOMAIN writes' : writes'[i].kind = "refresh" =>
               \E j \in DOMAIN writes : writes'[i] = writes[j]
  <2>1. writes \in Seq(CallsToStorage)
    BY DEF AuthTypeOK
  <2>2. \A i \in DOMAIN writes' : writes'[i] = w \/ (i \in DOMAIN writes /\ writes'[i] = writes[i])
    BY <1>3, <2>1, AuthPushed
  <2> QED
    BY <1>3, <2>2
<1>4. ASSUME NEW w \in CallsToStorage, w.kind # "refresh", writes # <<>>,
             writes' = Append(Tail(writes), w)
      PROVE  \A i \in DOMAIN writes' : writes'[i].kind = "refresh" =>
               \E j \in DOMAIN writes : writes'[i] = writes[j]
  <2>1. Tail(writes) \in Seq(CallsToStorage)
    BY <1>4, AuthPopped
  <2>2. \A i \in DOMAIN writes' :
          writes'[i] = w \/ (i \in DOMAIN Tail(writes) /\ writes'[i] = Tail(writes)[i])
    BY <1>4, <2>1, AuthPushed
  <2>3. \A i \in DOMAIN Tail(writes) : i + 1 \in DOMAIN writes /\ Tail(writes)[i] = writes[i + 1]
    BY <1>4, AuthPopped
  <2> QED
    BY <1>4, <2>2, <2>3
<1> QED
  BY <1>1, <1>2, <1>3, <1>4

LEMMA TokensKept ==
  ASSUME AuthTypeOK, AuthTypeOK', StartUpInOrder, QueueInOrder, OneChain, TokensOwned,
         RefreshesOfTheirSession, AuthNext
  PROVE  TokensOwned'
<1> USE DEF durableState, loginState, googleState
<1>1. CASE SignInNext
  <2> PICK l \in Logins : AskGoogle(l) \/ GoogleAnswers(l) \/ Exchanged(l) \/ SignInFails(l)
                          \/ ChainCommit(l)
    BY <1>1 DEF SignInNext
  <2>1. /\ UNCHANGED <<stored, current, removed>>
        /\ writes' = writes \/ writes' = Append(writes, SetSignIn(l))
        /\ \A m \in Logins : Settled(m) => Settled(m)'
    BY DEF AskGoogle, GoogleAnswers, Exchanged, SignInFails, ChainCommit, AuthTypeOK, Settled
  <2>2. SetSignIn(l) \in CallsToStorage /\ SetSignIn(l).kind # "refresh"
    BY AuthCalls DEF SetSignIn
  <2>3. \A i \in DOMAIN writes' : writes'[i].kind = "refresh" =>
          \E j \in DOMAIN writes : writes'[i] = writes[j]
    BY <2>1, <2>2, RefreshesCalled
  <2> QED
    BY <2>1, <2>3, TokensStay
<1>2. CASE SignInStored \/ SignInNotStored
  <2> DEFINE l == Head(writes).by
  <2>1. /\ l \in Logins /\ signIn[l] = "writing" /\ writes[1] = SetSignIn(l) /\ writes # <<>>
        /\ \A m \in Successors(l) : m \in Logins /\ signIn[m] = "chained"
        /\ \A m \in Logins : \/ m = l /\ signIn'[m] \in {"done", "failed"}
                             \/ m # l /\ m \in Successors(l) /\ signIn'[m] = "writing"
                             \/ m # l /\ m \notin Successors(l) /\ signIn'[m] = signIn[m]
    BY <1>2, CommitAnswered DEF Successors
  <2>2. removed' = removed /\ {stored', current'} \subseteq {stored, current, writes[1].state}
        /\ \/ writes' = Tail(writes)
           \/ \E m \in Successors(l) : writes' = Append(Tail(writes), SetSignIn(m))
    BY <1>2, AuthPopped DEF SignInStored, SignInNotStored, Completed
  <2>3. \A m \in Logins : Settled(m) => Settled(m)'
    BY <2>1 DEF Settled
  <2>4. ~Settled(l)
    BY <2>1 DEF Settled
  <2>5. PICK s : s = writes[1].state
    OBVIOUS
  <2>6. Owned(s)'
    <3>1. s.login = l /\ s.token = l
      BY <2>1, <2>5 DEF SetSignIn
    <3>2. l \notin removed'
      BY <2>2, <2>4 DEF TokensOwned
    <3>3. PICK m \in Logins : m = l
      BY <2>1
    <3>4. Settled(m)'
      BY <2>1, <3>3 DEF Settled
    <3> QED
      BY <3>1, <3>2, <3>3, <3>4 DEF Owned
  <2>7. \A i \in DOMAIN writes' : writes'[i].kind = "refresh" =>
          \E j \in DOMAIN writes : writes'[i] = writes[j]
    <3>1. \A m \in Logins : SetSignIn(m) \in CallsToStorage /\ SetSignIn(m).kind # "refresh"
      BY AuthCalls DEF SetSignIn
    <3> QED
      BY <2>1, <2>2, <3>1, RefreshesCalled
  <2> QED
    BY <2>2, <2>3, <2>5, <2>6, <2>7, TokensStay
<1>3. CASE AccessGranted \/ AccessDenied \/ RestoreAuthState \/ RestoreFails \/ RefreshStored
           \/ RefreshNotStored \/ SignedOutNotStored
  <2>1. /\ UNCHANGED <<removed, signIn>> /\ writes # <<>> /\ Head(writes) = writes[1]
        /\ writes' = Tail(writes) \/ writes' = Append(Tail(writes), Get)
        /\ \/ {stored', current'} \subseteq {stored, current, Nobody}
           \/ writes[1].kind = "refresh" /\ {stored', current'} \subseteq {stored, current, writes[1].state}
    BY <1>3, AuthPopped DEF AccessGranted, AccessDenied, RestoreAuthState, RestoreFails,
         RefreshStored, RefreshNotStored, SignedOutNotStored
  <2>2. Get \in CallsToStorage /\ Get.kind # "refresh"
    BY AuthCalls DEF Get
  <2>3. \A i \in DOMAIN writes' : writes'[i].kind = "refresh" =>
          \E j \in DOMAIN writes : writes'[i] = writes[j]
    BY <2>1, <2>2, RefreshesCalled
  <2>4. \A m \in Logins : Settled(m)' = Settled(m)
    BY <2>1 DEF Settled
  <2>5. ASSUME NEW s, s = writes[1].state, writes[1].kind = "refresh" PROVE Owned(s)'
    <3>1. Owned(s) /\ s \in State
      BY <2>1, <2>5, AuthPopped DEF TokensOwned, QueueInOrder, CallBelongs
    <3> QED
      BY <2>1, <3>1 DEF Owned, Settled
  <2>6. \A s \in {stored', current'} \ {Nobody} : s \in {stored, current} \/ Owned(s)'
    BY <2>1, <2>5
  <2> QED
    BY <2>1, <2>3, <2>4, <2>6, TokensStay
<1>4. CASE SignedOutStored
  <2>1. /\ stored' = Nobody /\ current' = Nobody /\ removed' = removed \cup TokensHeld
        /\ writes' = Tail(writes) /\ signIn' = signIn /\ writes # <<>> /\ Head(writes) = writes[1]
        /\ writes[1].kind = "remove" /\ 1 \in DOMAIN writes
    BY <1>4, AuthPopped DEF SignedOutStored
  <2>2. DOMAIN writes' = {}
    BY <2>1, AuthPopped DEF QueueInOrder, CallBelongs
  <2>3. \A l \in removed' : Settled(l)'
    BY <2>1 DEF TokensOwned, Owned, TokensHeld, Settled
  <2> QED
    BY <2>1, <2>2, <2>3 DEF TokensOwned
<1>5. CASE SignOutNext
  <2>1. /\ UNCHANGED <<stored, current, removed, signIn>>
        /\ writes' = writes \/ writes' = Append(writes, Remove)
    BY <1>5 DEF SignOutNext, SignOut, SignOutRefused, CommitsDrained, RemoveStored, Uncached, Revoked
  <2>2. Remove \in CallsToStorage /\ Remove.kind # "refresh"
    BY AuthCalls DEF Remove
  <2>3. \A i \in DOMAIN writes' : writes'[i].kind = "refresh" =>
          \E j \in DOMAIN writes : writes'[i] = writes[j]
    BY <2>1, <2>2, RefreshesCalled
  <2>4. \A m \in Logins : Settled(m)' = Settled(m)
    BY <2>1 DEF Settled
  <2> QED
    BY <2>1, <2>3, <2>4, TokensStay
<1>6. CASE RefreshNext
  <2> PICK c \in Callers : StartRefresh(c) \/ DiscardRefresh(c) \/ PublishRefresh(c) \/ RefreshFails(c)
    BY <1>6 DEF RefreshNext
  <2>1. UNCHANGED <<stored, removed, signIn>>
    BY DEF StartRefresh, DiscardRefresh, PublishRefresh, RefreshFails
  <2>2. \A m \in Logins : Settled(m)' = Settled(m)
    BY <2>1 DEF Settled
  <2>3. CASE ~PublishRefresh(c)
    <3>1. UNCHANGED <<writes, current>>
      BY <2>3 DEF StartRefresh, DiscardRefresh, RefreshFails
    <3> QED
      BY <2>1, <2>2, <3>1, TokensStay
  <2>4. CASE PublishRefresh(c)
    <3>1. PICK s : s = [current EXCEPT !.token = refresh[c].token]
      OBVIOUS
    <3>2. PICK w : w = SetRefresh(c, s, Outstanding("signIn"))
      OBVIOUS
    <3>3. /\ current' = s /\ current # Nobody /\ writes' = Append(writes, w)
          /\ refresh[c].pc = "fetch" /\ authGeneration = refresh[c].gen
      BY <2>4, <3>1, <3>2 DEF PublishRefresh, SameSession
    <3>4. current.login = refresh[c].login /\ refresh[c].token = refresh[c].login
          /\ refresh[c].token \in Logins /\ current \in State
      BY <3>3 DEF RefreshesOfTheirSession, RefreshOfItsSession, AuthTypeOK
    <3>5. s.login = current.login /\ s.token = s.login /\ s \in State
      BY <3>1, <3>4 DEF State
    <3>6. Owned(current)
      BY <3>3 DEF TokensOwned
    <3>7. Owned(s)'
      BY <2>1, <3>5, <3>6 DEF Owned, Settled
    <3>8. w.state = s
      BY <3>2 DEF SetRefresh
    <3>9. w \in CallsToStorage
      BY <3>2, <3>5, AuthCalls DEF Outstanding
    <3>10. \A i \in DOMAIN writes' : writes'[i] = w \/ \E j \in DOMAIN writes : writes'[i] = writes[j]
      <4>1. writes \in Seq(CallsToStorage)
        BY DEF AuthTypeOK
      <4> QED
        BY <3>3, <3>9, <4>1, AuthPushed
    <3>11. \A i \in DOMAIN writes' : writes'[i].kind = "refresh" =>
             (\E j \in DOMAIN writes : writes'[i] = writes[j]) \/ Owned(writes[i].state)'
      <4>1. ASSUME NEW i \in DOMAIN writes', writes'[i] = w PROVE Owned(writes[i].state)'
        BY <3>7, <3>8, <4>1 DEF Owned
      <4> QED
        BY <3>10, <4>1
    <3> QED
      BY <2>1, <2>2, <3>3, <3>7, <3>11, TokensStay
  <2> QED
    BY <2>3, <2>4
<1>7. CASE Stop
  <2>1. /\ current' = Nobody /\ writes' = <<Access>> /\ DOMAIN writes' = {1} /\ writes'[1] = Access
        /\ Access.kind # "refresh"
        /\ \A l \in Logins : signIn[l] \in {"done", "failed", "writing"} => Settled(l)'
    BY <1>7 DEF Stop, Access, Settled
  <2>2. \A l \in removed : Settled(l)'
    BY <2>1 DEF TokensOwned, AuthTypeOK, Settled
  <2>3. ASSUME NEW i \in Changes, writes[i].kind # "remove", NEW s, s = writes[i].state
        PROVE  s \in State /\ s.token = s.login /\ Settled(s.login)' /\ s.login \notin removed
    <3>1. CallBelongs(i) /\ writes[i].kind \in {"signIn", "refresh"} /\ i \in DOMAIN writes
      BY <2>3 DEF Changes, QueueInOrder
    <3>2. CASE writes[i].kind = "refresh"
      <4>1. Owned(s) /\ s \in State
        BY <2>3, <3>1, <3>2 DEF TokensOwned, CallBelongs
      <4> QED
        BY <2>1, <4>1 DEF Owned, Settled, State
    <3>3. CASE writes[i].kind = "signIn"
      <4>1. PICK l \in Logins : s = [login |-> l, token |-> l] /\ signIn[l] = "writing"
        BY <2>3, <3>1, <3>3 DEF CallBelongs, SetSignIn
      <4>2. l \notin removed
        BY <4>1 DEF TokensOwned, Settled
      <4> QED
        BY <2>1, <4>1, <4>2 DEF State
    <3> QED
      BY <3>1, <3>2, <3>3
  <2>4. CASE UNCHANGED durableState
    <3>1. stored # Nobody => Owned(stored) /\ stored \in State
      BY DEF TokensOwned, AuthTypeOK
    <3>2. stored # Nobody => Owned(stored)'
      BY <2>1, <2>4, <3>1 DEF Owned, State, Settled
    <3>3. UNCHANGED <<stored, removed>>
      BY <2>4
    <3> QED
      BY <2>1, <2>2, <3>2, <3>3 DEF TokensOwned
  <2>5. ASSUME NEW i \in Changes, stored' = writes[i].state,
               removed' = IF \E j \in Changes : j <= i /\ writes[j].kind = "remove"
                        THEN removed \cup TokensHeld \cup
                               {writes[j].state.token : j \in {k \in Changes : k <= i
                                                      /\ writes[k].kind # "remove"}}
                        ELSE removed
        PROVE  TokensOwned'
    <3>1. CASE \E j \in Changes : j <= i /\ writes[j].kind = "remove"
      <4>1. writes[i].kind = "remove" /\ stored' = Nobody
        <5>1. PICK j \in Changes : j <= i /\ writes[j].kind = "remove"
          BY <3>1
        <5>2. j = Len(writes) /\ i \in 1..Len(writes)
          BY <5>1 DEF QueueInOrder, CallBelongs, Changes, AuthTypeOK
        <5>3. i = j
          BY <5>1, <5>2 DEF AuthTypeOK
        <5>4. writes[i] = Remove
          BY <5>1, <5>3 DEF QueueInOrder, CallBelongs, Changes
        <5> QED
          BY <2>5, <5>4 DEF Remove
      <4>2. \A l \in TokensHeld : Settled(l)' /\ l \in Logins
        BY <2>1 DEF TokensHeld, TokensOwned, Owned, AuthTypeOK, State, Settled
      <4>3. \A j \in Changes : writes[j].kind # "remove" =>
              \A t : t = writes[j].state.token => Settled(t)'
        <5> SUFFICES ASSUME NEW j \in Changes, writes[j].kind # "remove", NEW t,
                            t = writes[j].state.token
                     PROVE  Settled(t)'
          OBVIOUS
        <5>1. PICK s : s = writes[j].state
          OBVIOUS
        <5>2. s.token = s.login /\ Settled(s.login)'
          BY <2>3, <5>1
        <5> QED
          BY <5>1, <5>2 DEF Settled
      <4>4. \A l \in removed' : Settled(l)'
        BY <2>2, <2>5, <3>1, <4>2, <4>3
      <4> QED
        BY <2>1, <4>1, <4>4 DEF TokensOwned
    <3>2. CASE ~\E j \in Changes : j <= i /\ writes[j].kind = "remove"
      <4>1. writes[i].kind # "remove" /\ removed' = removed
        <5>1. i <= i
          BY DEF Changes, AuthTypeOK
        <5> QED
          BY <2>5, <3>2, <5>1
      <4>2. PICK s : s = writes[i].state
        OBVIOUS
      <4>3. Owned(s)'
        BY <2>3, <4>1, <4>2 DEF Owned
      <4> QED
        BY <2>1, <2>2, <2>5, <4>1, <4>2, <4>3 DEF TokensOwned
    <3> QED
      BY <3>1, <3>2
  <2> QED
    BY <1>7, <2>4, <2>5 DEF Stop
<1> QED
  BY <1>1, <1>2, <1>3, <1>4, <1>5, <1>6, <1>7 DEF AuthNext, StorageNext

-----------------------------------------------------------------------------
\* Storage and memory.
LEMMA StoredKept ==
  ASSUME AuthTypeOK, AuthTypeOK', StartUpInOrder, QueueInOrder, OneChain, RefreshesOfTheirSession,
         StoredIsLiveUnlessLate, AuthNext
  PROVE  StoredIsLiveUnlessLate'
<1> USE DEF durableState, loginState, googleState
<1>1. CASE SignInNext \/ SignOutNext
  <2>1. UNCHANGED <<stored, storedLate, current, restored>>
    BY <1>1 DEF SignInNext, AskGoogle, GoogleAnswers, Exchanged, SignInFails, ChainCommit,
         SignOutNext, SignOut, SignOutRefused, CommitsDrained, RemoveStored, Uncached, Revoked
  <2> QED
    BY <2>1 DEF StoredIsLiveUnlessLate, Durable
<1>2. CASE SignInStored \/ SignInNotStored
  BY <1>2 DEF SignInStored, SignInNotStored, StoredIsLiveUnlessLate, Durable
<1>3. CASE AccessGranted \/ AccessDenied \/ RestoreAuthState \/ RestoreFails \/ SignedOutStored
           \/ SignedOutNotStored \/ RefreshNotStored
  <2>1. \/ UNCHANGED <<stored, storedLate, current, restored>>
        \/ restored' # "ok"
        \/ stored' = current'
    BY <1>3 DEF AccessGranted, AccessDenied, RestoreAuthState, RestoreFails, SignedOutStored,
                SignedOutNotStored, RefreshNotStored
  <2> QED
    BY <2>1 DEF StoredIsLiveUnlessLate, Durable
<1>4. CASE RefreshStored
  <2>1. /\ stored' = writes[1].state /\ storedLate' = writes[1].late /\ UNCHANGED <<current, restored>>
        /\ RefreshIsFirst(1) /\ CallBelongs(1) /\ writes[1].kind = "refresh"
    BY <1>4, AuthPopped DEF RefreshStored, QueueInOrder
  <2>2. writes[1].state # Nobody
    BY <2>1, NobodyAssumption DEF CallBelongs, State
  <2> QED
    BY <2>1, <2>2 DEF RefreshIsFirst, StoredIsLiveUnlessLate, Durable
<1>5. CASE RefreshNext
  <2> PICK c \in Callers : StartRefresh(c) \/ DiscardRefresh(c) \/ PublishRefresh(c) \/ RefreshFails(c)
    BY <1>5 DEF RefreshNext
  <2>1. UNCHANGED <<stored, storedLate, restored>>
    BY DEF StartRefresh, DiscardRefresh, PublishRefresh, RefreshFails
  <2>2. CASE UNCHANGED current
    BY <2>1, <2>2 DEF StoredIsLiveUnlessLate, Durable
  <2>3. CASE PublishRefresh(c)
    <3>1. current' = [current EXCEPT !.token = refresh[c].token] /\ current # Nobody
          /\ refresh[c].pc = "fetch" /\ authGeneration = refresh[c].gen
      BY <2>3 DEF PublishRefresh, SameSession
    <3>2. current \in State /\ refresh[c].token \in Logins
      BY <3>1 DEF AuthTypeOK, RefreshesOfTheirSession, RefreshOfItsSession
    <3>3. current'.login = current.login /\ current' \in State
      BY <3>1, <3>2 DEF State
    <3>4. current' # Nobody
      BY <3>3, NobodyAssumption DEF State
    <3> QED
      BY <2>1, <3>1, <3>3, <3>4 DEF StoredIsLiveUnlessLate, Durable
  <2> QED
    BY <2>2, <2>3 DEF StartRefresh, DiscardRefresh, RefreshFails
<1>6. CASE Stop
  BY <1>6 DEF Stop, StoredIsLiveUnlessLate
<1> QED
  BY <1>1, <1>2, <1>3, <1>4, <1>5, <1>6 DEF AuthNext, StorageNext

-----------------------------------------------------------------------------
LEMMA AuthInvInit == AuthInit => AuthInv
<1> SUFFICES ASSUME AuthInit PROVE AuthInv
  OBVIOUS
<1>1. AuthTypeOK
  BY AuthInitTypes
<1>2. StartUpInOrder
  BY DEF AuthInit, StartUpInOrder, NoSignOut
<1>3. DOMAIN writes = {1} /\ writes[1] = Access
  BY DEF AuthInit
<1>4. QueueInOrder
  BY <1>3 DEF AuthInit, QueueInOrder, CallBelongs, RefreshIsFirst, Access
<1>5. OneChain
  <2>1. tail = Nobody /\ Committing = {} /\ [l \in Logins |-> 0] \in [Logins -> Nat]
    BY DEF AuthInit, Committing
  <2> QED
    BY <2>1 DEF OneChain
<1>6. TokensOwned
  BY <1>3 DEF AuthInit, TokensOwned, Access
<1>7. RefreshesOfTheirSession
  BY DEF AuthInit, RefreshesOfTheirSession, RefreshOfItsSession, NoRefresh
<1>8. GoogleTokens
  <2>1. Issued = {Nobody} /\ \A l \in Logins : askedAfter[l] = 0 /\ signIn[l] = "new"
    BY DEF AuthInit, Issued, NoSignOut
  <2> QED
    BY <2>1, NobodyAssumption, MintedAssumption DEF AuthInit, GoogleTokens, NoSignOut
<1>9. StoredIsLiveUnlessLate
  BY DEF AuthInit, StoredIsLiveUnlessLate
<1> QED
  BY <1>1, <1>2, <1>4, <1>5, <1>6, <1>7, <1>8, <1>9 DEF AuthInv

LEMMA AuthInvStep == AuthInv /\ [AuthNext]_authVars => AuthInv'
<1> SUFFICES ASSUME AuthInv, [AuthNext]_authVars PROVE AuthInv'
  OBVIOUS
<1> USE DEF AuthInv
<1>1. CASE AuthNext
  <2>1. AuthTypeOK'
    BY <1>1, AuthStorageTypes, AuthSignInTypes, AuthSignOutTypes, AuthStopTypes, AuthRefreshTypes
       DEF AuthNext
  <2> QED
    BY <1>1, <2>1, StartUpKept, QueueKept, ChainKept, TokensKept, RefreshesKept, GoogleKept, StoredKept
<1>2. CASE UNCHANGED authVars
  <2>0. AuthTypeOK'
    BY <1>2 DEF authVars, AuthTypeOK
  <2>a. StartUpInOrder'
    BY <1>2 DEF authVars, StartUpInOrder
  <2>b. OneChain'
    BY <1>2, <2>0, OneChainStays DEF authVars
  <2>2. QueueInOrder'
    BY <1>2 DEF authVars, QueueInOrder, CallBelongs, RefreshIsFirst
  <2>3. TokensOwned'
    BY <1>2 DEF authVars, TokensOwned, Owned, Settled
  <2>4. RefreshesOfTheirSession' /\ StoredIsLiveUnlessLate'
    BY <1>2 DEF authVars, RefreshesOfTheirSession, RefreshOfItsSession, StoredIsLiveUnlessLate, Durable
  <2>5. GoogleTokens'
    BY <1>2 DEF authVars, GoogleTokens, Issued, ToBeMinted, Unanswered
  <2> QED
    BY <2>0, <2>a, <2>b, <2>2, <2>3, <2>4, <2>5
<1> QED
  BY <1>1, <1>2

\* What the worker's account and its calls to storage have to do with one another, at every moment.
THEOREM AuthInvariant == AuthSpec => []AuthInv
BY AuthInvInit, AuthInvStep, PTL DEF AuthSpec

\* The account service keeps to the types of its state (FirebaseAuthService).
THEOREM AuthTypesHold == AuthSpec => []AuthTypeOK
<1>1. AuthInv => AuthTypeOK
  BY DEF AuthInv
<1> QED
  BY <1>1, AuthInvariant, PTL

\* Storage holds the account that is live, but for a refresh stored behind a newer sign-in, and
\* what a sign-out has removed comes back through no commit, refresh or restart (commitSignIn,
\* performSignOut, getIdToken, restoreAuthState).
THEOREM StorageFollows == AuthSpec => []StorageFollowsTheAccount
<1>1. AuthInv => StoredIsLiveUnlessLate
  BY DEF AuthInv
<1>2. AuthInv => RemovedStaysRemoved
  BY DEF AuthInv, TokensOwned, Owned, TokensHeld, RemovedStaysRemoved
<1>3. AuthInv => StorageFollowsTheAccount
  BY <1>1, <1>2 DEF StorageFollowsTheAccount
<1> QED
  BY <1>3, AuthInvariant, PTL

\* No session, stored or live, holds a token that was issued to another sign-in (getIdToken's
\* comparison of user and generation); a sign-in begun outside every sign-out exchanges no token
\* a sign-out has sent to be revoked; and a caller of getIdToken is answered with a token of the
\* sign-in it asked for, unless a newer one was being stored when its refresh was published.
THEOREM TokensFollow == AuthSpec => []TokensFollowTheSession
<1>1. AuthInv => TokensAreOfTheSession
  BY DEF AuthInv, TokensOwned, Owned, TokensAreOfTheSession
<1>2. AuthInv => RevokedTokenIsNotExchanged
  BY DEF AuthInv, GoogleTokens, RevokedTokenIsNotExchanged
<1>3. AuthInv => CallerGetsItsToken
  BY DEF AuthInv, RefreshesOfTheirSession, RefreshOfItsSession, CallerGetsItsToken
<1>4. AuthInv => TokensFollowTheSession
  BY <1>1, <1>2, <1>3 DEF TokensFollowTheSession
<1> QED
  BY <1>4, AuthInvariant, PTL

-----------------------------------------------------------------------------
\* The refinement: the account the other parts of the worker are told of.
Live == IF current = Nobody THEN Nobody ELSE current.login
Leaving == CASE signOut.pc = "wait" -> "asked"
             [] signOut.pc \in {"lookup", "remove"} -> "removing"
             [] signOut.pc \in {"uncache", "revoke"} -> "gone"
             [] OTHER -> "no"

LEMMA LeavingIs ==
  ASSUME AuthTypeOK
  PROVE  Leaving = IF signOut.pc = "none" THEN "no"
                   ELSE IF signOut.pc = "wait" THEN "asked"
                   ELSE IF signOut.pc \in {"lookup", "remove"} THEN "removing" ELSE "gone"
<1>1. signOut.pc \in {"none", "wait", "lookup", "remove", "uncache", "revoke"}
  BY DEF AuthTypeOK
<1> QED
  BY <1>1 DEF Leaving

LEMMA SessionInitMapped == AuthInit => Session!SessionInit
BY DEF AuthInit, NoSignOut, Session!SessionInit

LEMMA SessionStepMapped ==
  ASSUME AuthInv, AuthInv', AuthNext
  PROVE  \/ UNCHANGED <<Live, authGeneration, Leaving>>
         \/ Live' = Nobody /\ authGeneration' = 0 /\ Leaving' = "no"
         \/ \E who \in Logins \cup {Nobody} :
              /\ Live = Nobody /\ Live' = who /\ authGeneration' = authGeneration + 1
              /\ UNCHANGED Leaving
         \/ \E l \in Logins : /\ Leaving \in {"no", "asked"} /\ Live' = l
                              /\ authGeneration' = authGeneration + 1 /\ UNCHANGED Leaving
         \/ /\ Leaving = "no" /\ Leaving' = "asked" /\ authGeneration' = authGeneration + 1
            /\ UNCHANGED Live
         \/ Leaving = "asked" /\ Leaving' = "removing" /\ UNCHANGED <<Live, authGeneration>>
         \/ /\ Leaving = "removing" /\ Leaving' \in {"gone", "no"}
            /\ Live' = Nobody /\ authGeneration' = authGeneration + 1
         \/ Leaving \in {"asked", "removing"} /\ Leaving' = "no" /\ UNCHANGED <<Live, authGeneration>>
         \/ Leaving = "gone" /\ Leaving' = "no" /\ UNCHANGED <<Live, authGeneration>>
<1> USE DEF durableState, loginState, googleState
<1>0. /\ AuthTypeOK /\ AuthTypeOK' /\ StartUpInOrder /\ QueueInOrder /\ OneChain
      /\ RefreshesOfTheirSession
  BY DEF AuthInv
<1>1. /\ Leaving = IF signOut.pc = "none" THEN "no"
                   ELSE IF signOut.pc = "wait" THEN "asked"
                   ELSE IF signOut.pc \in {"lookup", "remove"} THEN "removing" ELSE "gone"
      /\ Leaving' = IF signOut'.pc = "none" THEN "no"
                   ELSE IF signOut'.pc = "wait" THEN "asked"
                   ELSE IF signOut'.pc \in {"lookup", "remove"} THEN "removing" ELSE "gone"
  <2>1. signOut'.pc \in {"none", "wait", "lookup", "remove", "uncache", "revoke"}
    BY <1>0 DEF AuthTypeOK
  <2> QED
    BY <1>0, <2>1, LeavingIs DEF Leaving
<1>2. CASE SignInNext \/ SignInNotStored \/ AccessGranted \/ AccessDenied \/ RestoreFails
           \/ RefreshStored \/ RefreshNotStored
  <2>1. UNCHANGED <<current, authGeneration, signOut>>
    BY <1>2 DEF SignInNext, AskGoogle, GoogleAnswers, Exchanged, SignInFails, ChainCommit,
         SignInNotStored, Completed, AccessGranted, AccessDenied, RestoreFails, RefreshStored,
         RefreshNotStored
  <2> QED
    BY <2>1 DEF Live, Leaving
<1>3. CASE SignInStored
  <2>1. PICK l \in Logins : l = Head(writes).by /\ Head(writes) = SetSignIn(l) /\ tail # Nobody
    BY <1>0, <1>3, CommitAnswered, AuthPopped
  <2>2. current' = [login |-> l, token |-> l] /\ authGeneration' = authGeneration + 1
        /\ signOut' = signOut
    BY <1>3, <2>1 DEF SignInStored, Completed, SetSignIn
  <2>3. signOut.pc \in {"none", "wait"}
    BY <1>0, <2>1 DEF StartUpInOrder, AuthTypeOK
  <2>4. Live' = l
    <3>1. current' # Nobody
      BY <2>2, NobodyAssumption
    <3> QED
      BY <2>2, <3>1 DEF Live
  <2>5. Leaving' = Leaving
    BY <2>2 DEF Leaving
  <2> QED
    BY <1>1, <2>2, <2>3, <2>4, <2>5
<1>4. CASE RestoreAuthState
  <2>1. /\ current = Nobody /\ current' = stored /\ authGeneration' = authGeneration + 1
        /\ signOut' = signOut
    BY <1>0, <1>4, AuthPopped DEF RestoreAuthState, StartUpInOrder, QueueInOrder, CallBelongs
  <2>2. Live = Nobody /\ Live' \in Logins \cup {Nobody} /\ Leaving' = Leaving
    BY <1>0, <2>1 DEF Live, Leaving, AuthTypeOK, State
  <2> QED
    BY <2>1, <2>2
<1>5. CASE SignedOutStored \/ SignedOutNotStored
  <2>1. signOut.pc = "remove"
    BY <1>0, <1>5, AuthPopped DEF SignedOutStored, SignedOutNotStored, QueueInOrder, CallBelongs
  <2>2. CASE SignedOutStored
    <3>1. /\ current' = Nobody /\ authGeneration' = authGeneration + 1
          /\ signOut'.pc \in {"none", "uncache"}
      BY <1>0, <2>2 DEF SignedOutStored, NoSignOut, AuthTypeOK
    <3> QED
      BY <1>1, <2>1, <3>1 DEF Live
  <2>3. CASE SignedOutNotStored
    <3>1. UNCHANGED <<current, authGeneration>> /\ signOut'.pc = "none"
      BY <2>3 DEF SignedOutNotStored, NoSignOut
    <3> QED
      BY <1>1, <2>1, <3>1 DEF Live
  <2> QED
    BY <1>5, <2>2, <2>3
<1>6. CASE SignOutNext
  <2>1. /\ UNCHANGED current
        /\ \/ /\ signOut.pc = "none" /\ signOut'.pc = "wait" /\ authGeneration' = authGeneration + 1
           \/ /\ UNCHANGED authGeneration
              /\ <<signOut.pc, signOut'.pc>> \in
                   {<<"wait", "none">>, <<"wait", "lookup">>, <<"lookup", "remove">>,
                    <<"uncache", "revoke">>, <<"revoke", "none">>}
    <3>1. CASE SignOut
      BY <3>1 DEF SignOut, NoSignOut
    <3>2. CASE SignOutRefused
      BY <3>2 DEF SignOutRefused, NoSignOut
    <3>3. CASE CommitsDrained
      BY <1>0, <3>3 DEF CommitsDrained, AuthTypeOK
    <3>4. CASE RemoveStored
      BY <3>4 DEF RemoveStored
    <3>5. CASE Uncached
      BY <1>0, <3>5 DEF Uncached, AuthTypeOK
    <3>6. CASE Revoked
      BY <3>6 DEF Revoked, NoSignOut
    <3> QED
      BY <1>6, <3>1, <3>2, <3>3, <3>4, <3>5, <3>6 DEF SignOutNext
  <2>2. Live' = Live
    BY <2>1 DEF Live
  <2> QED
    BY <1>1, <2>1, <2>2
<1>7. CASE RefreshNext
  <2> PICK c \in Callers : StartRefresh(c) \/ DiscardRefresh(c) \/ PublishRefresh(c) \/ RefreshFails(c)
    BY <1>7 DEF RefreshNext
  <2>1. UNCHANGED <<authGeneration, signOut>>
    BY DEF StartRefresh, DiscardRefresh, PublishRefresh, RefreshFails
  <2>2. Live' = Live
    <3>1. CASE UNCHANGED current
      BY <3>1 DEF Live
    <3>2. CASE PublishRefresh(c)
      <4>1. current' = [current EXCEPT !.token = refresh[c].token] /\ current # Nobody
            /\ refresh[c].pc = "fetch" /\ authGeneration = refresh[c].gen
        BY <3>2 DEF PublishRefresh, SameSession
      <4>2. current \in State /\ refresh[c].token \in Logins
        BY <1>0, <4>1 DEF AuthTypeOK, RefreshesOfTheirSession, RefreshOfItsSession
      <4>3. current'.login = current.login /\ current' \in State
        BY <4>1, <4>2 DEF State
      <4>4. current' # Nobody
        BY <4>3, NobodyAssumption DEF State
      <4> QED
        BY <4>1, <4>3, <4>4 DEF Live
    <3> QED
      BY <3>1, <3>2 DEF StartRefresh, DiscardRefresh, RefreshFails
  <2> QED
    BY <2>1, <2>2 DEF Leaving
<1>8. CASE Stop
  <2>1. current' = Nobody /\ authGeneration' = 0 /\ signOut'.pc = "none"
    BY <1>8 DEF Stop, NoSignOut
  <2> QED
    BY <1>1, <2>1 DEF Live
<1> QED
  BY <1>2, <1>3, <1>4, <1>5, <1>6, <1>7, <1>8 DEF AuthNext, StorageNext

\* The account service keeps the session it promises the other parts of the worker: every one of
\* its steps is one of the session's or changes nothing of it.
THEOREM AuthServiceKeepsTheSession == AuthSpec => KeepsTheSession
<1>1. AuthInit => Session!SessionInit
  BY SessionInitMapped
<1>2. AuthInv /\ AuthInv' /\ [AuthNext]_authVars => [Session!SessionNext]_(Session!sessionVars)
  <2> SUFFICES ASSUME AuthInv, AuthInv', [AuthNext]_authVars
               PROVE  [Session!SessionNext]_(Session!sessionVars)
    OBVIOUS
  <2>1. CASE AuthNext
    BY <2>1, SessionStepMapped
       DEF Live, Leaving, Session!SessionNext, Session!sessionVars, Session!NewWorker,
           Session!Restored, Session!SignedIn, Session!SignOutAsked, Session!SignOutRemoves,
           Session!SignedOut, Session!SignOutFails, Session!SignOutSettled
  <2>2. CASE UNCHANGED authVars
    BY <2>2 DEF authVars, Session!sessionVars
  <2> QED
    BY <2>1, <2>2
<1> QED
  BY <1>1, <1>2, AuthInvariant, PTL DEF AuthSpec, KeepsTheSession, Session!SessionSpec
=============================================================================
