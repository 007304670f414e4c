---------------------------- MODULE AccountSync ----------------------------
(***************************************************************************)
(* AutoSyncService as the account changes under it: the time of the last sync  *)
(* that storage.local keeps for each account, the one that is shown, and the     *)
(* calls of initialize() and performSync() that write them.                    *)
(*                                                                         *)
(* One action is one stretch of JavaScript between two awaits.  A call to       *)
(* storage.local takes effect in the step that makes it: the area carries its   *)
(* calls out in order, everything that reads it waits its turn, and a worker     *)
(* stopped before a call was carried out might as well have been stopped          *)
(* before it was made.                                                       *)
(***************************************************************************)
EXTENDS AccountSession

CONSTANTS
  UserOf,      \* the account of each sign-in
  Calls,       \* bound: calls of initialize() that may be under way, numbered from 1
  MaxAttempts, \* MAX_INITIALIZE_ATTEMPTS
  MaxEpoch,    \* bound: changes of the account in the life of a worker
  MaxEvents    \* bound: syncs asked for by a user or at the end of a game's session, calls,
               \* passes and sign-outs that fail, other operations and stops, together

Users == {UserOf[l] : l \in Logins}

ASSUME CallsAssumption == Calls \subseteq Nat \ {0} /\ MaxAttempts \in Nat
ASSUME UsersAssumption ==
  /\ Nobody \notin Logins
  /\ Users \cap {Nobody, "unset", "legacy", "mixed"} = {}

VARIABLES
  restored,  \* restorePromise
  boot,      \* whether initializeAutoSyncOnReady has its turn to come
  seen,      \* previousSignedIn of the transition handler
  replies,   \* whether the message of a sign-out that is over has its rest to run
  scoped,    \* autoSyncLastTime:<uid>
  legacy,    \* autoSyncLastTime, which an earlier version wrote
  shown,     \* syncState.lastSyncTime
  inits,     \* the calls of initialize()
  sync,      \* the pass of performSync() that holds _isSyncing
  busy,      \* whether an import, export or rebuild holds the operation slot
  syncs, faults, blocks, stops,
  heirs      \* history: the accounts the unattributed time was given to

storedTimes == <<scoped, legacy, heirs>>
listeners == <<seen, replies, boot>>
troubles == <<faults, blocks, stops>>
accountVars == <<sessionVars, restored, listeners, storedTimes, shown, inits, sync, busy, syncs,
                 troubles>>

\* A time is told apart by whose sync it is of: of no sync, one an earlier version did for
\* nobody in particular, one during which the account changed, or that of an account.
SyncTimes == Users \cup {"unset", "legacy", "mixed"}

UserNow == IF live = Nobody THEN Nobody ELSE UserOf[live]
NoInit ==
  [pc |-> "free", attempt |-> 0, user |-> Nobody, gen |-> 0, time |-> "unset", legacy |-> "unset"]
\* by is the call of initialize() that awaits the pass, or 0.
NoSync == [pc |-> "none", by |-> 0, user |-> Nobody, gen |-> 0, time |-> "unset",
           strayed |-> FALSE]

AccountInit ==
  /\ SessionInit /\ restored = "pending"
  /\ seen = "none" /\ replies = FALSE /\ boot = TRUE
  /\ scoped = [u \in Users |-> "unset"] /\ legacy \in {"unset", "legacy"} /\ heirs = {}
  /\ shown = "unset" /\ inits = [i \in Calls |-> NoInit] /\ sync = NoSync /\ busy = FALSE
  /\ syncs = 0 /\ faults = 0 /\ blocks = 0 /\ stops = 0

MayHappen == syncs + faults + blocks + stops < MaxEvents
Fault == MayHappen /\ faults' = faults + 1 /\ UNCHANGED <<blocks, stops>>
Block == MayHappen /\ blocks' = blocks + 1 /\ UNCHANGED <<faults, stops>>
-----------------------------------------------------------------------------
\* Every change of the account is told to the listeners before anything else runs: the time
\* shown goes, and the handler of sign-ins begins initialize() for a sign-in nobody else will.
StartsInit(i) == inits[i].pc = "free" /\ inits' = [inits EXCEPT ![i].pc = "ready"]
Transition(signedIn, source) ==
  /\ seen' = IF signedIn THEN "in" ELSE "out"
  /\ IF signedIn /\ seen = "out" /\ source # "sign-in"
     THEN \E i \in Calls : StartsInit(i)
     ELSE UNCHANGED inits
ForgetTime == shown' = "unset"
\* The account was another's for a while as the pass went on.
Strays(who) ==
  sync' = [sync EXCEPT !.strayed = @ \/ (sync.pc # "none" /\ sync.user # who)]

Restore(who) ==
  /\ restored = "pending" /\ epoch < MaxEpoch
  /\ Restored(who) /\ restored' = "ok"
  /\ ForgetTime /\ Transition(who # Nobody, "restore")
  /\ UNCHANGED <<replies, boot, storedTimes, sync, busy, syncs, troubles>>
RestoreRejected ==
  /\ restored = "pending" /\ Fault
  /\ restored' = "failed" /\ ForgetTime /\ Transition(FALSE, "restore")
  /\ UNCHANGED <<sessionVars, replies, boot, storedTimes, sync, busy, syncs>>

\* signInWithGoogle publishes, and handleFirebaseSignIn calls onAuthStateChanged.
SignIn(l) ==
  /\ restored # "pending" /\ epoch < MaxEpoch
  /\ SignedIn(l) /\ restored' = "ok"
  /\ ForgetTime /\ Strays(UserOf[l])
  /\ seen' = "in" /\ \E i \in Calls : StartsInit(i)
  /\ UNCHANGED <<replies, boot, storedTimes, busy, syncs, troubles>>

\* A sign-out takes a generation when it is asked for, and another when the account is gone.
AskSignOut ==
  /\ epoch + 1 < MaxEpoch
  /\ SignOutAsked
  /\ UNCHANGED <<restored, listeners, storedTimes, shown, inits, sync, busy, syncs, troubles>>
SignOutGoesOn ==
  /\ SignOutRemoves \/ SignOutSettled
  /\ UNCHANGED <<restored, listeners, storedTimes, shown, inits, sync, busy, syncs, troubles>>
SignOutEnds ==
  /\ SignedOut
  /\ ForgetTime /\ Strays(Nobody) /\ Transition(FALSE, "sign-out") /\ replies' = TRUE
  /\ UNCHANGED <<restored, boot, storedTimes, busy, syncs, troubles>>
SignOutRefused ==
  /\ SignOutFails /\ Fault
  /\ UNCHANGED <<restored, listeners, storedTimes, shown, inits, sync, busy, syncs>>

AnswerSignOutBlindly ==  \* mutant
  /\ replies /\ replies' = FALSE /\ ForgetTime
  /\ UNCHANGED <<sessionVars, restored, seen, boot, storedTimes, inits, sync, busy, syncs,
                 troubles>>
\* handleFirebaseSignOut resets the state only if nobody has signed in since.
AnswerSignOut ==
  /\ replies /\ replies' = FALSE
  /\ IF live = Nobody THEN ForgetTime ELSE UNCHANGED shown
  /\ UNCHANGED <<sessionVars, restored, seen, boot, storedTimes, inits, sync, busy, syncs,
                 troubles>>

\* The database is open, and so is the account: what the start of the worker does last.
BootSync ==
  /\ boot /\ restored # "pending" /\ boot' = FALSE
  /\ IF restored = "ok" /\ live # Nobody THEN \E i \in Calls : StartsInit(i) ELSE UNCHANGED inits
  /\ UNCHANGED <<sessionVars, restored, seen, replies, storedTimes, shown, sync, busy, syncs,
                 troubles>>
\* An interrupted rebuild could not be recovered before.
BootGivesUp ==
  /\ boot /\ Fault /\ boot' = FALSE
  /\ UNCHANGED <<sessionVars, restored, seen, replies, storedTimes, shown, inits, sync, busy,
                 syncs>>
-----------------------------------------------------------------------------
\* performSync: the latch and the slot are looked at and taken before anything is awaited.
PassMayStart == sync.pc = "none" /\ ~busy
Started(by) == sync' = [NoSync EXCEPT !.pc = "ready", !.by = by]
Ended(i) == CASE inits[i].pc = "pass" -> [inits[i] EXCEPT !.pc = "ready", !.attempt = @ + 1]
              [] sync.by = i -> [inits[i] EXCEPT !.pc = "tried"]
              [] OTHER -> inits[i]
\* The latch and the slot are let go, whatever came of the pass, and those who wait go on.
SyncEnds == sync' = NoSync /\ inits' = [i \in Calls |-> Ended(i)]

AskSync ==
  /\ MayHappen /\ PassMayStart
  /\ Started(0) /\ syncs' = syncs + 1
  /\ UNCHANGED <<sessionVars, restored, listeners, storedTimes, shown, inits, busy, troubles>>

SyncSnapshot ==
  /\ sync.pc = "ready" /\ restored # "pending"
  /\ IF restored = "failed" THEN SyncEnds
     ELSE /\ sync' = [sync EXCEPT !.pc = "work", !.user = UserNow, !.gen = epoch,
                                  !.strayed = FALSE]
          /\ UNCHANGED inits
  /\ UNCHANGED <<sessionVars, restored, listeners, storedTimes, shown, busy, syncs, troubles>>

\* The version is refused, a recovery fails, or a call to Firestore does.
SyncFails ==
  /\ sync.pc = "work" /\ Block /\ SyncEnds
  /\ UNCHANGED <<sessionVars, restored, listeners, storedTimes, shown, busy, syncs>>

SameUserNow == sync.user = UserNow  \* mutant
SameAccount == sync.gen = epoch

\* The calls to Firestore are over; nobody's are refused.  What the older version left is
\* removed before the new time is written.
SyncDone ==
  /\ sync.pc = "work"
  /\ IF live = Nobody \/ ~SameAccount
     THEN SyncEnds /\ UNCHANGED legacy
     ELSE /\ sync' = [sync EXCEPT !.pc = "write",
                        !.time = IF sync.strayed THEN "mixed" ELSE sync.user]
          /\ legacy' = "unset" /\ UNCHANGED inits
  /\ UNCHANGED <<sessionVars, restored, listeners, scoped, heirs, shown, busy, syncs, troubles>>
SyncStored ==
  /\ sync.pc = "write"
  /\ scoped' = [scoped EXCEPT ![sync.user] = sync.time]
  /\ sync' = [sync EXCEPT !.pc = "stamps"]
  /\ UNCHANGED <<sessionVars, restored, listeners, legacy, heirs, shown, inits, busy, syncs,
                 troubles>>
SyncNotStored ==
  /\ sync.pc \in {"work", "write"} /\ Fault /\ SyncEnds
  /\ UNCHANGED <<sessionVars, restored, listeners, storedTimes, shown, busy, syncs>>

PublishUnchecked ==  \* mutant
  /\ sync.pc = "stamps" /\ SyncEnds
  /\ shown' = sync.time
  /\ UNCHANGED <<sessionVars, restored, listeners, storedTimes, busy, syncs, troubles>>
\* updateTimestamps has asked the cloud: the account is compared once more.
PublishSync ==
  /\ sync.pc = "stamps" /\ SyncEnds
  /\ shown' = IF SameAccount THEN sync.time ELSE shown
  /\ UNCHANGED <<sessionVars, restored, listeners, storedTimes, busy, syncs, troubles>>

OtherBegins ==
  /\ PassMayStart /\ Block /\ busy' = TRUE
  /\ UNCHANGED <<sessionVars, restored, listeners, storedTimes, shown, inits, sync, syncs>>
OtherEnds ==
  /\ busy /\ busy' = FALSE
  /\ inits' = [i \in Calls |-> IF inits[i].pc = "slot"
                               THEN [inits[i] EXCEPT !.pc = "ready", !.attempt = @ + 1]
                               ELSE inits[i]]
  /\ UNCHANGED <<sessionVars, restored, listeners, storedTimes, shown, sync, syncs, troubles>>
-----------------------------------------------------------------------------
\* initialize()
To(i, pc) == inits' = [inits EXCEPT ![i].pc = pc]
Finish(i) == inits' = [inits EXCEPT ![i] = NoInit]
Again(i) == inits' = [inits EXCEPT ![i].pc = "ready", ![i].attempt = @ + 1]
Current(i) == inits[i].gen = epoch

\* Whoever is signed in is noted, the time shown is forgotten, and both keys are read.
ReadTimes(i) ==
  /\ inits[i].pc = "ready" /\ restored # "pending"
  /\ IF restored = "failed" \/ live = Nobody
     THEN Finish(i) /\ UNCHANGED shown
     ELSE /\ ForgetTime
          /\ inits' = [inits EXCEPT ![i] =
               [@ EXCEPT !.pc = "read", !.user = UserNow, !.gen = epoch,
                         !.time = scoped[UserNow], !.legacy = legacy]]
  /\ UNCHANGED <<sessionVars, restored, listeners, storedTimes, sync, busy, syncs, troubles>>

NothingToMigrate(i) ==
  /\ inits[i].pc = "read" /\ inits[i].legacy = "unset"
  /\ To(i, "stamps")
  /\ UNCHANGED <<sessionVars, restored, listeners, storedTimes, shown, sync, busy, syncs,
                 troubles>>
\* The unattributed time is consumed first, and given to the account afterwards.
WriteThenRemove(i) ==  \* mutant
  /\ inits[i].pc = "read" /\ inits[i].legacy # "unset" /\ Current(i)
  /\ IF inits[i].time # "unset" THEN To(i, "stamps") /\ UNCHANGED <<scoped, heirs>>
     ELSE /\ scoped' = [scoped EXCEPT ![inits[i].user] = inits[i].legacy]
          /\ heirs' = heirs \cup {inits[i].user} /\ To(i, "removed")
  /\ UNCHANGED <<sessionVars, restored, listeners, legacy, shown, sync, busy, syncs, troubles>>
RemoveLegacy(i) ==
  /\ inits[i].pc = "read" /\ inits[i].legacy # "unset"
  /\ IF Current(i) THEN legacy' = "unset" /\ To(i, "removed")
     ELSE Finish(i) /\ UNCHANGED legacy
  /\ UNCHANGED <<sessionVars, restored, listeners, scoped, heirs, shown, sync, busy, syncs,
                 troubles>>
MigrateLegacy(i) ==
  /\ inits[i].pc = "removed"
  /\ CASE inits[i].time # "unset" -> To(i, "stamps") /\ UNCHANGED <<scoped, heirs>>
       [] inits[i].time = "unset" /\ ~Current(i) -> Finish(i) /\ UNCHANGED <<scoped, heirs>>
       [] OTHER -> /\ inits' = [inits EXCEPT ![i].pc = "stamps", ![i].time = inits[i].legacy]
                   /\ scoped' = [scoped EXCEPT ![inits[i].user] = inits[i].legacy]
                   /\ heirs' = heirs \cup {inits[i].user}
  /\ UNCHANGED <<sessionVars, restored, listeners, legacy, shown, sync, busy, syncs, troubles>>
InitFails(i) ==
  /\ inits[i].pc \in {"read", "removed"} /\ Fault /\ Finish(i)
  /\ UNCHANGED <<sessionVars, restored, listeners, storedTimes, shown, sync, busy, syncs>>

\* A result worked out for another account is thrown away and worked out anew.
Discard(i) ==
  /\ inits[i].pc = "stamps" /\ ~Current(i)
  /\ IF inits[i].attempt + 1 >= MaxAttempts THEN Finish(i) ELSE Again(i)
  /\ UNCHANGED <<sessionVars, restored, listeners, storedTimes, shown, sync, busy, syncs,
                 troubles>>
\* The time is shown; without one, this account's first sync is tried.
Publish(i) ==
  /\ inits[i].pc = "stamps" /\ Current(i)
  /\ shown' = inits[i].time
  /\ CASE inits[i].time # "unset" -> Finish(i) /\ UNCHANGED sync
       [] inits[i].time = "unset" /\ PassMayStart -> Started(i) /\ To(i, "syncing")
       [] OTHER -> To(i, "tried") /\ UNCHANGED sync
  /\ UNCHANGED <<sessionVars, restored, listeners, storedTimes, busy, syncs, troubles>>

RetryAtOnce(i) ==  \* mutant
  /\ inits[i].pc = "tried"
  /\ IF shown = "unset" /\ Current(i) /\ inits[i].attempt + 1 < MaxAttempts
     THEN Again(i) ELSE Finish(i)
  /\ UNCHANGED <<sessionVars, restored, listeners, storedTimes, shown, sync, busy, syncs,
                 troubles>>
\* It did not come about: whatever holds the latch or the slot is waited for.
Retry(i) ==
  /\ inits[i].pc = "tried"
  /\ IF shown = "unset" /\ Current(i) /\ inits[i].attempt + 1 < MaxAttempts
     THEN IF sync.pc # "none" THEN To(i, "pass") ELSE IF busy THEN To(i, "slot") ELSE Again(i)
     ELSE Finish(i)
  /\ UNCHANGED <<sessionVars, restored, listeners, storedTimes, shown, sync, busy, syncs,
                 troubles>>
-----------------------------------------------------------------------------
\* The worker is stopped and starts again: storage is all that is left.
StopWorker ==
  /\ MayHappen /\ stops' = stops + 1
  /\ NewWorker /\ restored' = "pending" /\ seen' = "none" /\ replies' = FALSE /\ boot' = TRUE
  /\ shown' = "unset" /\ inits' = [i \in Calls |-> NoInit] /\ sync' = NoSync /\ busy' = FALSE
  /\ UNCHANGED <<storedTimes, syncs, faults, blocks>>

SessionSteps ==
  \/ \E who \in Logins \cup {Nobody} : Restore(who)
  \/ RestoreRejected \/ AskSignOut \/ SignOutGoesOn \/ SignOutEnds \/ SignOutRefused
  \/ AnswerSignOut \/ BootSync \/ BootGivesUp
  \/ \E l \in Logins : SignIn(l)
SyncSteps ==
  \/ AskSync \/ SyncSnapshot \/ SyncFails \/ SyncDone \/ SyncStored \/ SyncNotStored \/ PublishSync
  \/ OtherBegins \/ OtherEnds
InitSteps ==
  \E i \in Calls : \/ ReadTimes(i) \/ NothingToMigrate(i) \/ RemoveLegacy(i) \/ MigrateLegacy(i)
                   \/ InitFails(i) \/ Discard(i) \/ Publish(i) \/ Retry(i)
AccountNext == SessionSteps \/ SyncSteps \/ InitSteps \/ StopWorker
-----------------------------------------------------------------------------
InitRecord ==
  [pc : {"free", "ready", "read", "removed", "stamps", "syncing", "tried", "pass", "slot"},
   attempt : Nat, user : Users \cup {Nobody}, gen : Nat, time : SyncTimes,
   legacy : {"unset", "legacy"}]
SyncRecord ==
  [pc : {"none", "ready", "work", "write", "stamps"}, by : Nat, user : Users \cup {Nobody},
   gen : Nat, time : SyncTimes, strayed : BOOLEAN]
AccountTypeOK ==
  /\ live \in Logins \cup {Nobody} /\ epoch \in Nat
  /\ leaving \in {"no", "asked", "removing", "gone"} /\ restored \in {"pending", "ok", "failed"}
  /\ seen \in {"none", "out", "in"} /\ replies \in BOOLEAN /\ boot \in BOOLEAN
  /\ scoped \in [Users -> SyncTimes] /\ legacy \in {"unset", "legacy"} /\ heirs \subseteq Users
  /\ shown \in SyncTimes /\ busy \in BOOLEAN
  /\ inits \in [Calls -> InitRecord] /\ sync \in SyncRecord
  /\ syncs \in Nat /\ faults \in Nat /\ blocks \in Nat /\ stops \in Nat

\* The time that is shown, which the next session of the game counts its backlog from, is of a
\* sync of the account that is signed in, or the unattributed one if that account was given
\* it: never that of an account signed in before (the listener, initialize, performSync).
ShownIsOfTheLiveAccount ==
  shown # "unset" =>
    /\ live # Nobody
    /\ \/ shown = UserOf[live]
       \/ shown = "legacy" /\ UserOf[live] \in heirs

\* The time stored for an account is of a sync during which it was signed in from its first
\* call to its last, also if it comes back in between (invariant 2 of the account scoping).
StoredTimesAreEarned ==
  \A u \in Users : scoped[u] \in {"unset", u} \/ (scoped[u] = "legacy" /\ u \in heirs)

\* The unattributed time of an earlier version is given to one account at most, and is gone
\* by then, wherever the worker is stopped in between (invariant 1).
LegacyHasOneHeir ==
  /\ \A u, v \in heirs : u = v
  /\ legacy # "unset" => heirs = {}

\* A stored time tells what its own account has had: one earned by a sync, or the inheritance of
\* one account.
StoredTimesAreTrue == StoredTimesAreEarned /\ LegacyHasOneHeir

\* The time shown goes with its account, or in a step of initialize(); the end of an older
\* sign-out's message does not take it (handleFirebaseSignOut).
TimeIsNotTaken ==
  [][shown # "unset" /\ shown' = "unset"
       => epoch' # epoch \/ restored' # restored \/ inits' # inits]_accountVars

\* An account that has its own time keeps it: the unattributed one does not replace it (the
\* comment of initialize()).
OwnTimeIsNotReplaced ==
  [][\A u \in Users : scoped[u] = u => scoped'[u] = u]_accountVars

\* Whoever signs in, or is found signed in, gets a first sync or has had one, unless a call to
\* storage, a recovery or a sign-out fails: neither the sync of another account in flight nor
\* another operation keeps it from it.
FirstSyncComes ==
  live # Nobody ~> (live = Nobody \/ scoped[UserOf[live]] # "unset" \/ faults # 0)

AccountFairness ==
  /\ \A i \in Calls : WF_accountVars(\/ ReadTimes(i) \/ NothingToMigrate(i) \/ RemoveLegacy(i)
                                     \/ MigrateLegacy(i) \/ Discard(i) \/ Publish(i) \/ Retry(i))
  /\ WF_accountVars(SyncSnapshot \/ SyncDone \/ SyncStored \/ PublishSync)
  /\ WF_accountVars(OtherEnds)
  /\ WF_accountVars(\E who \in Logins \cup {Nobody} : Restore(who))
  /\ WF_accountVars(BootSync)
  /\ WF_accountVars(SignOutGoesOn) /\ WF_accountVars(SignOutEnds)
AccountSyncSpec == AccountInit /\ [][AccountNext]_accountVars
AccountFairSpec == AccountSyncSpec /\ AccountFairness
=============================================================================
