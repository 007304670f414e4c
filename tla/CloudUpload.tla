---------------------------- MODULE CloudUpload ----------------------------
(***************************************************************************)
(* The upload of the Raw Event Lake to the Firestore collection of the      *)
(* signed-in account.  The greatest timestamp found in the cloud is the      *)
(* watermark of the next pass; a durable floor per account rewinds the scan  *)
(* to rows the watermark would hide: rows that do not parse yet, rows an     *)
(* import has put behind it, and, once, all history older than the floor.    *)
(*                                                                         *)
(* One action is one transaction on meta or apiEvents, or one Firestore      *)
(* request, of syncToCloud.  Between any two the account may change, the      *)
(* worker may stop, the request may fail, and live rows arrive.              *)
(***************************************************************************)
EXTENDS Naturals, FiniteSets

CONSTANTS
  Rows,        \* raw rows, numbered in the order of their primary key
  At,          \* timestamp of each row
  App,         \* rows whose ApiTypeId is one of ApiTypeValues
  ParsesFrom,  \* the release whose schema first parses the row
  Accounts,
  Clouds,      \* bound: what an earlier version may have left in a collection
  None,        \* null, and nobody signed in
  Chunk,       \* SYNC_CHUNK_SIZE
  Batch,       \* FIRESTORE_BATCH_SIZE
  LastRelease, \* bound: releases
  MaxSwitches, \* bound: sign-ins and sign-outs
  MaxFailures  \* bound: passes that throw, and restarts of the worker

ASSUME RowsAssumption ==
  /\ Rows \subseteq Nat /\ IsFiniteSet(Rows) /\ App \subseteq Rows
  /\ At \in [Rows -> Nat \ {0}] /\ ParsesFrom \in [Rows -> Nat]
  /\ \A r, s \in Rows : r < s => At[r] <= At[s]
ASSUME CloudsAssumption ==
  Clouds \subseteq SUBSET {r \in App : ParsesFrom[r] = 0} /\ {} \in Clouds
ASSUME BoundsAssumption ==
  /\ Chunk \in Nat \ {0} /\ Batch \in Nat \ {0}
  /\ LastRelease \in Nat /\ MaxSwitches \in Nat /\ MaxFailures \in Nat
ASSUME NoneAssumption == None \notin Nat /\ None \notin Accounts

VARIABLES
  lake,        \* rows of apiEvents
  clock,       \* timestamp of the latest live row
  release,     \* the schema this extension parses with
  cloud,       \* documents of each account's collection
  floor,       \* syncUnparseableFloor:<uid>
  done,        \* syncUnparseableFloorBackfillDoneV2:<uid>
  account,     \* the signed-in account
  generation,  \* getAuthGeneration()
  pass,        \* the local variables of syncToCloud
  failures,
  late,        \* history: rows stored behind the last row a running pass has read
  mixed        \* history: accounts of a pass that wrote after the sign-in changed

durable == <<floor, done>>
world == <<lake, clock, release, late>>
remote == <<cloud, mixed>>
auth == <<account, generation>>
vars == <<lake, clock, release, cloud, floor, done, account, generation, pass, failures,
          late, mixed>>

Times == {At[r] : r \in Rows}
Parses(r) == ParsesFrom[r] <= release
\* isApplicationApiEvent and isUnparseableApplicationEvent
Valid(rs) == {r \in rs \cap App : Parses(r)}
Unparseable(rs) == {r \in rs \cap App : ~Parses(r)}

Least(ts) == CHOOSE t \in ts : \A u \in ts : t <= u
\* Math.min over values of which null says nothing
Earlier(t, u) == IF t = None THEN u ELSE IF u = None \/ t <= u THEN t ELSE u
Earliest(rs) == IF rs = {} THEN None ELSE Least({At[r] : r \in rs})

NoPass == [pc |-> "none", uid |-> None, gen |-> 0, max |-> None, scan |-> None,
           total |-> 0, processed |-> 0, last |-> None, chunk |-> {}, target |-> None,
           rest |-> {}, earliest |-> None, persisted |-> None]

Init ==
  /\ clock \in Times
  /\ lake \in SUBSET {r \in Rows : At[r] <= clock}
  /\ cloud \in [Accounts -> {c \in Clouds : \A r \in c : At[r] <= clock}]
  /\ release = 0
  /\ floor = [a \in Accounts |-> None]
  /\ done = [a \in Accounts |-> FALSE]
  /\ account \in Accounts
  /\ generation = 0
  /\ pass = NoPass
  /\ failures = 0
  /\ late = {} /\ mixed = {}

-----------------------------------------------------------------------------
\* A live event is stored; the page stamps events in the order they happen.  It is late
\* when the page its key belongs to has been read.
Missed(r) == \/ pass.last # None /\ r < pass.last
             \/ \E s \in pass.chunk : r < s
LiveRow(r) ==
  /\ r \in Rows \ lake
  /\ At[r] >= clock
  /\ lake' = lake \cup {r} /\ clock' = At[r]
  /\ late' = late \cup (IF Missed(r) THEN {r} ELSE {})
  /\ UNCHANGED <<release, remote, durable, auth, pass, failures>>

\* mergeApiEvents with protectAddedApplicationEventsFromCloudWatermark: the floor of
\* every reconciled account goes down with the rows that are added.
LoweredFloorUnprotected(rs) == floor  \* mutant
LoweredFloor(rs) ==
  [a \in Accounts |-> IF done[a] THEN Earlier(floor[a], Earliest(rs \cap App)) ELSE floor[a]]

\* The import owns the operation slot, so no pass is running.
ImportRows(rs) ==
  /\ pass.pc = "none"
  /\ rs # {} /\ \A r \in rs : At[r] <= clock
  /\ lake' = lake \cup rs
  /\ floor' = LoweredFloor(rs)
  /\ UNCHANGED <<clock, release, late, remote, done, auth, pass, failures>>

SwitchAccount(a) ==
  /\ generation < MaxSwitches
  /\ account' = a /\ generation' = generation + 1
  /\ UNCHANGED <<world, remote, durable, pass, failures>>

\* The worker stops; at the end of an update it comes back with another schema.
Restart ==
  /\ failures < MaxFailures
  /\ failures' = failures + 1
  /\ pass' = NoPass
  /\ UNCHANGED <<world, remote, durable, auth>>
UpdateExtension ==
  /\ pass.pc = "none"
  /\ release < LastRelease
  /\ release' = release + 1
  /\ UNCHANGED <<lake, clock, late, remote, durable, auth, pass, failures>>

-----------------------------------------------------------------------------
\* snapshotIdentity, after the latch and the operation slot are claimed
StartPass ==
  /\ pass.pc = "none"
  /\ pass' = [NoPass EXCEPT !.pc = "watermark", !.uid = account, !.gen = generation]
  /\ UNCHANGED <<world, remote, durable, auth, failures>>

\* Every request asks for the user anew: the account that answers is the live one.
IsWatermark(m, docs) ==
  \/ docs = {} /\ m = None
  \/ \E d \in docs : m = At[d] /\ \A e \in docs : At[e] <= m
ReadWatermark ==
  /\ pass.pc = "watermark"
  /\ account # None
  /\ \E m \in Times \cup {None} :
       /\ IsWatermark(m, cloud[account])
       /\ pass' = [pass EXCEPT !.pc = "backfill", !.max = m]
  /\ UNCHANGED <<world, remote, durable, auth, failures>>

\* assertGenerationUnchanged, immediately before the write it guards
SameUser == pass.uid = account  \* mutant
SameGeneration == pass.gen = generation

\* backfillUnparseableFloorIfNeeded: the one-time rewind to the earliest application
\* row at or below the watermark
BackfillRowsUnparseable == {r \in Unparseable(lake) : At[r] <= pass.max}  \* mutant
BackfillRows == {r \in lake \cap App : At[r] <= pass.max}
Backfill ==
  /\ pass.pc = "backfill"
  /\ pass.uid # None
  /\ LET rewind == IF pass.max = None THEN None ELSE Earliest(BackfillRows)
         lower == Earlier(floor[pass.uid], rewind)
     IN IF done[pass.uid] \/ lower = floor[pass.uid]
        THEN floor' = floor
        ELSE SameGeneration /\ floor' = [floor EXCEPT ![pass.uid] = lower]
  /\ pass' = [pass EXCEPT !.pc = IF done[pass.uid] THEN "floor" ELSE "mark"]
  /\ UNCHANGED <<world, remote, done, auth, failures>>

MarkBackfillDone ==
  /\ pass.pc = "mark"
  /\ SameGeneration
  /\ done' = [done EXCEPT ![pass.uid] = TRUE]
  /\ pass' = [pass EXCEPT !.pc = "floor"]
  /\ UNCHANGED <<world, remote, floor, auth, failures>>

\* The scan starts at the watermark, or just below the floor, ties included.
ScanFloor(max, f) == IF f # None /\ max # None /\ f - 1 < max THEN f - 1 ELSE max
Reoffered(scan, rs) == {r \in rs : scan = None \/ At[r] >= scan}
ReofferedStrictly(scan, rs) == {r \in rs : scan = None \/ At[r] > scan}  \* mutant
Scanned(scan, rs) == Reoffered(scan, rs)
ReadFloor ==
  /\ pass.pc = "floor"
  /\ LET f == floor[pass.uid]
         scan == ScanFloor(pass.max, f)
         total == Cardinality(Scanned(scan, lake))
     IN pass' = [pass EXCEPT !.pc = IF total > 0 THEN "read" ELSE IF f # None THEN "commit" ELSE "end",
                             !.scan = scan, !.total = total, !.persisted = f]
  /\ UNCHANGED <<world, remote, durable, auth, failures>>

FirstRows(rs, n) == {r \in rs : Cardinality({s \in rs : s < r}) < n}
RowsAbove(p) == {r \in Scanned(p.scan, lake) : p.last = None \/ r > p.last}

\* The next page of raw rows; what does not parse is protected before anything of the
\* page is sent.
ReadChunk ==
  /\ pass.pc = "read"
  /\ LET chunk == FirstRows(RowsAbove(pass), Chunk)
         earliest == Earlier(pass.earliest, Earliest(Unparseable(chunk)))
         lower == Unparseable(chunk) # {} /\ Earlier(pass.persisted, earliest) # pass.persisted
     IN pass' = IF chunk = {} THEN [pass EXCEPT !.pc = "commit"]
                ELSE [pass EXCEPT !.pc = IF lower THEN "protect" ELSE "send",
                                  !.chunk = chunk, !.earliest = earliest]
  /\ UNCHANGED <<world, remote, durable, auth, failures>>

ProtectLater == /\ floor' = floor  \* mutant
                /\ pass' = [pass EXCEPT !.pc = "send"]
Protect ==
  /\ SameGeneration
  /\ floor' = [floor EXCEPT ![pass.uid] = pass.earliest]
  /\ pass' = [pass EXCEPT !.pc = "send", !.persisted = pass.earliest]
ProtectUnparseable ==
  /\ pass.pc = "protect"
  /\ Protect
  /\ UNCHANGED <<world, remote, done, auth, failures>>

\* syncToCloudBatch: the user is asked once more, and once for all its batches.
AfterChunk(p) ==
  [p EXCEPT !.pc = IF p.processed + Cardinality(p.chunk) < p.total THEN "read" ELSE "commit",
            !.processed = p.processed + Cardinality(p.chunk),
            !.last = CHOOSE r \in p.chunk : \A s \in p.chunk : s <= r,
            !.chunk = {}, !.target = None, !.rest = {}]
SendChunk ==
  /\ pass.pc = "send"
  /\ LET rows == Valid(pass.chunk)
     IN IF rows = {} THEN pass' = AfterChunk(pass)
        ELSE /\ account # None
             /\ pass' = [pass EXCEPT !.pc = "batch", !.target = account,
                                     !.rest = Reoffered(pass.scan, rows)]
  /\ UNCHANGED <<world, remote, durable, auth, failures>>

\* Batches are acknowledged one after the other, in key order.
NextBatchAnyOrder(rs) == {CHOOSE r \in rs : \A s \in rs : s <= r}  \* mutant
NextBatch(rs) == FirstRows(rs, Batch)
Store(batch) ==
  /\ cloud' = [cloud EXCEPT ![pass.target] = @ \cup batch]
  /\ mixed' = mixed \cup (IF generation = pass.gen THEN {} ELSE {pass.uid, pass.target})
WriteBatch ==
  /\ pass.pc = "batch"
  /\ account = pass.target
  /\ LET batch == NextBatch(pass.rest)
         rest == pass.rest \ batch
     IN /\ Store(batch)
        /\ pass' = IF rest = {} THEN AfterChunk(pass) ELSE [pass EXCEPT !.rest = rest]
  /\ UNCHANGED <<world, durable, auth, failures>>

\* The answer to an applied commit is lost, and so is that of every retry.
LoseAnswer ==
  /\ pass.pc = "batch"
  /\ account = pass.target
  /\ failures < MaxFailures
  /\ failures' = failures + 1
  /\ Store(NextBatch(pass.rest))
  /\ pass' = NoPass
  /\ UNCHANGED <<world, durable, auth>>

\* Every page is acknowledged: the floor may go up, or away.
CommitFloor ==
  /\ pass.pc = "commit"
  /\ SameGeneration
  /\ floor' = [floor EXCEPT ![pass.uid] = pass.earliest]
  /\ pass' = [pass EXCEPT !.pc = "end"]
  /\ UNCHANGED <<world, remote, done, auth, failures>>

EndPass ==
  /\ pass.pc = "end"
  /\ pass' = NoPass
  /\ UNCHANGED <<world, remote, durable, auth, failures>>

\* A commit point finds another generation, or a request another user or none.
Refused ==
  \/ pass.pc \in {"mark", "protect", "commit"} /\ ~SameGeneration
  \/ pass.pc = "backfill" /\ ~SameGeneration /\ (pass.uid # None => ~done[pass.uid])
  \/ pass.pc \in {"watermark", "send"} /\ account = None
  \/ pass.pc = "batch" /\ account # pass.target
AbortPass ==
  /\ Refused
  /\ pass' = NoPass
  /\ UNCHANGED <<world, remote, durable, auth, failures>>

\* A request or a transaction fails for good.
FailPass ==
  /\ pass.pc # "none"
  /\ failures < MaxFailures
  /\ failures' = failures + 1
  /\ pass' = NoPass
  /\ UNCHANGED <<world, remote, durable, auth>>

PassNext ==
  \/ StartPass
  \/ ReadWatermark
  \/ Backfill
  \/ MarkBackfillDone
  \/ ReadFloor
  \/ ReadChunk
  \/ ProtectUnparseable
  \/ SendChunk
  \/ WriteBatch
  \/ LoseAnswer
  \/ CommitFloor
  \/ EndPass
  \/ AbortPass
  \/ FailPass
Next ==
  \/ PassNext
  \/ \E r \in Rows : LiveRow(r)
  \/ \E rs \in SUBSET (Rows \ lake) : ImportRows(rs)
  \/ \E a \in Accounts \cup {None} : SwitchAccount(a)
  \/ Restart
  \/ UpdateExtension

Spec == Init /\ [][Next]_vars

\* Session boundaries ask for a sync again and again, and a pass that runs goes on.
Fairness ==
  /\ WF_vars(StartPass) /\ WF_vars(ReadWatermark) /\ WF_vars(Backfill)
  /\ WF_vars(MarkBackfillDone) /\ WF_vars(ReadFloor) /\ WF_vars(ReadChunk)
  /\ WF_vars(ProtectUnparseable) /\ WF_vars(SendChunk) /\ WF_vars(WriteBatch)
  /\ WF_vars(CommitFloor) /\ WF_vars(EndPass) /\ WF_vars(AbortPass)
FairSpec == Spec /\ Fairness

-----------------------------------------------------------------------------
Steps == {"none", "watermark", "backfill", "mark", "floor", "read", "protect", "send",
          "batch", "commit", "end"}
TimeOrNone == Nat \cup {None}

\* Every variable stays in its type.
TypeOK ==
  /\ lake \subseteq Rows /\ clock \in Times /\ release \in 0..LastRelease
  /\ cloud \in [Accounts -> SUBSET App]
  /\ floor \in [Accounts -> TimeOrNone] /\ done \in [Accounts -> BOOLEAN]
  /\ account \in Accounts \cup {None} /\ generation \in 0..MaxSwitches
  /\ failures \in 0..MaxFailures /\ late \subseteq Rows
  /\ mixed \subseteq Accounts
  /\ pass \in [pc : Steps, uid : Accounts \cup {None}, gen : 0..MaxSwitches,
               max : TimeOrNone, scan : TimeOrNone, total : Nat, processed : Nat,
               last : Rows \cup {None}, chunk : SUBSET Rows, target : Accounts \cup {None},
               rest : SUBSET App, earliest : TimeOrNone, persisted : TimeOrNone]

\* Application rows no later pass of the account will look at: below the watermark, not
\* protected by the floor, the one-time rewind spent, and not in the cloud.
Stranded(a) ==
  {r \in lake \cap App :
     /\ r \notin cloud[a]
     /\ done[a]
     /\ \E d \in cloud[a] : At[d] > At[r]
     /\ floor[a] = None \/ At[r] < floor[a]}

\* No account has a row that is in the lake, not in its cloud and hidden from its later
\* passes, however the sign-ins change: the one exception is a row that was stored
\* behind the cursor, in the cursor's own millisecond.
NothingStranded == \A a \in Accounts : Stranded(a) \subseteq late

\* The passes of an account never strand a row of it: not when a pass stops between two
\* batches, not when a row does not parse, not when an import adds history, not when
\* the extension is updated or the user signs out and in again.
OwnPassStrandsNothing == \A a \in Accounts \ mixed : Stranded(a) \subseteq late

\* A floor or a backfill marker is only ever written when that hides no row of the
\* account (but a late one), whoever was signed in while the pass ran.
BookkeepingStrandsNothing ==
  [][\A a \in Accounts :
       floor'[a] # floor[a] \/ done'[a] # done[a] => Stranded(a)' \subseteq Stranded(a) \cup late']_vars

\* Every row that parses reaches the cloud of the account that stays signed in, unless one
\* of its passes, or a pass into its collection, wrote under another sign-in.
EventuallyBackedUp ==
  \A a \in Accounts : <>[](account = a) =>
    \A r \in App : r \in Valid(lake) ~> r \in cloud[a] \cup late \/ a \in mixed
=============================================================================
