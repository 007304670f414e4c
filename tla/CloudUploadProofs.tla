------------------------- MODULE CloudUploadProofs -------------------------
(***************************************************************************)
(* Theorems about CloudUpload for every set of raw rows, whatever their     *)
(* times and the releases that parse them, every set of accounts and every  *)
(* size of pages and batches; and, at the end, about AccountSync for every  *)
(* set of accounts, of logins to them and of concurrent initializations.    *)
(***************************************************************************)
EXTENDS CloudUpload, AccountSync, FiniteSetTheorems, TLAPS

-----------------------------------------------------------------------------
\* The inductive invariant.

\* Nothing stored here or in a collection is younger than the clock.
NothingAhead ==
  /\ \A r \in lake : At[r] <= clock
  /\ \A a \in Accounts : \A d \in cloud[a] : At[d] <= clock

\* What a pass has in hand fits the step it is at.
Scanning == pass.pc \in {"read", "protect", "send", "batch", "commit"}
Sending == pass.pc \in {"protect", "send", "batch"}
PassFitsStep ==
  /\ pass.pc \in {"none", "watermark", "backfill", "mark", "floor"} =>
       pass.last = None /\ pass.earliest = None /\ pass.processed = 0
  /\ pass.pc = "protect" => pass.earliest # None
  /\ pass.gen <= generation
  /\ pass.pc \in {"mark", "floor"} \/ Scanning => pass.uid \in Accounts
  /\ pass.pc = "floor" \/ Scanning => done[pass.uid]
  /\ pass.last # None => pass.last \in lake
  /\ IF Sending THEN pass.chunk # {} /\ pass.chunk \subseteq RowsAbove(pass) ELSE pass.chunk = {}
  /\ pass.pc = "batch" => pass.target \in Accounts /\ pass.rest \subseteq Valid(pass.chunk)
FloorsAreTimes ==
  /\ \A a \in Accounts : floor[a] # 0
  /\ pass.earliest # 0

\* No sign-in since the pass began.
Same == pass.pc # "none" /\ SameGeneration
SameIsSignedIn ==
  Same => /\ pass.uid = account
          /\ pass.pc = "batch" => pass.target = account

\* The watermark and what this pass has read are all there is in the collection.
ReadSoFar(d) == (pass.last # None /\ d <= pass.last) \/ \E s \in pass.chunk : d <= s
WatermarkHolds ==
  /\ pass.max # None => pass.max <= clock
  /\ Same /\ pass.pc # "watermark" =>
       /\ account # None
       /\ pass.max # None => \E d \in cloud[account] : At[d] = pass.max
       /\ \A d \in cloud[account] : (pass.max # None /\ At[d] <= pass.max) \/ ReadSoFar(d)

\* What the rewind of the floor is for.
RewindHolds ==
  pass.pc = "mark" /\ Same /\ pass.max # None =>
    \A r \in lake \cap App : At[r] < pass.max => floor[account] # None /\ floor[account] <= At[r]

\* The scan leaves out no row that only the floor protects.
ScanBelowFloor ==
  Scanning =>
    /\ pass.persisted = floor[pass.uid]
    /\ pass.scan # None => /\ pass.max # None /\ pass.scan <= pass.max
                           /\ floor[pass.uid] # None => pass.scan <= floor[pass.uid]
    /\ pass.earliest # None => pass.scan = None \/ pass.scan <= pass.earliest

\* Every row that was read is in the collection or protected, a late one excepted.
Kept(r) == r \in cloud[account] \/ (pass.earliest # None /\ pass.earliest <= At[r])
Protected ==
  Scanning /\ pass.earliest # None =>
    IF pass.pc = "protect" THEN pass.persisted = None \/ pass.earliest <= pass.persisted
    ELSE pass.persisted # None /\ pass.persisted <= pass.earliest
ReadIsKept ==
  Same /\ Scanning =>
    \A r \in Scanned(pass.scan, lake) \ late :
      /\ r \in App /\ pass.last # None /\ r <= pass.last => Kept(r)
      /\ pass.last = None \/ r > pass.last => \A s \in pass.chunk : r <= s => r \in pass.chunk
      /\ r \in Unparseable(pass.chunk) => pass.earliest # None /\ pass.earliest <= At[r]
      /\ pass.pc = "batch" /\ r \in Valid(pass.chunk) \ pass.rest => r \in cloud[account]

\* The rows behind the watermark are counted before the first page, and rows that arrive
\* later are not behind it.
Behind == {r \in RowsAbove(pass) : pass.max # None /\ At[r] < pass.max}
CountReachesBehind ==
  /\ pass.pc = "read" \/ Sending =>
       Behind = {} \/ pass.processed + Cardinality(Behind) <= pass.total
  /\ pass.pc = "commit" => Behind = {}

TypeInv == TypeOK /\ FloorsAreTimes /\ PassFitsStep
PassInv ==
  /\ SameIsSignedIn /\ WatermarkHolds /\ RewindHolds /\ ScanBelowFloor
  /\ Protected /\ ReadIsKept /\ CountReachesBehind
IInv == TypeInv /\ NothingAhead /\ PassInv

-----------------------------------------------------------------------------
(* The operators.                                                          *)

LEMMA LeastIsLeast ==
  ASSUME NEW T \in SUBSET Nat, T # {}
  PROVE  Least(T) \in T /\ \A u \in T : Least(T) <= u
<1>1. PICK t \in T : \A u \in T : ~(<<u, t>> \in OpToRel(<, Nat))
  BY NatLessThanWellFounded, WFMin
<1>2. \A u \in T : ~(u < t)
  BY <1>1, Zenon DEF OpToRel
<1>3. \A u \in T : t <= u
  BY <1>2
<1> QED BY <1>3 DEF Least

\* By way of a least set without a greatest element.
LEMMA GreatestExists ==
  ASSUME NEW S \in SUBSET Nat, IsFiniteSet(S), S # {}
  PROVE  \E m \in S : \A s \in S : s <= m
<1> DEFINE Max(U) == \E m \in U : \A s \in U : s <= m
           Without == {U \in FiniteSubsetsOf(Nat) : U # {} /\ ~Max(U)}
<1> SUFFICES ASSUME Without # {} PROVE FALSE
  BY DEF FiniteSubsetsOf
<1>1. PICK U \in Without : \A V \in Without : ~(<<V, U>> \in StrictSubsetOrdering(Nat))
  <2>1. IsWellFoundedOn(StrictSubsetOrdering(Nat), FiniteSubsetsOf(Nat))
    BY FS_StrictSubsetOrderingWellFounded
  <2>2. Without \subseteq FiniteSubsetsOf(Nat)
    OBVIOUS
  <2> HIDE DEF Without
  <2> QED BY <2>1, <2>2, WFMin, Zenon
<1>2. PICK x \in U : TRUE
  BY <1>1
<1> DEFINE V == U \ {x}
<1>3. V \in FiniteSubsetsOf(Nat)
  BY <1>1, FS_RemoveElement DEF FiniteSubsetsOf
<1>4. V \notin Without
  BY <1>1, <1>2, <1>3 DEF StrictSubsetOrdering, FiniteSubsetsOf
<1>5. V = {} \/ Max(V)
  BY <1>3, <1>4
<1>6. Max(U)
  BY <1>2, <1>5, U \in SUBSET Nat DEF FiniteSubsetsOf
<1> QED BY <1>1, <1>6

LEMMA EarlierProperties ==
  ASSUME NEW t \in TimeOrNone, NEW u \in TimeOrNone
  PROVE  /\ Earlier(t, u) \in {t, u}
         /\ Earlier(t, u) = None <=> t = None /\ u = None
         /\ t # None => Earlier(t, u) <= t
         /\ u # None => Earlier(t, u) <= u
BY NoneAssumption DEF Earlier, TimeOrNone

LEMMA EarliestProperties ==
  ASSUME NEW R \in SUBSET Rows
  PROVE  /\ Earliest(R) \in TimeOrNone \ {0}
         /\ Earliest(R) = None <=> R = {}
         /\ \A r \in R : Earliest(R) <= At[r]
         /\ R # {} => \E r \in R : Earliest(R) = At[r]
<1> DEFINE T == {At[r] : r \in R}
<1>1. T \subseteq Nat \ {0}
  BY RowsAssumption
<1>2. ASSUME R # {} PROVE Least(T) \in T /\ \A u \in T : Least(T) <= u
  BY <1>1, <1>2, LeastIsLeast, T \in SUBSET Nat, T # {}
<1> QED BY <1>1, <1>2, NoneAssumption DEF Earliest, TimeOrNone

LEMMA FirstRowsProperties ==
  ASSUME NEW R \in SUBSET Rows, NEW n \in Nat \ {0}
  PROVE  /\ FirstRows(R, n) \subseteq R
         /\ \A s \in FirstRows(R, n) : \A r \in R : r <= s => r \in FirstRows(R, n)
         /\ R # {} => FirstRows(R, n) # {}
<1>0. R \subseteq Nat
  BY RowsAssumption
<1>1. FirstRows(R, n) \subseteq R
  BY DEF FirstRows
<1>2. ASSUME NEW x \in FirstRows(R, n), NEW y \in R, y <= x
      PROVE  y \in FirstRows(R, n)
  <2> DEFINE low == {s \in R : s < y}
             high == {s \in R : s < x}
  <2>0. x \in R /\ Cardinality(high) < n
    BY DEF FirstRows
  <2>1. low \subseteq high /\ high \subseteq Rows
    <3>1. ASSUME NEW s \in R, s < y PROVE s < x
      BY <1>0, <1>2, <2>0, <3>1, s \in Nat, x \in Nat, y \in Nat
    <3> QED BY <3>1
  <2>2. IsFiniteSet(high)
    BY <2>1, FS_Subset, RowsAssumption
  <2>3. Cardinality(low) \in Nat /\ Cardinality(high) \in Nat /\ Cardinality(low) <= Cardinality(high)
    BY <2>1, <2>2, FS_Subset, FS_CardinalityType
  <2>4. Cardinality(low) < n
    BY <2>0, <2>3
  <2> QED BY <2>4 DEF FirstRows
<1>3. ASSUME R # {} PROVE FirstRows(R, n) # {}
  <2>1. PICK y \in R : \A x \in R : y <= x
    BY <1>3, LeastIsLeast, <1>0
  <2>2. {s \in R : s < y} = {}
    <3>1. ASSUME NEW s \in R PROVE ~(s < y)
      BY <1>0, <2>1, s \in Nat, y \in Nat, y <= s
    <3> QED BY <3>1
  <2>3. Cardinality({s \in R : s < y}) < n
    BY <2>2, FS_EmptySet
  <2> QED BY <2>1, <2>3 DEF FirstRows
<1> QED BY <1>1, <1>2, <1>3

LEMMA RowSets ==
  ASSUME TypeOK, NEW rs \in SUBSET Rows
  PROVE  /\ Valid(rs) \subseteq rs \cap App
         /\ Unparseable(rs) \subseteq rs \cap App
         /\ rs \cap App = Valid(rs) \cup Unparseable(rs)
         /\ \A scan : Scanned(scan, rs) \subseteq rs
         /\ IsFiniteSet(rs) /\ Cardinality(rs) \in Nat
<1>1. IsFiniteSet(rs) /\ Cardinality(rs) \in Nat
  BY RowsAssumption, FS_Subset, FS_CardinalityType
<1> QED BY <1>1 DEF Valid, Unparseable, Scanned, Reoffered

LEMMA TimesArePositive == Times \subseteq Nat \ {0}
BY RowsAssumption DEF Times

LEMMA AfterChunkProperties ==
  ASSUME TypeOK, pass.chunk # {}
  PROVE  /\ AfterChunk(pass).last \in pass.chunk
         /\ \A s \in pass.chunk : s <= AfterChunk(pass).last
         /\ AfterChunk(pass) =
              [pass EXCEPT !.pc = AfterChunk(pass).pc,
                           !.processed = pass.processed + Cardinality(pass.chunk),
                           !.last = AfterChunk(pass).last,
                           !.chunk = {}, !.target = None, !.rest = {}]
         /\ AfterChunk(pass).pc =
              IF pass.processed + Cardinality(pass.chunk) < pass.total THEN "read" ELSE "commit"
<1>1. pass.chunk \in SUBSET Nat /\ IsFiniteSet(pass.chunk)
  BY RowSets, RowsAssumption DEF TypeOK
<1>2. PICK m \in pass.chunk : \A s \in pass.chunk : s <= m
  BY <1>1, GreatestExists
<1> DEFINE last == CHOOSE r \in pass.chunk : \A s \in pass.chunk : s <= r
<1>3. last \in pass.chunk /\ \A s \in pass.chunk : s <= last
  BY <1>2
<1>4. AfterChunk(pass).last = last
  BY DEF AfterChunk, TypeOK
<1> QED BY <1>3, <1>4 DEF AfterChunk, TypeOK

-----------------------------------------------------------------------------
(* Types.  The fields of a pass are used where its step has set them.       *)
LEMMA NoPassFits ==
  ASSUME TypeInv, pass' = NoPass, UNCHANGED <<lake, generation, release>>
  PROVE  /\ PassFitsStep' /\ pass'.earliest # 0
         /\ pass' \in [pc : Steps, uid : Accounts \cup {None}, gen : 0..MaxSwitches,
               max : TimeOrNone, scan : TimeOrNone, total : Nat, processed : Nat,
               last : Rows \cup {None}, chunk : SUBSET Rows, target : Accounts \cup {None},
               rest : SUBSET App, earliest : TimeOrNone, persisted : TimeOrNone]
BY NoneAssumption, BoundsAssumption
DEF TypeInv, TypeOK, PassFitsStep, NoPass, Steps, TimeOrNone, Scanning, Sending

LEMMA TypesAtStart == Init => TypeInv
<1> SUFFICES ASSUME Init PROVE TypeInv
  OBVIOUS
<1>1. cloud \in [Accounts -> SUBSET App]
  BY CloudsAssumption DEF Init
<1>2. TypeOK
  BY <1>1, NoneAssumption, BoundsAssumption DEF Init, TypeOK, NoPass, Steps, TimeOrNone
<1>3. FloorsAreTimes /\ PassFitsStep
  BY NoneAssumption, BoundsAssumption
  DEF Init, FloorsAreTimes, PassFitsStep, NoPass, Scanning, Sending
<1> QED BY <1>2, <1>3 DEF TypeInv

LEMMA AfterChunkFits ==
  ASSUME TypeInv, pass' = AfterChunk(pass), pass.chunk # {}, pass.chunk \subseteq lake,
         pass.uid \in Accounts, done[pass.uid],
         UNCHANGED <<lake, clock, release, floor, done, account, generation, failures, late>>,
         cloud' \in [Accounts -> SUBSET App], mixed' \subseteq Accounts
  PROVE  TypeInv'
<1> USE DEF TypeInv
<1>1. pass.chunk \in SUBSET Rows
  BY DEF TypeOK
<1>2. Cardinality(pass.chunk) \in Nat
  BY <1>1, RowSets
<1> DEFINE pc == AfterChunk(pass).pc
           last == AfterChunk(pass).last
           processed == pass.processed + Cardinality(pass.chunk)
<1>3. pc \in {"read", "commit"} /\ last \in pass.chunk /\ processed \in Nat
  BY <1>2, AfterChunkProperties DEF TypeOK
<1>4. pass' = [pass EXCEPT !.pc = pc, !.processed = processed, !.last = last,
                           !.chunk = {}, !.target = None, !.rest = {}]
  BY AfterChunkProperties
<1> HIDE DEF pc, last, processed
<1>5. TypeOK'
  BY <1>1, <1>3, <1>4 DEF TypeOK, Steps
<1>6. FloorsAreTimes' /\ PassFitsStep'
  BY <1>1, <1>3, <1>4, NoneAssumption, RowsAssumption
  DEF TypeOK, FloorsAreTimes, PassFitsStep, Scanning, Sending
<1> QED BY <1>5, <1>6

LEMMA StoreTypes ==
  ASSUME TypeInv, pass.pc = "batch", Store(NextBatch(pass.rest))
  PROVE  cloud' \in [Accounts -> SUBSET App] /\ mixed' \subseteq Accounts
<1>1. pass.rest \in SUBSET Rows /\ pass.rest \subseteq App
  BY RowsAssumption DEF TypeInv, TypeOK
<1>2. NextBatch(pass.rest) \subseteq App
  BY <1>1, FirstRowsProperties, BoundsAssumption DEF NextBatch
<1>3. pass.target \in Accounts /\ pass.uid \in Accounts
  BY DEF TypeInv, PassFitsStep, Scanning
<1> QED BY <1>2, <1>3 DEF Store, TypeInv, TypeOK

\* The passes write only fields of the pass, the floors, the markers and the collections.
LEMMA TypesOfPassSteps ==
  ASSUME TypeInv, PassNext
  PROVE  TypeInv'
<1> USE DEF TypeInv
<1>0. pass \in [pc : Steps, uid : Accounts \cup {None}, gen : 0..MaxSwitches,
                max : TimeOrNone, scan : TimeOrNone, total : Nat, processed : Nat,
                last : Rows \cup {None}, chunk : SUBSET Rows, target : Accounts \cup {None},
                rest : SUBSET App, earliest : TimeOrNone, persisted : TimeOrNone]
  BY DEF TypeOK
<1>1. CASE StartPass
  <2>1. pass' = [NoPass EXCEPT !.pc = "watermark", !.uid = account, !.gen = generation]
    BY <1>1 DEF StartPass
  <2>2. TypeOK'
    <3>1. pass' = [pc |-> "watermark", uid |-> account, gen |-> generation, max |-> None,
                   scan |-> None, total |-> 0, processed |-> 0, last |-> None, chunk |-> {},
                   target |-> None, rest |-> {}, earliest |-> None, persisted |-> None]
      BY <2>1 DEF NoPass
    <3>2. UNCHANGED <<lake, clock, release, cloud, floor, done, account, generation, failures,
                      late, mixed>>
      BY <1>1 DEF StartPass, world, remote, durable, auth
    <3> QED BY <3>1, <3>2 DEF TypeOK, Steps, TimeOrNone
  <2>3. FloorsAreTimes' /\ PassFitsStep'
    BY <1>1, <2>1, NoneAssumption, BoundsAssumption
    DEF StartPass, TypeOK, FloorsAreTimes, PassFitsStep, NoPass, Scanning, Sending, world, durable, auth
  <2> QED BY <2>2, <2>3
<1>2. CASE ReadWatermark
  BY <1>2, TimesArePositive, NoneAssumption
  DEF ReadWatermark, TypeOK, FloorsAreTimes, PassFitsStep, Steps, TimeOrNone, Scanning,
      Sending, world, remote, durable, auth
<1>3. CASE Backfill
  <2> DEFINE rewind == IF pass.max = None THEN None ELSE Earliest(BackfillRows)
             lower == Earlier(floor[pass.uid], rewind)
  <2>1. BackfillRows \in SUBSET Rows
    BY DEF BackfillRows, TypeOK
  <2>2. rewind \in TimeOrNone \ {0}
    BY <2>1, EarliestProperties, NoneAssumption DEF TimeOrNone
  <2>3. pass.uid \in Accounts /\ floor[pass.uid] \in TimeOrNone \ {0}
    BY <1>0, <1>3 DEF Backfill, TypeOK, FloorsAreTimes
  <2>4. lower \in TimeOrNone \ {0}
    BY <2>2, <2>3, EarlierProperties
  <2>5. floor' \in [Accounts -> TimeOrNone] /\ \A a \in Accounts : floor'[a] # 0
    BY <1>3, <2>3, <2>4 DEF Backfill, TypeOK, FloorsAreTimes
  <2> QED BY <1>0, <1>3, <2>3, <2>5
    DEF Backfill, TypeOK, FloorsAreTimes, PassFitsStep, Steps, Scanning, Sending,
        world, remote, auth, RowsAbove
<1>4. CASE MarkBackfillDone
  BY <1>0, <1>4 DEF MarkBackfillDone, TypeOK, FloorsAreTimes, PassFitsStep, Steps, Scanning,
        Sending, world, remote, auth
<1>5. CASE ReadFloor
  <2> DEFINE f == floor[pass.uid]
             scan == ScanFloor(pass.max, f)
  <2>1. pass.uid \in Accounts /\ f \in TimeOrNone \ {0} /\ done[pass.uid]
    BY <1>0, <1>5 DEF ReadFloor, TypeOK, FloorsAreTimes, PassFitsStep
  <2>2. scan \in TimeOrNone
    BY <1>0, <2>1 DEF ScanFloor, TimeOrNone
  <2>3. Scanned(scan, lake) \in SUBSET Rows
    BY DEF Scanned, Reoffered, TypeOK
  <2>4. Cardinality(Scanned(scan, lake)) \in Nat
    BY <2>3, RowSets
  <2> QED BY <1>0, <1>5, <2>1, <2>2, <2>4
    DEF ReadFloor, TypeOK, FloorsAreTimes, PassFitsStep, Steps, Scanning, Sending,
        world, remote, auth, durable
<1>6. CASE ReadChunk
  <2> DEFINE chunk == FirstRows(RowsAbove(pass), Chunk)
             earliest == Earlier(pass.earliest, Earliest(Unparseable(chunk)))
  <2>1. chunk \subseteq RowsAbove(pass) /\ RowsAbove(pass) \subseteq Rows
    BY FirstRowsProperties, BoundsAssumption DEF RowsAbove, Scanned, Reoffered, TypeOK
  <2>2. Unparseable(chunk) \in SUBSET Rows
    BY <2>1, RowSets
  <2>3. earliest \in TimeOrNone \ {0} /\ (Unparseable(chunk) # {} => earliest # None)
    BY <1>0, <2>2, EarliestProperties, EarlierProperties DEF FloorsAreTimes
  <2>4. CASE chunk = {}
    BY <1>0, <1>6, <2>4
    DEF ReadChunk, TypeOK, FloorsAreTimes, PassFitsStep, Steps, Scanning, Sending,
        world, remote, auth, durable
  <2>5. CASE chunk # {}
    <3>1. PICK pc \in {"protect", "send"} :
            /\ pass' = [pass EXCEPT !.pc = pc, !.chunk = chunk, !.earliest = earliest]
            /\ pc = "protect" => Unparseable(chunk) # {}
      BY <1>6, <2>5 DEF ReadChunk
    <3>2. RowsAbove(pass)' = RowsAbove(pass)
      BY <1>0, <1>6, <3>1 DEF ReadChunk, RowsAbove, Scanned, Reoffered, world
    <3>3. /\ pass.pc = "read"
          /\ UNCHANGED <<lake, clock, release, cloud, floor, done, account, generation, failures,
                         late, mixed>>
      BY <1>6 DEF ReadChunk, world, remote, auth, durable
    <3> HIDE DEF chunk, earliest
    <3>4. TypeOK'
      BY <1>0, <2>1, <2>3, <3>1, <3>3 DEF TypeOK, Steps
    <3>5. FloorsAreTimes'
      BY <1>0, <2>3, <3>1, <3>3 DEF FloorsAreTimes
    <3>6. /\ pass'.pc = pc /\ pass'.chunk = chunk /\ pass'.earliest = earliest
          /\ pass'.uid = pass.uid /\ pass'.gen = pass.gen /\ pass'.last = pass.last
          /\ pc = "protect" => earliest # None
      BY <1>0, <2>3, <3>1
    <3>7. PassFitsStep'
      BY <2>1, <2>5, <3>2, <3>3, <3>6 DEF PassFitsStep, Scanning, Sending
    <3> QED BY <3>4, <3>5, <3>7
  <2> QED BY <2>4, <2>5
<1>7. CASE ProtectUnparseable
  <2>1. RowsAbove(pass)' = RowsAbove(pass)
    BY <1>0, <1>7 DEF ProtectUnparseable, Protect, RowsAbove, Scanned, Reoffered, world
  <2>2. pass' = [pass EXCEPT !.pc = "send", !.persisted = pass.earliest]
        /\ floor' = [floor EXCEPT ![pass.uid] = pass.earliest]
    BY <1>7 DEF ProtectUnparseable, Protect
  <2>3. TypeOK'
    BY <1>0, <1>7, <2>2 DEF ProtectUnparseable, TypeOK, Steps, world, remote, auth
  <2>4. FloorsAreTimes'
    BY <1>0, <2>2 DEF TypeOK, FloorsAreTimes
  <2>5. PassFitsStep'
    BY <1>0, <1>7, <2>1, <2>2
    DEF ProtectUnparseable, PassFitsStep, Scanning, Sending, world, auth
  <2> QED BY <2>3, <2>4, <2>5

<1>8. CASE SendChunk
  <2>1. pass.chunk # {} /\ pass.chunk \subseteq lake /\ pass.uid \in Accounts /\ done[pass.uid]
    BY <1>0, <1>8 DEF SendChunk, PassFitsStep, Scanning, Sending, RowsAbove, Scanned, Reoffered
  <2>2. CASE pass' = AfterChunk(pass)
    <3>1. cloud' \in [Accounts -> SUBSET App] /\ mixed' \subseteq Accounts
      BY <1>8 DEF SendChunk, TypeOK, remote
    <3> QED BY <1>8, <2>1, <2>2, <3>1, AfterChunkFits
      DEF SendChunk, world, auth, durable
  <2>3. CASE pass' # AfterChunk(pass)
    <3> DEFINE rest == Reoffered(pass.scan, Valid(pass.chunk))
    <3>1. /\ account # None /\ account \in Accounts
          /\ pass' = [pass EXCEPT !.pc = "batch", !.target = account, !.rest = rest]
      BY <1>8, <2>3 DEF SendChunk, TypeOK
    <3>2. rest \subseteq Valid(pass.chunk) /\ Valid(pass.chunk) \subseteq App
      BY DEF Reoffered, Valid
    <3>3. RowsAbove(pass)' = RowsAbove(pass) /\ Valid(pass.chunk)' = Valid(pass.chunk)
      BY <1>0, <1>8, <3>1 DEF SendChunk, RowsAbove, Scanned, Reoffered, world, Valid, Parses
    <3>4. pass.chunk \subseteq RowsAbove(pass)
      BY <1>8 DEF SendChunk, PassFitsStep, Sending
    <3>5. TypeOK' /\ FloorsAreTimes'
      BY <1>0, <1>8, <3>1, <3>2
      DEF SendChunk, TypeOK, FloorsAreTimes, Steps, world, remote, auth, durable
    <3>6. PassFitsStep'
      BY <1>0, <1>8, <2>1, <3>1, <3>2, <3>3, <3>4
      DEF SendChunk, PassFitsStep, Scanning, Sending, world, remote, auth, durable
    <3> QED BY <3>5, <3>6
  <2> QED BY <2>2, <2>3
<1>9. CASE WriteBatch
  <2> DEFINE batch == NextBatch(pass.rest)
             rest == pass.rest \ batch
  <2>1. pass.chunk # {} /\ pass.chunk \subseteq lake /\ pass.uid \in Accounts /\ done[pass.uid]
    BY <1>0, <1>9 DEF WriteBatch, PassFitsStep, Scanning, Sending, RowsAbove, Scanned, Reoffered
  <2>2. cloud' \in [Accounts -> SUBSET App] /\ mixed' \subseteq Accounts
    BY <1>9, StoreTypes DEF WriteBatch
  <2>3. CASE rest = {}
    BY <1>9, <2>1, <2>2, <2>3, AfterChunkFits DEF WriteBatch, world, auth, durable
  <2>4. CASE rest # {}
    <3>1. pass' = [pass EXCEPT !.rest = rest]
      BY <1>9, <2>4 DEF WriteBatch
    <3>2. RowsAbove(pass)' = RowsAbove(pass) /\ Valid(pass.chunk)' = Valid(pass.chunk)
      BY <1>0, <1>9, <3>1 DEF WriteBatch, RowsAbove, Scanned, Reoffered, world, Valid, Parses
    <3>3. pass.chunk \subseteq RowsAbove(pass) /\ pass.rest \subseteq Valid(pass.chunk)
          /\ pass.target \in Accounts
      BY <1>9 DEF WriteBatch, PassFitsStep, Sending
    <3>4. TypeOK' /\ FloorsAreTimes'
      BY <1>0, <1>9, <2>2, <3>1 DEF WriteBatch, TypeOK, FloorsAreTimes, world, auth, durable
    <3>5. PassFitsStep'
      BY <1>0, <1>9, <2>1, <3>1, <3>2, <3>3
      DEF WriteBatch, PassFitsStep, Scanning, Sending, world, auth, durable
    <3> QED BY <3>4, <3>5
  <2> QED BY <2>3, <2>4
<1>10. CASE LoseAnswer
  <2>1. cloud' \in [Accounts -> SUBSET App] /\ mixed' \subseteq Accounts
    BY <1>10, StoreTypes DEF LoseAnswer
  <2>2. UNCHANGED <<world, durable, auth>> /\ pass' = NoPass /\ failures' \in 0..MaxFailures
    BY <1>10, BoundsAssumption DEF LoseAnswer, TypeOK
  <2> QED BY <2>1, <2>2, NoPassFits DEF TypeOK, FloorsAreTimes, world, auth, durable
<1>11. CASE CommitFloor
  <2>1. RowsAbove(pass)' = RowsAbove(pass)
    BY <1>0, <1>11 DEF CommitFloor, RowsAbove, Scanned, Reoffered, world
  <2> QED BY <1>0, <1>11, <2>1
    DEF CommitFloor, TypeOK, FloorsAreTimes, PassFitsStep, Steps, Scanning, Sending,
        world, remote, auth
<1>12. CASE EndPass \/ AbortPass \/ FailPass
  BY <1>12, NoPassFits, BoundsAssumption
  DEF EndPass, AbortPass, FailPass, TypeOK, FloorsAreTimes, world, remote, auth, durable
<1> QED BY <1>1, <1>2, <1>3, <1>4, <1>5, <1>6, <1>7, <1>8, <1>9, <1>10, <1>11, <1>12 DEF PassNext

LEMMA TypesOfOtherSteps ==
  ASSUME TypeInv,
         \/ \E r \in Rows : LiveRow(r)
         \/ \E rs \in SUBSET (Rows \ lake) : ImportRows(rs)
         \/ \E a \in Accounts \cup {None} : SwitchAccount(a)
         \/ Restart
         \/ UpdateExtension
         \/ UNCHANGED vars
  PROVE  TypeInv'
<1> USE DEF TypeInv
<1>1. ASSUME NEW r \in Rows, LiveRow(r) PROVE TypeInv'
  <2>1. lake \subseteq lake' /\ UNCHANGED <<pass, release, generation, done, floor>>
    BY <1>1 DEF LiveRow, durable, auth
  <2>2. RowsAbove(pass) \subseteq RowsAbove(pass)'
    BY <2>1 DEF RowsAbove, Scanned, Reoffered
  <2>3. Valid(pass.chunk)' = Valid(pass.chunk)
    BY <2>1 DEF Valid, Parses
  <2>4. PassFitsStep'
    BY <2>1, <2>2, <2>3 DEF PassFitsStep, Scanning, Sending
  <2> QED BY <1>1, <2>1, <2>4 DEF LiveRow, TypeOK, FloorsAreTimes, Times, remote, durable, auth
<1>2. ASSUME NEW rs \in SUBSET (Rows \ lake), ImportRows(rs) PROVE TypeInv'
  <2>1. /\ lake \subseteq lake' /\ UNCHANGED <<pass, release, generation, done>>
        /\ pass.pc = "none"
    BY <1>2 DEF ImportRows, auth
  <2>2. PassFitsStep'
    BY <2>1 DEF PassFitsStep, Scanning, Sending
  <2>3. rs \cap App \in SUBSET Rows
    BY RowsAssumption
  <2>4. floor' \in [Accounts -> TimeOrNone] /\ \A a \in Accounts : floor'[a] # 0
    BY <1>2, <2>3, EarliestProperties, EarlierProperties
    DEF ImportRows, LoweredFloor, TypeOK, FloorsAreTimes
  <2> QED BY <1>2, <2>1, <2>2, <2>4 DEF ImportRows, TypeOK, FloorsAreTimes, remote, auth
<1>3. ASSUME NEW a \in Accounts \cup {None}, SwitchAccount(a) PROVE TypeInv'
  <2>1. generation' \in 0..MaxSwitches /\ pass.gen <= generation'
    BY <1>3, BoundsAssumption DEF SwitchAccount, TypeOK, PassFitsStep
  <2>2. RowsAbove(pass)' = RowsAbove(pass) /\ Valid(pass.chunk)' = Valid(pass.chunk)
    BY <1>3 DEF SwitchAccount, world, RowsAbove, Scanned, Reoffered, Valid, Parses
  <2> QED BY <1>3, <2>1, <2>2
    DEF SwitchAccount, TypeOK, FloorsAreTimes, PassFitsStep, Scanning, Sending,
        world, remote, durable
<1>4. CASE Restart
  BY <1>4, NoPassFits, BoundsAssumption
  DEF Restart, TypeOK, FloorsAreTimes, world, remote, auth, durable
<1>5. CASE UpdateExtension
  BY <1>5, BoundsAssumption
  DEF UpdateExtension, TypeOK, FloorsAreTimes, PassFitsStep, Scanning, Sending,
      remote, auth, durable
<1>6. CASE UNCHANGED vars
  <2>1. RowsAbove(pass)' = RowsAbove(pass) /\ Valid(pass.chunk)' = Valid(pass.chunk)
    BY <1>6 DEF vars, RowsAbove, Scanned, Reoffered, Valid, Parses
  <2> QED BY <1>6, <2>1
    DEF vars, TypeOK, FloorsAreTimes, PassFitsStep, Scanning, Sending
<1> QED BY <1>1, <1>2, <1>3, <1>4, <1>5, <1>6

LEMMA BatchIsOfChunk ==
  ASSUME TypeInv, pass.pc = "batch"
  PROVE  /\ NextBatch(pass.rest) \subseteq pass.rest
         /\ pass.rest \subseteq pass.chunk \cap App
         /\ pass.chunk \subseteq lake /\ pass.chunk # {}
         /\ \A s \in NextBatch(pass.rest) : \A r \in pass.rest : r <= s => r \in NextBatch(pass.rest)
<1>1. pass.rest \in SUBSET Rows
  BY RowsAssumption DEF TypeInv, TypeOK
<1>2. pass.rest \subseteq Valid(pass.chunk) /\ pass.chunk \subseteq RowsAbove(pass) /\ pass.chunk # {}
  BY DEF TypeInv, PassFitsStep, Sending
<1>3. Valid(pass.chunk) \subseteq pass.chunk \cap App /\ RowsAbove(pass) \subseteq lake
  BY DEF Valid, RowsAbove, Scanned, Reoffered
<1> QED BY <1>1, <1>2, <1>3, FirstRowsProperties, BoundsAssumption DEF NextBatch

LEMMA TypesOfSteps == TypeInv /\ [Next]_vars => TypeInv'
BY TypesOfPassSteps, TypesOfOtherSteps DEF Next

\* What is stored is no younger than the clock, whatever is sent.
LEMMA NothingAheadOfSteps == TypeInv /\ NothingAhead /\ [Next]_vars => NothingAhead'
<1> SUFFICES ASSUME TypeInv, NothingAhead, [Next]_vars PROVE NothingAhead'
  OBVIOUS
<1> USE DEF NothingAhead
<1>1. CASE UNCHANGED <<lake, clock, cloud>>
  BY <1>1
<1>2. ASSUME NEW r \in Rows, LiveRow(r) PROVE NothingAhead'
  <2>1. At[r] \in Nat /\ clock \in Nat /\ clock <= At[r] /\ clock' = At[r]
    BY <1>2, TimesArePositive, RowsAssumption DEF LiveRow, TypeInv, TypeOK
  <2>2. lake \subseteq Rows /\ \A a \in Accounts : cloud[a] \subseteq Rows
    BY RowsAssumption DEF TypeInv, TypeOK
  <2>3. \A s \in Rows : At[s] \in Nat
    BY RowsAssumption
  <2> QED BY <1>2, <2>1, <2>2, <2>3 DEF LiveRow, remote
<1>3. ASSUME NEW rs \in SUBSET (Rows \ lake), ImportRows(rs) PROVE NothingAhead'
  BY <1>3 DEF ImportRows, remote
<1>4. ASSUME pass.pc = "batch", Store(NextBatch(pass.rest)), UNCHANGED <<lake, clock>>
      PROVE  NothingAhead'
  <2>1. NextBatch(pass.rest) \subseteq lake
    BY <1>4, BatchIsOfChunk
  <2>2. cloud \in [Accounts -> SUBSET App] /\ pass.target \in Accounts
    BY <1>4 DEF TypeInv, TypeOK, PassFitsStep
  <2> QED BY <1>4, <2>1, <2>2 DEF Store
<1>5. CASE WriteBatch \/ LoseAnswer
  BY <1>4, <1>5 DEF WriteBatch, LoseAnswer, world
<1>6. ASSUME Next, ~WriteBatch, ~LoseAnswer,
             \A r \in Rows : ~LiveRow(r), \A rs \in SUBSET (Rows \ lake) : ~ImportRows(rs)
      PROVE  UNCHANGED <<lake, clock, cloud>>
  BY <1>6
  DEF Next, PassNext, StartPass, ReadWatermark, Backfill, MarkBackfillDone, ReadFloor, ReadChunk,
      ProtectUnparseable, SendChunk, CommitFloor, EndPass, AbortPass, FailPass, SwitchAccount,
      Restart, UpdateExtension, world, remote
<1> QED BY <1>1, <1>2, <1>3, <1>5, <1>6 DEF vars

-----------------------------------------------------------------------------
(* The pass.  One lemma per step, for the parts of PassInv and for what it  *)
(* strands.                                                                *)

\* What a step may add to the stranded rows of an account.
StrandsNothing ==
  \A a \in Accounts :
    \/ Stranded(a)' \subseteq Stranded(a) \cup late'
    \/ a \in mixed' /\ UNCHANGED durable

LEMMA StrandedUnchanged ==
  ASSUME UNCHANGED <<lake, cloud, done, floor>>
  PROVE  StrandsNothing
BY DEF StrandsNothing, Stranded

LEMMA NothingInHand ==
  ASSUME PassInv, pass'.pc \in {"none", "watermark"},
         pass'.pc = "watermark" => SameIsSignedIn',
         \/ pass'.max = None
         \/ pass'.max = pass.max /\ clock' = clock
  PROVE  PassInv'
<1>1. SameIsSignedIn'
  BY DEF SameIsSignedIn, Same
<1>2. WatermarkHolds'
  BY DEF PassInv, WatermarkHolds, Same
<1>3. RewindHolds' /\ ScanBelowFloor' /\ Protected' /\ ReadIsKept' /\ CountReachesBehind'
  BY DEF RewindHolds, ScanBelowFloor, Protected, ReadIsKept, CountReachesBehind, Scanning, Sending
<1> QED BY <1>1, <1>2, <1>3 DEF PassInv

LEMMA PassEnds ==
  ASSUME PassInv, pass' = NoPass
  PROVE  PassInv'
<1>1. pass'.pc = "none" /\ pass'.max = None
  BY DEF NoPass
<1> QED BY <1>1, NothingInHand

LEMMA FieldTypes ==
  ASSUME TypeInv
  PROVE  /\ \A r \in Rows : r \in Nat /\ At[r] \in Nat
         /\ lake \subseteq Rows /\ App \subseteq Rows /\ clock \in Nat
         /\ \A a \in Accounts : cloud[a] \subseteq App /\ floor[a] \in TimeOrNone /\ floor[a] # 0
         /\ pass.max \in TimeOrNone /\ pass.scan \in TimeOrNone /\ pass.earliest \in TimeOrNone
         /\ pass.persisted \in TimeOrNone /\ pass.last \in Rows \cup {None}
         /\ pass.chunk \subseteq Rows /\ pass.gen \in Nat /\ generation \in Nat
         /\ pass.processed \in Nat /\ pass.total \in Nat /\ account \in Accounts \cup {None}
         /\ pass.uid \in Accounts \cup {None} /\ (pass.last # None => pass.last \in Nat)
<1>1. pass.last # None => pass.last \in Nat
  BY RowsAssumption DEF TypeInv, TypeOK
<1> QED BY <1>1, RowsAssumption, TimesArePositive, BoundsAssumption DEF TypeInv, TypeOK, FloorsAreTimes

\* A live row is stamped after everything that is stored or sent.
LEMMA LiveRowStrandsNothing ==
  ASSUME IInv, NEW r \in Rows, LiveRow(r)
  PROVE  PassInv' /\ StrandsNothing
<1> USE DEF IInv
<1>1. /\ r \notin lake /\ clock <= At[r] /\ clock' = At[r] /\ lake' = lake \cup {r}
      /\ ~Missed(r) => late' = late
      /\ Missed(r) => late' = late \cup {r}
      /\ UNCHANGED <<release, cloud, floor, done, account, generation, pass>>
  BY FieldTypes DEF LiveRow, remote, durable, auth
<1>2. StrandsNothing
  <2>1. ASSUME NEW a \in Accounts, NEW s \in Stranded(a)' PROVE s \in Stranded(a)
    <3>1. \A d \in cloud[a] : At[d] <= clock /\ At[d] \in Nat
      BY FieldTypes DEF NothingAhead
    <3>2. s # r
      BY <1>1, <2>1, <3>1, FieldTypes DEF Stranded
    <3> QED BY <1>1, <2>1, <3>2 DEF Stranded
  <2> QED BY <2>1 DEF StrandsNothing
<1>3. SameIsSignedIn' /\ Protected'
  BY <1>1 DEF PassInv, SameIsSignedIn, Protected, Same, SameGeneration, Scanning
<1>4. WatermarkHolds'
  BY <1>1, FieldTypes, NoneAssumption
  DEF PassInv, WatermarkHolds, Same, SameGeneration, ReadSoFar, TimeOrNone
<1>5. RewindHolds'
  <2>1. pass.max # None => pass.max \in Nat /\ pass.max <= clock
    BY FieldTypes DEF PassInv, WatermarkHolds, TimeOrNone
  <2> QED BY <1>1, <2>1, FieldTypes DEF PassInv, RewindHolds, Same, SameGeneration
<1>6. ScanBelowFloor'
  BY <1>1 DEF PassInv, ScanBelowFloor, Scanning
<1>7. ReadIsKept'
  <2> SUFFICES ASSUME Same, Scanning, NEW s \in Scanned(pass.scan, lake') \ late'
      PROVE /\ s \in App /\ pass.last # None /\ s <= pass.last => Kept(s)
            /\ pass.last = None \/ s > pass.last => \A t \in pass.chunk : s <= t => s \in pass.chunk
            /\ s \in Unparseable(pass.chunk) => pass.earliest # None /\ pass.earliest <= At[s]
            /\ pass.pc = "batch" /\ s \in Valid(pass.chunk) \ pass.rest => s \in cloud[account]
    BY <1>1 DEF ReadIsKept, Same, SameGeneration, Scanning, Kept, Unparseable, Valid, Parses
  <2>1. CASE s # r
    BY <1>1, <2>1 DEF PassInv, ReadIsKept, Scanned, Reoffered
  <2>2. CASE s = r
    <3>1. ~Missed(r)
      BY <1>1, <2>2
    <3>2. pass.chunk \subseteq lake
      BY DEF TypeInv, PassFitsStep, RowsAbove, Scanned, Reoffered
    <3>3. \A t \in pass.chunk : t \in Rows /\ t # r /\ t < r
      BY <1>1, <3>1, <3>2, FieldTypes DEF Missed
    <3>4. ~(pass.last # None /\ r <= pass.last)
      <4> SUFFICES ASSUME pass.last # None PROVE ~(r <= pass.last)
        OBVIOUS
      <4>1. pass.last \in lake /\ pass.last \in Nat /\ r \in Nat /\ pass.last # r
        BY <1>1, FieldTypes DEF TypeInv, PassFitsStep
      <4>2. ~(r < pass.last)
        BY <3>1 DEF Missed
      <4> QED BY <4>1, <4>2
    <3>5. \A t \in pass.chunk : ~(r <= t)
      BY <3>3, FieldTypes
    <3>6. r \notin Unparseable(pass.chunk) /\ r \notin Valid(pass.chunk)
      BY <1>1, <3>2 DEF Unparseable, Valid
    <3> QED BY <2>2, <3>4, <3>5, <3>6
  <2> QED BY <2>1, <2>2
<1>8. CountReachesBehind'
  <2>1. pass.max # None => pass.max \in Nat /\ pass.max <= clock
    BY FieldTypes DEF PassInv, WatermarkHolds, TimeOrNone
  <2>2. Behind' = Behind
    BY <1>1, <2>1, FieldTypes DEF Behind, RowsAbove, Scanned, Reoffered
  <2> QED BY <1>1, <2>2 DEF PassInv, CountReachesBehind, Sending
<1> QED BY <1>2, <1>3, <1>4, <1>5, <1>6, <1>7, <1>8 DEF PassInv

\* The floor of a reconciled account goes down with the rows that are added.
LEMMA ImportRowsStrandsNothing ==
  ASSUME IInv, NEW rs \in SUBSET (Rows \ lake), ImportRows(rs)
  PROVE  PassInv' /\ StrandsNothing
<1> USE DEF IInv
<1>1. /\ pass.pc = "none" /\ lake' = lake \cup rs /\ floor' = LoweredFloor(rs)
      /\ UNCHANGED <<clock, cloud, done, pass, late>>
  BY DEF ImportRows, remote
<1>2. PassInv'
  BY <1>1, NothingInHand
<1>3. ASSUME NEW a \in Accounts, NEW r \in Stranded(a)' PROVE r \in Stranded(a)
  <2>1. /\ r \in lake \cup rs /\ r \in App /\ r \notin cloud[a] /\ done[a]
        /\ \E d \in cloud[a] : At[d] > At[r]
        /\ floor'[a] = None \/ At[r] < floor'[a]
    BY <1>1, <1>3 DEF Stranded
  <2>2. rs \cap App \in SUBSET Rows
    BY RowsAssumption
  <2>3. floor'[a] = Earlier(floor[a], Earliest(rs \cap App))
    BY <1>1, <2>1 DEF LoweredFloor
  <2>4. /\ floor[a] \in TimeOrNone /\ Earliest(rs \cap App) \in TimeOrNone /\ At[r] \in Nat
        /\ floor'[a] \in TimeOrNone
    BY <2>1, <2>2, <2>3, FieldTypes, EarliestProperties, EarlierProperties
  <2>5. r \notin rs
    <3> SUFFICES ASSUME r \in rs PROVE FALSE
      OBVIOUS
    <3>1. Earliest(rs \cap App) # None /\ Earliest(rs \cap App) <= At[r]
      BY <2>1, <2>2, EarliestProperties
    <3>2. floor'[a] # None /\ floor'[a] <= Earliest(rs \cap App)
      BY <2>3, <2>4, <3>1, EarlierProperties
    <3> QED BY <2>1, <2>4, <3>1, <3>2, NoneAssumption DEF TimeOrNone
  <2>6. floor[a] = None \/ At[r] < floor[a]
    <3> SUFFICES ASSUME floor[a] # None PROVE At[r] < floor[a]
      OBVIOUS
    <3>1. floor'[a] # None /\ floor'[a] <= floor[a]
      BY <2>3, <2>4, EarlierProperties
    <3> QED BY <2>1, <2>4, <3>1, NoneAssumption DEF TimeOrNone
  <2> QED BY <2>1, <2>5, <2>6 DEF Stranded
<1> QED BY <1>2, <1>3 DEF StrandsNothing

\* A pass of an earlier sign-in can no longer write the bookkeeping.
LEMMA SwitchAccountStrandsNothing ==
  ASSUME IInv, NEW a \in Accounts \cup {None}, SwitchAccount(a)
  PROVE  PassInv' /\ StrandsNothing
<1> USE DEF IInv
<1>1. /\ generation' = generation + 1
      /\ UNCHANGED <<lake, clock, release, late, cloud, mixed, floor, done, pass>>
  BY DEF SwitchAccount, world, remote, durable
<1>2. StrandsNothing
  BY <1>1, StrandedUnchanged
<1>3. ~Same'
  BY <1>1, FieldTypes DEF Same, SameGeneration, TypeInv, PassFitsStep
<1>4. SameIsSignedIn' /\ WatermarkHolds' /\ RewindHolds' /\ ReadIsKept'
  BY <1>1, <1>3 DEF PassInv, SameIsSignedIn, WatermarkHolds, RewindHolds, ReadIsKept
<1>5. ScanBelowFloor' /\ Protected'
  BY <1>1 DEF PassInv, ScanBelowFloor, Protected, Scanning
<1>6. Behind' = Behind
  BY <1>1 DEF Behind, RowsAbove, Scanned, Reoffered
<1>7. CountReachesBehind'
  BY <1>1, <1>6 DEF PassInv, CountReachesBehind, Sending
<1> QED BY <1>2, <1>4, <1>5, <1>7 DEF PassInv

LEMMA StartPassHolds ==
  ASSUME IInv, StartPass
  PROVE  PassInv' /\ StrandsNothing
<1>1. /\ pass'.pc = "watermark" /\ pass'.max = None /\ pass'.uid = account
      /\ UNCHANGED <<lake, cloud, floor, done, account>>
  BY DEF StartPass, NoPass, world, remote, durable, auth
<1>2. SameIsSignedIn'
  BY <1>1 DEF SameIsSignedIn
<1> QED BY <1>1, <1>2, NothingInHand, StrandedUnchanged DEF IInv

LEMMA ReadWatermarkHolds ==
  ASSUME IInv, ReadWatermark
  PROVE  PassInv' /\ StrandsNothing
<1> USE DEF IInv
<1>1. PICK m \in Times \cup {None} :
        IsWatermark(m, cloud[account]) /\ pass' = [pass EXCEPT !.pc = "backfill", !.max = m]
  BY DEF ReadWatermark
<1>2. /\ pass.pc = "watermark" /\ account \in Accounts
      /\ UNCHANGED <<lake, clock, cloud, floor, done, account, generation>>
  BY FieldTypes DEF ReadWatermark, world, remote, durable, auth
<1>3. /\ pass'.pc = "backfill" /\ pass'.max = m /\ pass'.uid = pass.uid /\ pass'.gen = pass.gen
      /\ pass'.last = pass.last /\ pass'.chunk = pass.chunk
  BY <1>1 DEF TypeInv, TypeOK
<1>4. StrandsNothing
  BY <1>2, StrandedUnchanged
<1>5. SameIsSignedIn'
  BY <1>2, <1>3 DEF PassInv, SameIsSignedIn, Same, SameGeneration
<1>6. \/ m = None /\ cloud[account] = {}
      \/ \E d \in cloud[account] : m = At[d] /\ At[d] <= clock /\ \A e \in cloud[account] : At[e] <= m
  BY <1>1, <1>2 DEF IsWatermark, NothingAhead
<1>7. WatermarkHolds'
  BY <1>2, <1>3, <1>6, FieldTypes, NoneAssumption DEF WatermarkHolds
<1>8. RewindHolds' /\ ScanBelowFloor' /\ Protected' /\ ReadIsKept' /\ CountReachesBehind'
  BY <1>3 DEF RewindHolds, ScanBelowFloor, Protected, ReadIsKept, CountReachesBehind, Scanning, Sending
<1> QED BY <1>4, <1>5, <1>7, <1>8 DEF PassInv

\* The one-time rewind goes below every application row the watermark hides.
LEMMA BackfillHolds ==
  ASSUME IInv, Backfill
  PROVE  PassInv' /\ StrandsNothing
<1> USE DEF IInv
<1> DEFINE rewind == IF pass.max = None THEN None ELSE Earliest(BackfillRows)
           lower == Earlier(floor[pass.uid], rewind)
<1>1. /\ pass.pc = "backfill" /\ pass.uid \in Accounts
      /\ UNCHANGED <<lake, clock, cloud, done, account, generation, mixed>>
      /\ pass' = [pass EXCEPT !.pc = IF done[pass.uid] THEN "floor" ELSE "mark"]
      /\ IF done[pass.uid] \/ lower = floor[pass.uid] THEN floor' = floor
         ELSE floor' = [floor EXCEPT ![pass.uid] = lower]
  BY FieldTypes DEF Backfill, world, remote, auth
<1>2. /\ pass'.pc = IF done[pass.uid] THEN "floor" ELSE "mark"
      /\ pass'.max = pass.max /\ pass'.uid = pass.uid /\ pass'.gen = pass.gen
      /\ pass'.last = pass.last /\ pass'.chunk = pass.chunk
      /\ pass'.processed = pass.processed
  BY <1>1 DEF TypeInv, TypeOK
<1>3. BackfillRows \in SUBSET Rows /\ floor[pass.uid] \in TimeOrNone
  BY <1>1, FieldTypes DEF BackfillRows
<1>4. rewind \in TimeOrNone
  BY <1>3, EarliestProperties DEF TimeOrNone
<1>5. ~done[pass.uid] => floor'[pass.uid] = lower
  BY <1>1 DEF TypeInv, TypeOK
<1>6. StrandsNothing
  <2>1. ASSUME NEW a \in Accounts PROVE Stranded(a)' \subseteq Stranded(a)
    <3>1. CASE done[a]
      BY <1>1, <3>1 DEF Stranded, TypeInv, TypeOK
    <3>2. CASE ~done[a]
      BY <1>1, <3>2 DEF Stranded
    <3> QED BY <3>1, <3>2
  <2> QED BY <2>1 DEF StrandsNothing
<1>7. SameIsSignedIn' /\ WatermarkHolds'
  BY <1>1, <1>2 DEF PassInv, SameIsSignedIn, WatermarkHolds, Same, SameGeneration, ReadSoFar
<1>8. RewindHolds'
  <2> SUFFICES ASSUME pass'.pc = "mark", Same', pass.max # None,
                      NEW r \in lake \cap App, At[r] < pass.max
               PROVE  floor'[account] # None /\ floor'[account] <= At[r]
    BY <1>1, <1>2 DEF RewindHolds
  <2>1. pass.uid = account /\ ~done[pass.uid]
    BY <1>1, <1>2 DEF PassInv, SameIsSignedIn, Same, SameGeneration
  <2>2. r \in BackfillRows
    BY FieldTypes DEF BackfillRows, TimeOrNone
  <2>3. rewind # None /\ rewind <= At[r]
    BY <1>3, <2>2, EarliestProperties
  <2>4. lower # None /\ lower <= rewind /\ lower \in TimeOrNone
    BY <1>3, <1>4, <2>3, EarlierProperties
  <2> HIDE DEF rewind, lower
  <2> QED BY <1>4, <1>5, <2>1, <2>3, <2>4, FieldTypes DEF TimeOrNone
<1>9. ScanBelowFloor' /\ Protected' /\ ReadIsKept' /\ CountReachesBehind'
  BY <1>2 DEF ScanBelowFloor, Protected, ReadIsKept, CountReachesBehind, Scanning, Sending
<1> QED BY <1>6, <1>7, <1>8, <1>9 DEF PassInv

\* The marker is set once the floor is below everything the watermark hides.
LEMMA MarkBackfillDoneHolds ==
  ASSUME IInv, MarkBackfillDone
  PROVE  PassInv' /\ StrandsNothing
<1> USE DEF IInv
<1>1. /\ pass.pc = "mark" /\ Same /\ pass.uid \in Accounts
      /\ UNCHANGED <<lake, clock, cloud, floor, account, generation>>
      /\ pass' = [pass EXCEPT !.pc = "floor"] /\ done' = [done EXCEPT ![pass.uid] = TRUE]
  BY DEF MarkBackfillDone, Same, TypeInv, PassFitsStep, world, remote, auth
<1>2. /\ pass'.pc = "floor" /\ pass'.max = pass.max /\ pass'.uid = pass.uid
      /\ pass'.gen = pass.gen /\ pass'.last = pass.last /\ pass'.chunk = pass.chunk
  BY <1>1 DEF TypeInv, TypeOK
<1>3. pass.uid = account /\ pass.last = None /\ pass.chunk = {}
  BY <1>1 DEF PassInv, SameIsSignedIn, TypeInv, PassFitsStep, Sending
<1>4. StrandsNothing
  <2>1. ASSUME NEW a \in Accounts, a # account PROVE Stranded(a)' = Stranded(a)
    BY <1>1, <1>3, <2>1 DEF Stranded, TypeInv, TypeOK
  <2>2. ASSUME NEW r \in Stranded(account)' PROVE FALSE
    <3>1. /\ r \in lake \cap App
          /\ floor[account] = None \/ At[r] < floor[account]
          /\ \E d \in cloud[account] : At[d] > At[r]
      BY <1>1, <2>2 DEF Stranded
    <3>2. PICK d \in cloud[account] : At[d] > At[r]
      BY <3>1
    <3>3. pass.max # None /\ At[d] <= pass.max
      BY <1>1, <1>3 DEF PassInv, WatermarkHolds, ReadSoFar
    <3>4. At[r] \in Nat /\ At[d] \in Nat /\ pass.max \in Nat /\ floor[account] \in TimeOrNone
      BY <1>1, <1>3, <3>1, <3>3, FieldTypes DEF TimeOrNone
    <3>5. At[r] < pass.max
      BY <3>2, <3>3, <3>4
    <3>6. floor[account] # None /\ floor[account] <= At[r]
      BY <1>1, <3>1, <3>3, <3>5 DEF PassInv, RewindHolds
    <3> QED BY <3>1, <3>4, <3>6 DEF TimeOrNone
  <2> QED BY <1>1, <2>1, <2>2 DEF StrandsNothing
<1>5. SameIsSignedIn' /\ WatermarkHolds'
  BY <1>1, <1>2 DEF PassInv, SameIsSignedIn, WatermarkHolds, Same, SameGeneration, ReadSoFar
<1>6. RewindHolds' /\ ScanBelowFloor' /\ Protected' /\ ReadIsKept' /\ CountReachesBehind'
  BY <1>2 DEF RewindHolds, ScanBelowFloor, Protected, ReadIsKept, CountReachesBehind, Scanning, Sending
<1> QED BY <1>4, <1>5, <1>6 DEF PassInv

\* The scan starts no higher than the watermark and no higher than the floor, and counts
\* every row from there on.
LEMMA ReadFloorHolds ==
  ASSUME IInv, ReadFloor
  PROVE  PassInv' /\ StrandsNothing
<1> USE DEF IInv
<1> DEFINE f == floor[pass.uid]
           scan == ScanFloor(pass.max, f)
           rows == Scanned(scan, lake)
           total == Cardinality(rows)
           pc == IF total > 0 THEN "read" ELSE IF f # None THEN "commit" ELSE "end"
<1>1. /\ pass.pc = "floor" /\ pass.uid \in Accounts
      /\ UNCHANGED <<lake, clock, cloud, floor, done, account, generation>>
      /\ pass' = [pass EXCEPT !.pc = pc, !.scan = scan, !.total = total, !.persisted = f]
  BY DEF ReadFloor, TypeInv, PassFitsStep, world, remote, durable, auth
<1>2. /\ pass'.pc = pc /\ pass'.scan = scan /\ pass'.total = total /\ pass'.persisted = f
      /\ pass'.max = pass.max /\ pass'.uid = pass.uid /\ pass'.gen = pass.gen
      /\ pass'.last = pass.last /\ pass'.chunk = pass.chunk
      /\ pass'.earliest = pass.earliest /\ pass'.processed = pass.processed
  BY <1>1 DEF TypeInv, TypeOK
<1>3. /\ pass.last = None /\ pass.chunk = {} /\ pass.earliest = None /\ pass.processed = 0
  BY <1>1 DEF TypeInv, PassFitsStep, Sending
<1>4. rows \in SUBSET Rows
  BY FieldTypes DEF Scanned, Reoffered
<1>5. IsFiniteSet(rows) /\ total \in Nat /\ (total = 0 => rows = {})
  BY <1>4, RowSets, FS_EmptySet DEF TypeInv
<1>6. scan # None => /\ pass.max # None /\ scan <= pass.max
                     /\ f # None => scan <= f
  BY <1>1, FieldTypes, NoneAssumption DEF ScanFloor, TimeOrNone
<1> HIDE DEF scan
<1>7. pc \in {"read", "commit", "end"} /\ (pc = "commit" => total = 0)
  BY <1>5
<1>8. StrandsNothing
  BY <1>1, StrandedUnchanged
<1>9. SameIsSignedIn' /\ WatermarkHolds'
  BY <1>1, <1>2, <1>7 DEF PassInv, SameIsSignedIn, WatermarkHolds, Same, SameGeneration, ReadSoFar
<1>10. ScanBelowFloor' /\ Protected' /\ RewindHolds'
  BY <1>1, <1>2, <1>3, <1>6, <1>7 DEF ScanBelowFloor, Protected, RewindHolds, Scanning
<1>11. ReadIsKept'
  BY <1>2, <1>3, <1>7 DEF ReadIsKept, Unparseable, Valid
<1>12. Behind' \subseteq rows
  BY <1>1, <1>2 DEF Behind, RowsAbove
<1>13. Cardinality(Behind') \in Nat /\ Cardinality(Behind') <= total
  BY <1>5, <1>12, FS_Subset, FS_CardinalityType
<1>14. CountReachesBehind'
  <2>1. CASE pc = "commit"
    BY <1>2, <1>5, <1>7, <1>12, <2>1 DEF CountReachesBehind, Sending
  <2>2. CASE pc # "commit"
    BY <1>2, <1>3, <1>5, <1>7, <1>13, <2>2 DEF CountReachesBehind, Sending
  <2> QED BY <2>1, <2>2
<1> QED BY <1>8, <1>9, <1>10, <1>11, <1>14 DEF PassInv

\* The next page has no gap, and what does not parse in it lowers the earliest time.
LEMMA ReadChunkHolds ==
  ASSUME IInv, ReadChunk
  PROVE  PassInv' /\ StrandsNothing
<1> USE DEF IInv
<1> DEFINE chunk == FirstRows(RowsAbove(pass), Chunk)
           earliest == Earlier(pass.earliest, Earliest(Unparseable(chunk)))
           lower == Unparseable(chunk) # {} /\ Earlier(pass.persisted, earliest) # pass.persisted
           pc == IF lower THEN "protect" ELSE "send"
<1>1. /\ pass.pc = "read" /\ pass.uid \in Accounts
      /\ UNCHANGED <<lake, clock, release, late, cloud, floor, done, account, generation>>
      /\ pass' = IF chunk = {} THEN [pass EXCEPT !.pc = "commit"]
                 ELSE [pass EXCEPT !.pc = pc, !.chunk = chunk, !.earliest = earliest]
  BY DEF ReadChunk, TypeInv, PassFitsStep, Scanning, world, remote, durable, auth
<1>2. pass.chunk = {} /\ Scanning /\ Scanning' = (pass'.pc \in {"read", "protect", "send", "batch", "commit"})
  BY <1>1 DEF TypeInv, PassFitsStep, Sending, Scanning
<1>3. RowsAbove(pass) \in SUBSET Rows
  BY FieldTypes DEF RowsAbove, Scanned, Reoffered
<1>4. /\ chunk \subseteq RowsAbove(pass)
      /\ \A s \in chunk : \A r \in RowsAbove(pass) : r <= s => r \in chunk
      /\ RowsAbove(pass) # {} => chunk # {}
  BY <1>3, FirstRowsProperties, BoundsAssumption
<1>5. StrandsNothing
  BY <1>1, StrandedUnchanged
<1>6. CASE chunk = {}
  <2>1. /\ pass'.pc = "commit" /\ pass'.uid = pass.uid /\ pass'.gen = pass.gen
        /\ pass'.max = pass.max /\ pass'.scan = pass.scan /\ pass'.last = pass.last
        /\ pass'.chunk = pass.chunk /\ pass'.earliest = pass.earliest
        /\ pass'.persisted = pass.persisted
    BY <1>1, <1>6 DEF TypeInv, TypeOK
  <2>2. SameIsSignedIn' /\ WatermarkHolds' /\ RewindHolds'
    BY <1>1, <2>1
    DEF PassInv, SameIsSignedIn, WatermarkHolds, RewindHolds, Same, SameGeneration, ReadSoFar
  <2>3. ScanBelowFloor' /\ Protected'
    BY <1>1, <2>1 DEF PassInv, ScanBelowFloor, Protected, Scanning
  <2>4. ReadIsKept'
    BY <1>1, <1>2, <2>1
    DEF PassInv, ReadIsKept, Same, SameGeneration, Scanning, Scanned, Reoffered, Kept, Unparseable, Valid
  <2>5. CountReachesBehind'
    BY <1>1, <1>4, <1>6, <2>1 DEF CountReachesBehind, Behind, RowsAbove, Scanned, Reoffered, Sending
  <2> QED BY <1>5, <2>2, <2>3, <2>4, <2>5 DEF PassInv
<1>7. CASE chunk # {}
  <2>1. /\ pass'.pc = pc /\ pass'.uid = pass.uid /\ pass'.gen = pass.gen
        /\ pass'.max = pass.max /\ pass'.scan = pass.scan /\ pass'.last = pass.last
        /\ pass'.chunk = chunk /\ pass'.earliest = earliest /\ pass'.total = pass.total
        /\ pass'.persisted = pass.persisted /\ pass'.processed = pass.processed
    BY <1>1, <1>7 DEF TypeInv, TypeOK
  <2>2. Unparseable(chunk) \in SUBSET Rows /\ Unparseable(chunk) \subseteq chunk
    BY <1>3, <1>4 DEF Unparseable
  <2>3. /\ earliest \in TimeOrNone
        /\ pass.earliest # None => earliest # None /\ earliest <= pass.earliest
        /\ \A r \in Unparseable(chunk) : earliest # None /\ earliest <= At[r]
        /\ earliest # None => earliest = pass.earliest \/ \E r \in chunk : earliest = At[r]
        /\ Unparseable(chunk) = {} => earliest = pass.earliest
    <3> DEFINE e == Earliest(Unparseable(chunk))
    <3>1. /\ pass.earliest \in TimeOrNone /\ e \in TimeOrNone
          /\ e = None <=> Unparseable(chunk) = {}
          /\ \A r \in Unparseable(chunk) : e <= At[r] /\ At[r] \in Nat
          /\ Unparseable(chunk) # {} => \E r \in chunk : e = At[r]
      BY <2>2, FieldTypes, EarliestProperties
    <3>2. /\ earliest \in {pass.earliest, e}
          /\ earliest = None <=> pass.earliest = None /\ e = None
          /\ pass.earliest # None => earliest <= pass.earliest
          /\ e # None => earliest <= e
      BY <3>1, EarlierProperties
    <3> HIDE DEF e, earliest
    <3> QED BY <3>1, <3>2, NoneAssumption DEF TimeOrNone
  <2> HIDE DEF chunk, earliest
  <2>4. pc \in {"protect", "send"}
    OBVIOUS
  <2>5. SameIsSignedIn' /\ RewindHolds' /\ WatermarkHolds'
    BY <1>1, <1>2, <2>1, <2>4
    DEF PassInv, SameIsSignedIn, WatermarkHolds, RewindHolds, Same, SameGeneration, ReadSoFar
  <2>6. ScanBelowFloor'
    <3>1. \A r \in chunk : pass.scan = None \/ pass.scan <= At[r]
      BY <1>3, <1>4, FieldTypes, NoneAssumption DEF RowsAbove, Scanned, Reoffered, TimeOrNone
    <3> QED BY <1>1, <1>2, <2>1, <2>3, <3>1 DEF PassInv, ScanBelowFloor
  <2>7. Protected'
    <3>1. /\ pass.persisted \in TimeOrNone
          /\ Earlier(pass.persisted, earliest) \in {pass.persisted, earliest}
          /\ Earlier(pass.persisted, earliest) = None <=> pass.persisted = None /\ earliest = None
          /\ pass.persisted # None => Earlier(pass.persisted, earliest) <= pass.persisted
          /\ earliest # None => Earlier(pass.persisted, earliest) <= earliest
      BY <2>3, FieldTypes, EarlierProperties
    <3> QED BY <1>1, <1>2, <2>1, <2>3, <2>4, <3>1 DEF PassInv, Protected
  <2>8. ReadIsKept'
    <3> SUFFICES ASSUME Same, NEW r \in Scanned(pass.scan, lake) \ late
        PROVE /\ r \in App /\ pass.last # None /\ r <= pass.last =>
                   r \in cloud[account] \/ (earliest # None /\ earliest <= At[r])
              /\ pass.last = None \/ r > pass.last => \A s \in chunk : r <= s => r \in chunk
              /\ r \in Unparseable(chunk) => earliest # None /\ earliest <= At[r]
      BY <1>1, <2>1, <2>4
      DEF ReadIsKept, Same, SameGeneration, Scanned, Reoffered, Kept, Unparseable, Parses
    <3>1. r \in Rows /\ At[r] \in Nat /\ pass.earliest \in TimeOrNone
      BY FieldTypes DEF Scanned, Reoffered
    <3>2. r \in App /\ pass.last # None /\ r <= pass.last => Kept(r)
      BY <1>2 DEF PassInv, ReadIsKept
    <3>3. pass.last = None \/ r > pass.last => r \in RowsAbove(pass)
      BY DEF RowsAbove
    <3> QED BY <1>4, <2>3, <3>1, <3>2, <3>3, NoneAssumption DEF Kept, TimeOrNone
  <2>9. Behind' = Behind
    BY <1>1, <2>1 DEF Behind, RowsAbove, Scanned, Reoffered
  <2>10. CountReachesBehind'
    BY <1>1, <2>1, <2>4, <2>9 DEF PassInv, CountReachesBehind, Sending
  <2> QED BY <1>5, <2>5, <2>6, <2>7, <2>8, <2>10 DEF PassInv
<1> QED BY <1>6, <1>7

\* The floor goes down before anything of the page is sent.
LEMMA ProtectUnparseableHolds ==
  ASSUME IInv, ProtectUnparseable
  PROVE  PassInv' /\ StrandsNothing
<1> USE DEF IInv
<1>1. /\ pass.pc = "protect" /\ Same /\ pass.uid \in Accounts /\ pass.earliest # None
      /\ UNCHANGED <<lake, clock, release, late, cloud, done, account, generation>>
      /\ pass' = [pass EXCEPT !.pc = "send", !.persisted = pass.earliest]
      /\ floor' = [floor EXCEPT ![pass.uid] = pass.earliest]
  BY DEF ProtectUnparseable, Protect, Same, TypeInv, PassFitsStep, Scanning, world, remote, auth
<1>2. /\ pass'.pc = "send" /\ pass'.uid = pass.uid /\ pass'.gen = pass.gen
      /\ pass'.max = pass.max /\ pass'.scan = pass.scan /\ pass'.last = pass.last
      /\ pass'.chunk = pass.chunk /\ pass'.earliest = pass.earliest /\ pass'.total = pass.total
      /\ pass'.persisted = pass.earliest /\ pass'.processed = pass.processed
      /\ floor'[pass.uid] = pass.earliest
      /\ \A a \in Accounts : a # pass.uid => floor'[a] = floor[a]
  BY <1>1 DEF TypeInv, TypeOK
<1>3. pass.persisted = floor[pass.uid] /\ (pass.persisted = None \/ pass.earliest <= pass.persisted)
  BY <1>1 DEF PassInv, ScanBelowFloor, Protected, Scanning
<1>4. StrandsNothing
  <2>1. ASSUME NEW a \in Accounts, NEW r \in Stranded(a)' PROVE r \in Stranded(a)
    <3>1. CASE a # pass.uid
      BY <1>1, <1>2, <2>1, <3>1 DEF Stranded
    <3>2. CASE a = pass.uid
      <4>1. At[r] < pass.earliest /\ At[r] \in Nat /\ pass.earliest \in Nat
            /\ floor[a] \in TimeOrNone
        BY <1>1, <1>2, <2>1, <3>2, FieldTypes DEF Stranded, TimeOrNone
      <4>2. floor[a] = None \/ At[r] < floor[a]
        BY <1>3, <3>2, <4>1 DEF TimeOrNone
      <4> QED BY <1>1, <2>1, <4>2 DEF Stranded
    <3> QED BY <3>1, <3>2
  <2> QED BY <2>1 DEF StrandsNothing
<1>5. SameIsSignedIn' /\ RewindHolds' /\ WatermarkHolds'
  BY <1>1, <1>2
  DEF PassInv, SameIsSignedIn, WatermarkHolds, RewindHolds, Same, SameGeneration, ReadSoFar
<1>6. ScanBelowFloor' /\ Protected'
  BY <1>1, <1>2, FieldTypes DEF PassInv, ScanBelowFloor, Protected, Scanning, TimeOrNone
<1>7. ReadIsKept'
  BY <1>1, <1>2
  DEF PassInv, ReadIsKept, Same, SameGeneration, Scanning, Scanned, Reoffered, Kept, Unparseable, Parses
<1>8. Behind' = Behind
  BY <1>1, <1>2 DEF Behind, RowsAbove, Scanned, Reoffered
<1>9. CountReachesBehind'
  BY <1>1, <1>2, <1>8 DEF PassInv, CountReachesBehind, Sending
<1> QED BY <1>4, <1>5, <1>6, <1>7, <1>9 DEF PassInv

\* A page is behind the pass once all of it that can be sent is in the collection.
LEMMA AfterChunkHolds ==
  ASSUME IInv, pass.pc \in {"send", "batch"}, pass' = AfterChunk(pass),
         UNCHANGED <<lake, clock, release, late, floor, done, account, generation>>,
         cloud' \in [Accounts -> SUBSET App],
         Same => /\ cloud[account] \subseteq cloud'[account]
                 /\ cloud'[account] \subseteq cloud[account] \cup pass.chunk
                 /\ \A r \in (Valid(pass.chunk) \cap Scanned(pass.scan, lake)) \ late : r \in cloud'[account]
  PROVE  PassInv'
<1> USE DEF IInv
<1> DEFINE last == AfterChunk(pass).last
           pc == AfterChunk(pass).pc
           processed == pass.processed + Cardinality(pass.chunk)
<1>1. /\ pass.chunk # {} /\ pass.chunk \subseteq RowsAbove(pass) /\ pass.uid \in Accounts
      /\ Scanning /\ Sending
  BY DEF TypeInv, PassFitsStep, Sending, Scanning
<1>2. /\ last \in pass.chunk /\ \A s \in pass.chunk : s <= last
      /\ pass' = [pass EXCEPT !.pc = pc, !.processed = processed, !.last = last,
                              !.chunk = {}, !.target = None, !.rest = {}]
      /\ pc = IF processed < pass.total THEN "read" ELSE "commit"
  BY <1>1, AfterChunkProperties DEF TypeInv
<1>3. /\ pass'.pc = pc /\ pass'.uid = pass.uid /\ pass'.gen = pass.gen
      /\ pass'.max = pass.max /\ pass'.scan = pass.scan /\ pass'.last = last
      /\ pass'.chunk = {} /\ pass'.earliest = pass.earliest /\ pass'.total = pass.total
      /\ pass'.persisted = pass.persisted /\ pass'.processed = processed
      /\ pc \in {"read", "commit"}
  BY <1>2 DEF TypeInv, TypeOK
<1> HIDE DEF last, pc
<1>4. /\ last \in Rows /\ last # None /\ last \in Nat
      /\ \A r \in Rows : r \in Nat /\ At[r] \in Nat
      /\ pass.last = None \/ last > pass.last
      /\ pass.last # None => pass.last \in Nat
  BY <1>1, <1>2, FieldTypes, NoneAssumption, RowsAssumption DEF RowsAbove
<1>5. SameIsSignedIn' /\ RewindHolds'
  BY <1>3 DEF PassInv, SameIsSignedIn, RewindHolds, Same, SameGeneration
<1>6. WatermarkHolds'
  <2>1. ASSUME Same, NEW d \in cloud'[account]
        PROVE  (pass.max # None /\ At[d] <= pass.max) \/ d <= last
    <3>1. account \in Accounts
      BY <1>1, <2>1 DEF PassInv, SameIsSignedIn
    <3>2. d \in Nat
      BY <1>4, <2>1, <3>1, RowsAssumption
    <3>3. CASE d \in pass.chunk
      BY <1>2, <3>3
    <3>4. CASE d \in cloud[account] \ pass.chunk
      <4>1. (pass.max # None /\ At[d] <= pass.max) \/ ReadSoFar(d)
        BY <2>1, <3>4 DEF PassInv, WatermarkHolds
      <4>2. ReadSoFar(d) => d <= last
        BY <1>2, <1>4, <3>2, FieldTypes DEF ReadSoFar
      <4> QED BY <4>1, <4>2
    <3> QED BY <2>1, <3>3, <3>4
  <2>2. Same => account # None /\ (pass.max # None => \E d \in cloud'[account] : At[d] = pass.max)
    BY DEF PassInv, WatermarkHolds
  <2>3. pass.max # None => pass.max <= clock
    BY DEF PassInv, WatermarkHolds
  <2>4. Same' => Same
    BY <1>3 DEF Same, SameGeneration
  <2> QED BY <1>3, <1>4, <2>1, <2>2, <2>3, <2>4 DEF WatermarkHolds, ReadSoFar
<1>7. ScanBelowFloor' /\ Protected'
  BY <1>1, <1>3 DEF PassInv, ScanBelowFloor, Protected, Scanning
<1>8. ReadIsKept'
  <2> SUFFICES ASSUME Same, NEW r \in Scanned(pass.scan, lake) \ late, r \in App, r <= last
               PROVE  r \in cloud'[account] \/ (pass.earliest # None /\ pass.earliest <= At[r])
    BY <1>3 DEF ReadIsKept, Same, SameGeneration, Scanned, Reoffered, Kept, Unparseable, Valid
  <2>1. r \in Rows /\ r \in Nat
    BY <1>4, RowsAssumption
  <2>2. CASE pass.last # None /\ r <= pass.last
    BY <1>1, <2>2 DEF PassInv, ReadIsKept, Kept
  <2>3. CASE pass.last = None \/ r > pass.last
    <3>1. r \in pass.chunk
      BY <1>1, <1>2, <2>3 DEF PassInv, ReadIsKept
    <3>2. r \in Valid(pass.chunk) \/ r \in Unparseable(pass.chunk)
      BY <3>1 DEF Valid, Unparseable
    <3> QED BY <1>1, <3>2 DEF PassInv, ReadIsKept
  <2> QED BY <1>4, <2>1, <2>2, <2>3
<1>9. CountReachesBehind'
  <2> SUFFICES ASSUME Behind' # {}
               PROVE  pc = "read" /\ processed + Cardinality(Behind') <= pass.total
    BY <1>3 DEF CountReachesBehind, Sending
  <2>1. PICK b \in Behind' : TRUE
    OBVIOUS
  <2>2. Behind' = {r \in RowsAbove(pass) : r > last /\ pass.max # None /\ At[r] < pass.max}
    <3>1. Scanned(pass.scan, lake) \subseteq Rows
      BY FieldTypes DEF Scanned, Reoffered
    <3>2. \A r \in Scanned(pass.scan, lake) : r > last => pass.last = None \/ r > pass.last
      <4> SUFFICES ASSUME NEW r \in Scanned(pass.scan, lake), r > last, pass.last # None
                   PROVE  r > pass.last
        OBVIOUS
      <4>1. r \in Nat /\ last \in Nat /\ pass.last \in Nat /\ last > pass.last
        BY <1>4, <3>1
      <4> QED BY <4>1
    <3>3. RowsAbove(pass)' = {r \in Scanned(pass.scan, lake) : r > last}
      BY <1>3, <1>4 DEF RowsAbove, Scanned, Reoffered
    <3>4. RowsAbove(pass)' = {r \in RowsAbove(pass) : r > last}
      BY <3>2, <3>3 DEF RowsAbove
    <3> QED BY <1>3, <3>4 DEF Behind
  <2>3. b \in Rows /\ b > last /\ pass.max \in Nat /\ At[b] < pass.max /\ pass.max # None
    BY <2>1, <2>2, FieldTypes DEF RowsAbove, Scanned, Reoffered, TimeOrNone
  <2>4. \A s \in pass.chunk : s \in Rows /\ s < b
    BY <1>2, <1>4, <2>3, FieldTypes
  <2>5. \A s \in pass.chunk : At[s] < pass.max
    <3>1. \A s \in pass.chunk : At[s] <= At[b]
      BY <2>3, <2>4, RowsAssumption
    <3>2. At[b] \in Nat /\ \A s \in pass.chunk : At[s] \in Nat
      BY <1>4, <2>3, <2>4
    <3> QED BY <2>3, <3>1, <3>2
  <2>6. pass.chunk \subseteq Behind
    BY <1>1, <2>3, <2>5 DEF Behind
  <2>7. Behind' \subseteq Behind \ pass.chunk
    BY <1>2, <1>4, <2>2, FieldTypes DEF Behind
  <2>8. IsFiniteSet(Behind) /\ Cardinality(Behind) \in Nat
    BY RowSets, FieldTypes DEF Behind, RowsAbove, Scanned, Reoffered, TypeInv
  <2>9. /\ Cardinality(Behind \ pass.chunk) = Cardinality(Behind) - Cardinality(pass.chunk)
        /\ IsFiniteSet(Behind \ pass.chunk)
        /\ Cardinality(pass.chunk) \in Nat
    <3>1. IsFiniteSet(pass.chunk) /\ IsFiniteSet(Behind \ pass.chunk)
      BY <2>6, <2>8, FS_Subset
    <3>2. Cardinality(Behind \ pass.chunk) = Cardinality(Behind) - Cardinality(Behind \cap pass.chunk)
      BY <2>8, <3>1, FS_Difference
    <3>3. Behind \cap pass.chunk = pass.chunk
      BY <2>6
    <3> QED BY <3>1, <3>2, <3>3, FS_CardinalityType
  <2>10. /\ Cardinality(Behind') <= Cardinality(Behind \ pass.chunk)
         /\ Cardinality(Behind') \in Nat /\ Cardinality(Behind') # 0
    BY <2>1, <2>7, <2>9, FS_Subset, FS_CardinalityType, FS_EmptySet
  <2>11. pass.processed + Cardinality(Behind) <= pass.total
    BY <1>1, <2>1, <2>7 DEF PassInv, CountReachesBehind
  <2>12. processed + Cardinality(Behind') <= pass.total /\ processed < pass.total
    BY <2>8, <2>9, <2>10, <2>11, FieldTypes
  <2> QED BY <1>2, <2>12
<1> QED BY <1>5, <1>6, <1>7, <1>8, <1>9 DEF PassInv

LEMMA SendChunkHolds ==
  ASSUME IInv, SendChunk
  PROVE  PassInv' /\ StrandsNothing
<1> USE DEF IInv
<1> DEFINE rest == Reoffered(pass.scan, Valid(pass.chunk))
<1>1. /\ pass.pc = "send" /\ pass.uid \in Accounts /\ Scanning /\ Sending
      /\ UNCHANGED <<lake, clock, release, late, cloud, floor, done, account, generation>>
  BY DEF SendChunk, TypeInv, PassFitsStep, Scanning, Sending, world, remote, durable, auth
<1>2. StrandsNothing
  BY <1>1, StrandedUnchanged
<1>3. CASE Valid(pass.chunk) = {}
  <2>1. pass' = AfterChunk(pass) /\ cloud' \in [Accounts -> SUBSET App]
    BY <1>1, <1>3 DEF SendChunk, TypeInv, TypeOK
  <2> QED BY <1>1, <1>2, <1>3, <2>1, AfterChunkHolds
<1>4. CASE Valid(pass.chunk) # {}
  <2>1. pass' = [pass EXCEPT !.pc = "batch", !.target = account, !.rest = rest]
    BY <1>4 DEF SendChunk
  <2>2. /\ pass'.pc = "batch" /\ pass'.uid = pass.uid /\ pass'.gen = pass.gen
        /\ pass'.max = pass.max /\ pass'.scan = pass.scan /\ pass'.last = pass.last
        /\ pass'.chunk = pass.chunk /\ pass'.earliest = pass.earliest /\ pass'.total = pass.total
        /\ pass'.persisted = pass.persisted /\ pass'.processed = pass.processed
        /\ pass'.target = account /\ pass'.rest = rest
    BY <2>1 DEF TypeInv, TypeOK
  <2>3. SameIsSignedIn' /\ RewindHolds' /\ WatermarkHolds'
    BY <1>1, <2>2
    DEF PassInv, SameIsSignedIn, WatermarkHolds, RewindHolds, Same, SameGeneration, ReadSoFar
  <2>4. ScanBelowFloor' /\ Protected'
    BY <1>1, <2>2 DEF PassInv, ScanBelowFloor, Protected, Scanning
  <2>5. ReadIsKept'
    <3> SUFFICES ASSUME Same, NEW r \in Scanned(pass.scan, lake) \ late
        PROVE /\ r \in App /\ pass.last # None /\ r <= pass.last => Kept(r)
              /\ pass.last = None \/ r > pass.last =>
                   \A s \in pass.chunk : r <= s => r \in pass.chunk
              /\ r \in Unparseable(pass.chunk) => pass.earliest # None /\ pass.earliest <= At[r]
              /\ r \notin Valid(pass.chunk) \ rest
      BY <1>1, <2>2
      DEF ReadIsKept, Same, SameGeneration, Scanned, Reoffered, Kept, Unparseable, Valid, Parses
    <3>1. r \notin Valid(pass.chunk) \ rest
      BY DEF Scanned, Reoffered
    <3> QED BY <1>1, <3>1 DEF PassInv, ReadIsKept
  <2>6. Behind' = Behind
    BY <1>1, <2>2 DEF Behind, RowsAbove, Scanned, Reoffered
  <2>7. CountReachesBehind'
    BY <1>1, <2>2, <2>6 DEF PassInv, CountReachesBehind, Sending
  <2> QED BY <1>2, <2>3, <2>4, <2>5, <2>7 DEF PassInv
<1> QED BY <1>3, <1>4

\* What a batch of an account's own pass puts ahead of a row, the row has been sent
\* before or with it, or is protected.
LEMMA StoreStrandsNothing ==
  ASSUME IInv, pass.pc = "batch", account = pass.target, Store(NextBatch(pass.rest)),
         UNCHANGED <<lake, late, floor, done>>
  PROVE  StrandsNothing
<1> USE DEF IInv
<1> DEFINE batch == NextBatch(pass.rest)
<1>1. /\ pass.target \in Accounts /\ pass.uid \in Accounts /\ Scanning /\ Sending
      /\ pass.rest \subseteq Valid(pass.chunk) /\ pass.chunk \subseteq RowsAbove(pass)
  BY DEF TypeInv, PassFitsStep, Scanning, Sending
<1>2. /\ batch \subseteq pass.rest /\ pass.rest \subseteq pass.chunk \cap App
      /\ \A s \in batch : \A r \in pass.rest : r <= s => r \in batch
  BY BatchIsOfChunk
<1> HIDE DEF batch
<1>3. /\ cloud'[account] = cloud[account] \cup batch
      /\ \A a \in Accounts : a # account => cloud'[a] = cloud[a]
  BY <1>1 DEF Store, TypeInv, TypeOK, batch
<1>4. ASSUME NEW a \in Accounts, a # account PROVE Stranded(a)' = Stranded(a)
  BY <1>3, <1>4 DEF Stranded
<1>5. CASE ~SameGeneration
  <2>1. account \in mixed'
    BY <1>5 DEF Store, SameGeneration
  <2> QED BY <1>4, <2>1 DEF StrandsNothing, durable
<1>6. CASE SameGeneration
  <2>1. Same /\ pass.uid = account /\ account \in Accounts
    BY <1>1, <1>6 DEF Same, PassInv, SameIsSignedIn
  <2> SUFFICES ASSUME NEW r \in lake \cap App, r \notin cloud'[account], done[account],
                      NEW d \in cloud'[account], At[d] > At[r],
                      floor[account] = None \/ At[r] < floor[account],
                      r \notin late, r \notin Stranded(account)
               PROVE  FALSE
    <3>1. ASSUME NEW a \in Accounts, a = account, NEW r \in Stranded(a)'
          PROVE  r \in Stranded(a) \cup late'
      BY <2>1, <3>1 DEF Stranded
    <3> QED BY <1>4, <3>1 DEF StrandsNothing
  <2>2. /\ r \in Rows /\ d \in Rows /\ r \in Nat /\ d \in Nat /\ At[r] \in Nat /\ At[d] \in Nat
        /\ r \notin cloud[account] /\ r \notin batch
    BY <1>2, <1>3, <2>1, FieldTypes
  <2>3. \A e \in cloud[account] : ~(At[e] > At[r])
    BY <1>3, <2>1, <2>2 DEF Stranded
  <2>4. d \in batch
    BY <1>3, <2>3
  <2>5. r <= d
    BY <2>2, RowsAssumption
  <2>6. r \in Scanned(pass.scan, lake)
    <3> SUFFICES ASSUME pass.scan # None, ~(At[r] >= pass.scan) PROVE FALSE
      BY DEF Scanned, Reoffered
    <3>1. /\ pass.max # None /\ pass.scan <= pass.max
          /\ \E e \in cloud[account] : At[e] = pass.max
      BY <1>1, <2>1 DEF PassInv, ScanBelowFloor, WatermarkHolds
    <3> QED BY <2>2, <2>3, <3>1, FieldTypes DEF TimeOrNone
  <2>7. ~(pass.earliest # None /\ pass.earliest <= At[r])
    <3> SUFFICES ASSUME pass.earliest # None, pass.earliest <= At[r] PROVE FALSE
      OBVIOUS
    <3>1. floor[account] # None /\ floor[account] <= pass.earliest
      BY <1>1, <2>1 DEF PassInv, Protected, ScanBelowFloor
    <3> QED BY <2>1, <2>2, <3>1, FieldTypes DEF TimeOrNone
  <2>8. ~(pass.last # None /\ r <= pass.last)
    BY <1>1, <2>1, <2>2, <2>6, <2>7 DEF PassInv, ReadIsKept, Kept
  <2>9. pass.last = None \/ r > pass.last
    BY <2>2, <2>8, FieldTypes
  <2>10. r \in pass.chunk
    BY <1>1, <1>2, <2>1, <2>4, <2>5, <2>6, <2>9 DEF PassInv, ReadIsKept
  <2>11. r \in Valid(pass.chunk)
    <3>1. r \notin Unparseable(pass.chunk)
      BY <1>1, <2>1, <2>6, <2>7 DEF PassInv, ReadIsKept
    <3> QED BY <2>10, <3>1 DEF Valid, Unparseable
  <2>12. r \in pass.rest
    BY <1>1, <2>1, <2>2, <2>6, <2>11 DEF PassInv, ReadIsKept
  <2> QED BY <1>2, <2>2, <2>4, <2>5, <2>12
<1> QED BY <1>5, <1>6

LEMMA WriteBatchHolds ==
  ASSUME IInv, WriteBatch
  PROVE  PassInv' /\ StrandsNothing
<1> USE DEF IInv
<1> DEFINE batch == NextBatch(pass.rest)
           rest == pass.rest \ batch
<1>1. /\ pass.pc = "batch" /\ account = pass.target /\ Store(batch) /\ account \in Accounts
      /\ pass.uid \in Accounts /\ Scanning /\ Sending
      /\ UNCHANGED <<lake, clock, release, late, floor, done, account, generation>>
      /\ pass' = IF rest = {} THEN AfterChunk(pass) ELSE [pass EXCEPT !.rest = rest]
  BY DEF WriteBatch, TypeInv, PassFitsStep, Scanning, Sending, world, durable, auth
<1>2. StrandsNothing
  BY <1>1, StoreStrandsNothing
<1>3. batch \subseteq pass.rest /\ pass.rest \subseteq pass.chunk
  BY <1>1, BatchIsOfChunk
<1> HIDE DEF batch
<1>4. cloud' \in [Accounts -> SUBSET App] /\ cloud'[account] = cloud[account] \cup batch
  BY <1>1, StoreTypes DEF Store, TypeInv, TypeOK, batch
<1>5. ASSUME Same, NEW r \in (Valid(pass.chunk) \cap Scanned(pass.scan, lake)) \ late, r \notin rest
      PROVE  r \in cloud'[account]
  BY <1>1, <1>4, <1>5 DEF PassInv, ReadIsKept
<1>6. CASE rest = {}
  <2>1. pass' = AfterChunk(pass)
    BY <1>1, <1>6
  <2>2. /\ cloud[account] \subseteq cloud'[account]
        /\ cloud'[account] \subseteq cloud[account] \cup pass.chunk
    BY <1>3, <1>4
  <2>3. Same => \A r \in (Valid(pass.chunk) \cap Scanned(pass.scan, lake)) \ late : r \in cloud'[account]
    BY <1>5, <1>6
  <2> HIDE DEF rest
  <2> QED BY <1>1, <1>2, <1>4, <2>1, <2>2, <2>3, AfterChunkHolds
<1>7. CASE rest # {}
  <2>1. pass' = [pass EXCEPT !.rest = rest]
    BY <1>1, <1>7
  <2>2. /\ pass'.pc = pass.pc /\ pass'.uid = pass.uid /\ pass'.gen = pass.gen
        /\ pass'.max = pass.max /\ pass'.scan = pass.scan /\ pass'.last = pass.last
        /\ pass'.chunk = pass.chunk /\ pass'.earliest = pass.earliest /\ pass'.total = pass.total
        /\ pass'.persisted = pass.persisted /\ pass'.processed = pass.processed
        /\ pass'.target = pass.target /\ pass'.rest = rest
    BY <2>1 DEF TypeInv, TypeOK
  <2>3. SameIsSignedIn' /\ RewindHolds'
    BY <1>1, <2>2 DEF PassInv, SameIsSignedIn, RewindHolds, Same, SameGeneration
  <2>4. WatermarkHolds'
    <3>1. ASSUME NEW d \in batch PROVE \E s \in pass.chunk : d <= s
      <4>1. d \in pass.chunk /\ d \in Nat
        BY <1>3, FieldTypes
      <4> QED BY <4>1
    <3> QED BY <1>1, <1>4, <2>2, <3>1
      DEF PassInv, WatermarkHolds, Same, SameGeneration, ReadSoFar
  <2>5. ScanBelowFloor' /\ Protected'
    BY <1>1, <2>2 DEF PassInv, ScanBelowFloor, Protected, Scanning
  <2>6. ReadIsKept'
    <3> HIDE DEF rest
    <3> SUFFICES ASSUME Same, NEW r \in Scanned(pass.scan, lake) \ late
        PROVE /\ r \in App /\ pass.last # None /\ r <= pass.last =>
                   r \in cloud'[account] \/ (pass.earliest # None /\ pass.earliest <= At[r])
              /\ pass.last = None \/ r > pass.last =>
                   \A s \in pass.chunk : r <= s => r \in pass.chunk
              /\ r \in Unparseable(pass.chunk) => pass.earliest # None /\ pass.earliest <= At[r]
              /\ r \in Valid(pass.chunk) \ rest => r \in cloud'[account]
      BY <1>1, <2>2
      DEF ReadIsKept, Same, SameGeneration, Scanned, Reoffered, Kept, Unparseable, Valid, Parses
    <3> QED BY <1>1, <1>4, <1>5 DEF PassInv, ReadIsKept, Kept
  <2>7. Behind' = Behind
    BY <1>1, <2>2 DEF Behind, RowsAbove, Scanned, Reoffered
  <2>8. CountReachesBehind'
    BY <1>1, <2>2, <2>7 DEF PassInv, CountReachesBehind, Sending
  <2> QED BY <1>2, <2>3, <2>4, <2>5, <2>6, <2>8 DEF PassInv
<1> QED BY <1>6, <1>7

\* When the floor goes up, every row the scan has covered is kept.
LEMMA CommitFloorHolds ==
  ASSUME IInv, CommitFloor
  PROVE  PassInv' /\ StrandsNothing
<1> USE DEF IInv
<1>1. /\ pass.pc = "commit" /\ Same /\ Scanning /\ pass.uid \in Accounts
      /\ UNCHANGED <<lake, clock, late, cloud, done, account, generation>>
      /\ pass' = [pass EXCEPT !.pc = "end"]
      /\ floor' = [floor EXCEPT ![pass.uid] = pass.earliest]
  BY DEF CommitFloor, Same, Scanning, TypeInv, PassFitsStep, world, remote, auth
<1>2. /\ pass'.pc = "end" /\ pass'.uid = pass.uid /\ pass'.gen = pass.gen
      /\ pass'.max = pass.max /\ pass'.last = pass.last /\ pass'.chunk = pass.chunk
      /\ floor'[pass.uid] = pass.earliest
      /\ \A a \in Accounts : a # pass.uid => floor'[a] = floor[a]
  BY <1>1 DEF TypeInv, TypeOK
<1>3. pass.uid = account /\ pass.chunk = {} /\ Behind = {}
  BY <1>1 DEF PassInv, SameIsSignedIn, CountReachesBehind, TypeInv, PassFitsStep, Sending
<1>4. SameIsSignedIn' /\ RewindHolds' /\ WatermarkHolds'
  BY <1>1, <1>2
  DEF PassInv, SameIsSignedIn, WatermarkHolds, RewindHolds, Same, SameGeneration, ReadSoFar
<1>5. ScanBelowFloor' /\ Protected' /\ ReadIsKept' /\ CountReachesBehind'
  BY <1>2 DEF ScanBelowFloor, Protected, ReadIsKept, CountReachesBehind, Scanning, Sending
<1>6. ASSUME NEW a \in Accounts, a # account PROVE Stranded(a)' = Stranded(a)
  BY <1>1, <1>2, <1>3, <1>6 DEF Stranded
<1>7. ASSUME NEW r \in lake \cap App, r \notin cloud[account], done[account],
             NEW d \in cloud[account], At[d] > At[r],
             pass.earliest = None \/ At[r] < pass.earliest,
             r \notin late, r \notin Stranded(account)
      PROVE  FALSE
  <2>1. /\ r \in Rows /\ d \in Rows /\ r \in Nat /\ d \in Nat /\ At[r] \in Nat /\ At[d] \in Nat
        /\ floor[account] \in TimeOrNone
    BY <1>1, <1>3, FieldTypes
  <2>2. floor[account] # None /\ ~(At[r] < floor[account])
    BY <1>7 DEF Stranded
  <2>3. r \in Scanned(pass.scan, lake)
    <3>1. pass.scan # None => pass.scan <= floor[account]
      BY <1>1, <1>3, <2>2 DEF PassInv, ScanBelowFloor
    <3> QED BY <2>1, <2>2, <3>1, FieldTypes DEF Scanned, Reoffered, TimeOrNone
  <2>4. ~(pass.earliest # None /\ pass.earliest <= At[r])
    BY <1>7, <2>1, FieldTypes DEF TimeOrNone
  <2>5. ~(pass.last # None /\ r <= pass.last)
    BY <1>1, <1>7, <2>3, <2>4 DEF PassInv, ReadIsKept, Kept
  <2>6. r \in RowsAbove(pass)
    BY <2>1, <2>3, <2>5, FieldTypes DEF RowsAbove
  <2>7. ~(pass.max # None /\ At[r] < pass.max)
    BY <1>3, <2>6 DEF Behind
  <2>8. ReadSoFar(d)
    <3>1. (pass.max # None /\ At[d] <= pass.max) \/ ReadSoFar(d)
      BY <1>1 DEF PassInv, WatermarkHolds
    <3> QED BY <1>7, <2>1, <2>7, <3>1, FieldTypes DEF TimeOrNone
  <2>9. pass.last # None /\ d <= pass.last
    BY <1>3, <2>8 DEF ReadSoFar
  <2>10. d < r
    BY <2>1, <2>5, <2>9, FieldTypes
  <2> QED BY <1>7, <2>1, <2>10, RowsAssumption
<1>8. ASSUME NEW a \in Accounts, a = account, NEW r \in Stranded(a)'
      PROVE  r \in Stranded(a) \cup late'
  BY <1>1, <1>2, <1>3, <1>7, <1>8 DEF Stranded
<1>9. StrandsNothing
  BY <1>6, <1>8 DEF StrandsNothing
<1> QED BY <1>4, <1>5, <1>9 DEF PassInv

\* A pass that ends, whether it is done, refused, failed or forgotten, strands nothing.
LEMMA PassEndsHolds ==
  ASSUME IInv, EndPass \/ AbortPass \/ FailPass \/ Restart \/ LoseAnswer
  PROVE  PassInv' /\ StrandsNothing
<1>1. PassInv'
  BY PassEnds DEF IInv, EndPass, AbortPass, FailPass, Restart, LoseAnswer
<1>2. CASE EndPass \/ AbortPass \/ FailPass \/ Restart
  BY <1>1, <1>2, StrandedUnchanged
  DEF EndPass, AbortPass, FailPass, Restart, world, remote, durable
<1>3. CASE LoseAnswer
  BY <1>1, <1>3, StoreStrandsNothing DEF LoseAnswer, world, durable
<1> QED BY <1>2, <1>3

LEMMA UpdateExtensionHolds ==
  ASSUME IInv, UpdateExtension
  PROVE  PassInv' /\ StrandsNothing
<1>1. pass.pc = "none" /\ UNCHANGED <<lake, clock, cloud, done, floor, pass>>
  BY DEF UpdateExtension, remote, durable
<1> QED BY <1>1, NothingInHand, StrandedUnchanged DEF IInv

LEMMA NothingHappens ==
  ASSUME IInv, UNCHANGED vars
  PROVE  PassInv' /\ StrandsNothing
<1>1. UNCHANGED <<lake, clock, release, cloud, floor, done, account, generation, pass, late>>
  BY DEF vars
<1>2. StrandsNothing
  BY <1>1, StrandedUnchanged
<1>3. SameIsSignedIn' /\ WatermarkHolds' /\ RewindHolds' /\ ScanBelowFloor' /\ Protected'
  BY <1>1
  DEF IInv, PassInv, SameIsSignedIn, WatermarkHolds, RewindHolds, ScanBelowFloor, Protected,
      Same, SameGeneration, ReadSoFar, Scanning
<1>4. ReadIsKept'
  BY <1>1
  DEF IInv, PassInv, ReadIsKept, Same, SameGeneration, Scanning, Scanned, Reoffered, Kept,
      Unparseable, Valid, Parses
<1>5. Behind' = Behind
  BY <1>1 DEF Behind, RowsAbove, Scanned, Reoffered
<1>6. CountReachesBehind'
  BY <1>1, <1>5 DEF IInv, PassInv, CountReachesBehind, Sending
<1> QED BY <1>2, <1>3, <1>4, <1>6 DEF PassInv

-----------------------------------------------------------------------------
(* The theorems.                                                           *)

LEMMA StepHolds ==
  ASSUME IInv, [Next]_vars
  PROVE  IInv' /\ StrandsNothing
<1>1. TypeInv' /\ NothingAhead'
  BY TypesOfSteps, NothingAheadOfSteps DEF IInv
<1>2. ASSUME PassNext PROVE PassInv' /\ StrandsNothing
  BY <1>2, StartPassHolds, ReadWatermarkHolds, BackfillHolds, MarkBackfillDoneHolds, ReadFloorHolds,
     ReadChunkHolds, ProtectUnparseableHolds, SendChunkHolds, WriteBatchHolds, CommitFloorHolds,
     PassEndsHolds DEF PassNext
<1>3. PassInv' /\ StrandsNothing
  BY <1>2, LiveRowStrandsNothing, ImportRowsStrandsNothing, SwitchAccountStrandsNothing,
     PassEndsHolds, UpdateExtensionHolds, NothingHappens DEF Next
<1> QED BY <1>1, <1>3 DEF IInv

LEMMA InvAtStart == Init => IInv /\ OwnPassStrandsNothing
<1> SUFFICES ASSUME Init PROVE IInv /\ OwnPassStrandsNothing
  OBVIOUS
<1>1. TypeInv
  BY TypesAtStart
<1>2. NothingAhead
  BY DEF Init, NothingAhead
<1>3. pass.pc = "none" /\ pass.max = None
  BY DEF Init, NoPass
<1>4. SameIsSignedIn /\ WatermarkHolds /\ RewindHolds /\ ScanBelowFloor
  BY <1>3 DEF SameIsSignedIn, WatermarkHolds, RewindHolds, ScanBelowFloor, Same, Scanning
<1>5. Protected /\ ReadIsKept /\ CountReachesBehind
  BY <1>3 DEF Protected, ReadIsKept, CountReachesBehind, Scanning, Sending
<1>6. OwnPassStrandsNothing
  BY DEF Init, OwnPassStrandsNothing, Stranded
<1> QED BY <1>1, <1>2, <1>4, <1>5, <1>6 DEF IInv, PassInv

\* Marks and history rows are only ever added.
LEMMA HistoryGrows ==
  ASSUME [Next]_vars
  PROVE  late \subseteq late' /\ mixed \subseteq mixed'
BY DEF Next, PassNext, StartPass, ReadWatermark, Backfill, MarkBackfillDone, ReadFloor, ReadChunk,
   ProtectUnparseable, Protect, SendChunk, WriteBatch, LoseAnswer, Store, CommitFloor, EndPass, AbortPass,
   FailPass, LiveRow, ImportRows, SwitchAccount, Restart, UpdateExtension, world, remote, vars

THEOREM Inductive == Spec => []IInv
<1>1. IInv /\ [Next]_vars => IInv'
  BY StepHolds
<1> QED BY <1>1, InvAtStart, PTL DEF Spec

\* Every variable stays in its type.
THEOREM TypeCorrect == Spec => []TypeOK
BY Inductive, PTL DEF IInv, TypeInv

\* The passes of an account never strand a row of it.
THEOREM OwnPassesStrandNothing == Spec => []OwnPassStrandsNothing
<1>1. IInv /\ OwnPassStrandsNothing /\ [Next]_vars => OwnPassStrandsNothing'
  BY StepHolds, HistoryGrows DEF OwnPassStrandsNothing, StrandsNothing
<1> QED BY <1>1, InvAtStart, Inductive, PTL DEF Spec

\* A floor or a marker is only ever written when that hides no row but a late one.
THEOREM BookkeepingIsSafe == Spec => BookkeepingStrandsNothing
<1>1. IInv /\ [Next]_vars =>
        [\A a \in Accounts : floor'[a] # floor[a] \/ done'[a] # done[a] =>
           Stranded(a)' \subseteq Stranded(a) \cup late']_vars
  BY StepHolds DEF StrandsNothing, durable
<1> QED BY <1>1, Inductive, PTL DEF Spec, BookkeepingStrandsNothing

-----------------------------------------------------------------------------
(***************************************************************************)
(* AccountSync.  Its properties follow from what a call of initialize() and a   *)
(* pass hold between two awaits: a generation that is still the current one    *)
(* means that the account noted with it is signed in.                          *)
(***************************************************************************)
\* A pass that runs notes an account of a generation that has been; if it is the current one,
\* the account is signed in and has been all along.
SyncNotes ==
  sync.pc \in {"work", "write", "stamps"} =>
    /\ sync.gen <= epoch
    /\ sync.gen = epoch => sync.user = UserNow /\ ~sync.strayed
\* A sync that is over is stamped with the account it was for.
SyncIsStamped ==
  sync.pc \in {"write", "stamps"} => sync.user \in Users /\ sync.time = sync.user

Reading(i) == inits[i].pc \in {"read", "removed", "stamps"}
\* So does a call of initialize().
InitNotes(i) ==
  Reading(i) =>
    /\ inits[i].user \in Users /\ inits[i].gen <= epoch
    /\ inits[i].gen = epoch => inits[i].user = UserNow
\* The time it will show is its account's own, or the unattributed one it was given.
InitTime(i) ==
  Reading(i) =>
    \/ inits[i].time \in {"unset", inits[i].user}
    \/ inits[i].time = "legacy" /\ inits[i].user \in heirs
\* While it may still give the unattributed time away, nobody else has been given it.
InitMigrates(i) ==
  /\ inits[i].pc \in {"read", "removed"} /\ inits[i].legacy # "unset" /\ inits[i].gen = epoch
       => heirs \subseteq {inits[i].user}
  /\ inits[i].pc = "removed" => inits[i].legacy = "legacy" /\ legacy = "unset"
InitsInOrder == \A i \in Calls : InitNotes(i) /\ InitTime(i) /\ InitMigrates(i)

AccountInv ==
  /\ AccountTypeOK /\ SyncNotes /\ SyncIsStamped /\ InitsInOrder
  /\ ShownIsOfTheLiveAccount /\ StoredTimesAreEarned /\ LegacyHasOneHeir

LEMMA AccountInvInit == AccountInit => AccountInv
<1> SUFFICES ASSUME AccountInit PROVE AccountInv
  OBVIOUS
<1> USE CallsAssumption, UsersAssumption
<1>1. NoInit \in InitRecord /\ NoSync \in SyncRecord
  BY DEF NoInit, NoSync, InitRecord, SyncRecord, SyncTimes
<1>2. AccountTypeOK
  <2>1. inits \in [Calls -> InitRecord] /\ sync \in SyncRecord
    BY <1>1 DEF AccountInit
  <2>2. scoped \in [Users -> SyncTimes]
    BY DEF AccountInit, SyncTimes
  <2> QED
    BY <2>1, <2>2 DEF AccountInit, AccountTypeOK, SessionInit, SyncTimes
<1>3. SyncNotes /\ SyncIsStamped
  BY DEF AccountInit, SyncNotes, SyncIsStamped, NoSync
<1>4. InitsInOrder
  BY DEF AccountInit, InitsInOrder, InitNotes, InitTime, InitMigrates, Reading, NoInit
<1>5. ShownIsOfTheLiveAccount /\ StoredTimesAreEarned /\ LegacyHasOneHeir
  BY DEF AccountInit, ShownIsOfTheLiveAccount, StoredTimesAreEarned, LegacyHasOneHeir
<1> QED
  BY <1>2, <1>3, <1>4, <1>5 DEF AccountInv

\* The account changes with the generation only, which never goes back but with the worker.
Forward == epoch' \in Nat /\ epoch' >= epoch /\ (epoch' = epoch => live' = live)

LEMMA NotesOutlive ==
  ASSUME AccountInv, Forward
  PROVE  UserNow' = UserNow \/ epoch' > epoch
BY DEF AccountInv, AccountTypeOK, Forward, UserNow

\* What a step does that ends or begins calls of initialize(), or leaves them alone.
LEMMA InitsStay ==
  ASSUME AccountInv, Forward, heirs' = heirs, legacy' \in {legacy, "unset"},
         \A j \in Calls : inits'[j] = inits[j] \/ ~Reading(j)'
  PROVE  InitsInOrder'
<1> SUFFICES ASSUME NEW j \in Calls PROVE (InitNotes(j) /\ InitTime(j) /\ InitMigrates(j))'
  BY DEF InitsInOrder
<1>1. InitNotes(j) /\ InitTime(j) /\ InitMigrates(j)
  BY DEF AccountInv, InitsInOrder
<1>2. CASE ~Reading(j)'
  BY <1>2 DEF InitNotes, InitTime, InitMigrates, Reading
<1>3. CASE inits'[j] = inits[j]
  <2>1. UserNow' = UserNow \/ epoch' > epoch
    BY NotesOutlive
  <2>2. inits[j].gen \in Nat /\ epoch \in Nat
    BY DEF AccountInv, AccountTypeOK, InitRecord
  <2>3. InitNotes(j)'
    BY <1>1, <1>3, <2>1, <2>2 DEF InitNotes, Reading, Forward
  <2>4. InitTime(j)'
    BY <1>1, <1>3 DEF InitTime, Reading
  <2>5. InitMigrates(j)'
    <3>1. CASE inits[j].gen = epoch'
      <4>1. inits[j].pc \in {"read", "removed"} => inits[j].gen = epoch
        BY <1>1, <2>2, <3>1 DEF InitNotes, Reading, Forward
      <4> QED
        BY <1>1, <1>3, <4>1 DEF InitMigrates
    <3>2. CASE inits[j].gen # epoch'
      BY <1>1, <1>3, <3>2 DEF InitMigrates
    <3> QED
      BY <3>1, <3>2
  <2> QED
    BY <2>3, <2>4, <2>5
<1> QED
  BY <1>2, <1>3

\* What a step does that leaves the pass alone, or has it stray as the generation changes.
LEMMA SyncStays ==
  ASSUME AccountInv, Forward,
         \/ sync'.pc \in {"none", "ready"}
         \/ /\ sync'.pc = sync.pc /\ sync'.user = sync.user /\ sync'.gen = sync.gen
            /\ sync'.time = sync.time
            /\ sync'.strayed = sync.strayed \/ epoch' > epoch
  PROVE  SyncNotes' /\ SyncIsStamped'
<1>1. UserNow' = UserNow \/ epoch' > epoch
  BY NotesOutlive
<1>2. sync.gen \in Nat /\ epoch \in Nat
  BY DEF AccountInv, AccountTypeOK, SyncRecord
<1>3. SyncNotes /\ SyncIsStamped
  BY DEF AccountInv
<1>4. SyncNotes'
  BY <1>1, <1>2, <1>3 DEF SyncNotes, Forward
<1>5. SyncIsStamped'
  BY <1>3 DEF SyncIsStamped, Users
<1> QED
  BY <1>4, <1>5

LEMMA StoredStays ==
  ASSUME AccountInv, scoped' = scoped, heirs' = heirs, legacy' \in {legacy, "unset"}
  PROVE  StoredTimesAreEarned' /\ LegacyHasOneHeir'
BY DEF AccountInv, StoredTimesAreEarned, LegacyHasOneHeir, Users

LEMMA ShownStays ==
  ASSUME AccountInv, shown' = "unset" \/ (shown' = shown /\ live' = live), heirs \subseteq heirs'
  PROVE  ShownIsOfTheLiveAccount'
BY DEF AccountInv, ShownIsOfTheLiveAccount

\* The steps that write no time: the account, the latch and the slot.
LEMMA QuietStep ==
  ASSUME AccountInv, AccountTypeOK', Forward, UNCHANGED <<scoped, heirs>>,
         legacy' \in {legacy, "unset"},
         shown' = "unset" \/ (shown' = shown /\ live' = live),
         \A j \in Calls : inits'[j] = inits[j] \/ ~Reading(j)',
         \/ sync'.pc \in {"none", "ready"}
         \/ /\ sync'.pc = sync.pc /\ sync'.user = sync.user /\ sync'.gen = sync.gen
            /\ sync'.time = sync.time
            /\ sync'.strayed = sync.strayed \/ epoch' > epoch
  PROVE  AccountInv'
<1>1. InitsInOrder'
  BY InitsStay
<1>2. SyncNotes' /\ SyncIsStamped'
  BY SyncStays
<1>3. StoredTimesAreEarned' /\ LegacyHasOneHeir'
  BY StoredStays
<1>4. ShownIsOfTheLiveAccount'
  BY ShownStays
<1> QED
  BY <1>1, <1>2, <1>3, <1>4 DEF AccountInv

-----------------------------------------------------------------------------
LEMMA RecordsAreTyped == NoInit \in InitRecord /\ NoSync \in SyncRecord
BY DEF NoInit, NoSync, InitRecord, SyncRecord, SyncTimes

LEMMA AgainTyped ==
  ASSUME NEW r \in InitRecord
  PROVE  [r EXCEPT !.pc = "ready", !.attempt = @ + 1] \in InitRecord
<1>1. PICK n \in Nat : n = r.attempt + 1
  BY DEF InitRecord
<1>2. [r EXCEPT !.pc = "ready", !.attempt = n] \in InitRecord
  BY DEF InitRecord
<1> QED
  BY <1>1, <1>2

LEMMA StartTyped ==
  ASSUME AccountTypeOK, NEW i \in Calls, StartsInit(i)
  PROVE  /\ inits' \in [Calls -> InitRecord]
         /\ \A j \in Calls : inits'[j] = inits[j] \/ ~Reading(j)'
BY DEF AccountTypeOK, StartsInit, InitRecord, Reading

LEMMA EndsTyped ==
  ASSUME AccountTypeOK, SyncEnds
  PROVE  /\ inits' \in [Calls -> InitRecord] /\ sync' \in SyncRecord /\ sync'.pc = "none"
         /\ \A j \in Calls : inits'[j] = inits[j] \/ ~Reading(j)'
<1>1. sync' \in SyncRecord /\ sync'.pc = "none"
  BY RecordsAreTyped DEF SyncEnds, NoSync
<1>2. ASSUME NEW j \in Calls PROVE Ended(j) \in InitRecord
  <2>1. inits[j] \in InitRecord
    BY DEF AccountTypeOK
  <2>2. [inits[j] EXCEPT !.pc = "ready", !.attempt = @ + 1] \in InitRecord
    BY <2>1, AgainTyped
  <2>3. [inits[j] EXCEPT !.pc = "tried"] \in InitRecord
    BY <2>1 DEF InitRecord
  <2> QED
    BY <2>1, <2>2, <2>3 DEF Ended
<1>3. ASSUME NEW j \in Calls PROVE Ended(j) = inits[j] \/ Ended(j).pc \in {"ready", "tried"}
  BY DEF Ended, AccountTypeOK, InitRecord
<1> QED
  BY <1>1, <1>2, <1>3 DEF SyncEnds, Reading

LEMMA StraysTyped ==
  ASSUME AccountTypeOK, NEW who \in Users \cup {Nobody}, Strays(who)
  PROVE  /\ sync' \in SyncRecord
         /\ sync'.pc = sync.pc /\ sync'.user = sync.user /\ sync'.gen = sync.gen
         /\ sync'.time = sync.time
BY DEF AccountTypeOK, Strays, SyncRecord

LEMMA TransitionTyped ==
  ASSUME AccountTypeOK, NEW signedIn \in BOOLEAN, NEW source, Transition(signedIn, source)
  PROVE  /\ inits' \in [Calls -> InitRecord] /\ seen' \in {"none", "out", "in"}
         /\ \A j \in Calls : inits'[j] = inits[j] \/ ~Reading(j)'
<1>1. seen' \in {"none", "out", "in"}
  BY DEF Transition
<1>2. CASE \E i \in Calls : StartsInit(i)
  BY <1>1, <1>2, StartTyped
<1>3. CASE UNCHANGED inits
  BY <1>1, <1>3 DEF AccountTypeOK
<1> QED
  BY <1>2, <1>3 DEF Transition

LEMMA SessionStepsKeep ==
  ASSUME AccountInv, SessionSteps
  PROVE  AccountInv'
<1> USE DEF listeners, storedTimes, troubles, sessionVars
<1>1. AccountTypeOK
  BY DEF AccountInv
<1>2. "unset" \in SyncTimes /\ epoch \in Nat
  BY <1>1 DEF SyncTimes, AccountTypeOK
<1>3. ASSUME NEW who \in Logins \cup {Nobody}, Restore(who) PROVE AccountInv'
  <2>1. Transition(who # Nobody, "restore")
    BY <1>3 DEF Restore
  <2>2. /\ inits' \in [Calls -> InitRecord] /\ seen' \in {"none", "out", "in"}
        /\ \A j \in Calls : inits'[j] = inits[j] \/ ~Reading(j)'
    BY <1>1, <2>1, TransitionTyped
  <2>3. AccountTypeOK'
    BY <1>1, <1>2, <1>3, <2>2 DEF AccountTypeOK, Restore, Restored, ForgetTime
  <2>4. Forward /\ shown' = "unset" /\ sync' = sync
    BY <1>2, <1>3 DEF Restore, Restored, Forward, ForgetTime
  <2> QED
    BY <1>3, <2>2, <2>3, <2>4, QuietStep DEF Restore
<1>4. ASSUME RestoreRejected PROVE AccountInv'
  <2>1. Transition(FALSE, "restore")
    BY <1>4 DEF RestoreRejected
  <2>2. /\ inits' \in [Calls -> InitRecord] /\ seen' \in {"none", "out", "in"}
        /\ \A j \in Calls : inits'[j] = inits[j] \/ ~Reading(j)'
    BY <1>1, <2>1, TransitionTyped
  <2>3. AccountTypeOK'
    BY <1>1, <1>2, <1>4, <2>2 DEF AccountTypeOK, RestoreRejected, ForgetTime, Fault
  <2>4. Forward /\ shown' = "unset" /\ sync' = sync
    BY <1>2, <1>4 DEF RestoreRejected, Forward, ForgetTime
  <2> QED
    BY <1>4, <2>2, <2>3, <2>4, QuietStep DEF RestoreRejected
<1>5. ASSUME NEW l \in Logins, SignIn(l) PROVE AccountInv'
  <2>1. PICK i \in Calls : StartsInit(i)
    BY <1>5 DEF SignIn
  <2>2. /\ inits' \in [Calls -> InitRecord]
        /\ \A j \in Calls : inits'[j] = inits[j] \/ ~Reading(j)'
    BY <1>1, <2>1, StartTyped
  <2>3. /\ sync' \in SyncRecord
        /\ sync'.pc = sync.pc /\ sync'.user = sync.user /\ sync'.gen = sync.gen
        /\ sync'.time = sync.time
    BY <1>1, <1>5, StraysTyped DEF SignIn, Users
  <2>4. AccountTypeOK'
    BY <1>1, <1>2, <1>5, <2>2, <2>3 DEF AccountTypeOK, SignIn, SignedIn, ForgetTime
  <2>5. Forward /\ shown' = "unset" /\ epoch' > epoch
    BY <1>2, <1>5 DEF SignIn, SignedIn, Forward, ForgetTime
  <2> QED
    BY <1>5, <2>2, <2>3, <2>4, <2>5, QuietStep DEF SignIn
<1>6. ASSUME SignOutEnds PROVE AccountInv'
  <2>1. Transition(FALSE, "sign-out") /\ Strays(Nobody)
    BY <1>6 DEF SignOutEnds
  <2>2. /\ inits' \in [Calls -> InitRecord] /\ seen' \in {"none", "out", "in"}
        /\ \A j \in Calls : inits'[j] = inits[j] \/ ~Reading(j)'
    BY <1>1, <2>1, TransitionTyped
  <2>3. /\ sync' \in SyncRecord
        /\ sync'.pc = sync.pc /\ sync'.user = sync.user /\ sync'.gen = sync.gen
        /\ sync'.time = sync.time
    BY <1>1, <2>1, StraysTyped
  <2>4. AccountTypeOK'
    BY <1>1, <1>2, <1>6, <2>2, <2>3 DEF AccountTypeOK, SignOutEnds, SignedOut, ForgetTime
  <2>5. Forward /\ shown' = "unset" /\ epoch' > epoch
    BY <1>2, <1>6 DEF SignOutEnds, SignedOut, Forward, ForgetTime
  <2> QED
    BY <1>6, <2>2, <2>3, <2>4, <2>5, QuietStep DEF SignOutEnds
<1>7. ASSUME AskSignOut \/ SignOutGoesOn \/ SignOutRefused PROVE AccountInv'
  <2>1. /\ Forward /\ live' = live /\ sync' = sync /\ inits' = inits /\ shown' = shown
        /\ UNCHANGED <<scoped, heirs, legacy>>
    BY <1>2, <1>7 DEF AskSignOut, SignOutGoesOn, SignOutRefused, SignOutAsked, SignOutRemoves,
                      SignOutSettled, SignOutFails, Forward
  <2>2. AccountTypeOK'
    BY <1>1, <1>7, <2>1 DEF AccountTypeOK, AskSignOut, SignOutGoesOn, SignOutRefused, SignOutAsked,
                 SignOutRemoves, SignOutSettled, SignOutFails, Fault
  <2> QED
    BY <2>1, <2>2, QuietStep
<1>8. ASSUME AnswerSignOut \/ BootGivesUp PROVE AccountInv'
  <2>1. /\ Forward /\ live' = live /\ sync' = sync /\ inits' = inits
        /\ shown' \in {shown, "unset"} /\ UNCHANGED <<scoped, heirs, legacy>>
    BY <1>2, <1>8 DEF AnswerSignOut, BootGivesUp, Forward, ForgetTime
  <2>2. AccountTypeOK'
    <3>1. replies' \in BOOLEAN /\ boot' \in BOOLEAN /\ shown' \in SyncTimes
      BY <1>1, <1>2, <1>8, <2>1 DEF AccountTypeOK, AnswerSignOut, BootGivesUp
    <3>2. faults' \in Nat /\ blocks' \in Nat /\ stops' \in Nat
      BY <1>1, <1>8 DEF AccountTypeOK, AnswerSignOut, BootGivesUp, Fault
    <3>3. UNCHANGED <<live, epoch, leaving, restored, seen, busy, syncs>>
      BY <1>8 DEF AnswerSignOut, BootGivesUp
    <3> QED
      BY <1>1, <2>1, <3>1, <3>2, <3>3 DEF AccountTypeOK
  <2> QED
    BY <2>1, <2>2, QuietStep
<1>9. ASSUME BootSync PROVE AccountInv'
  <2>1. /\ inits' \in [Calls -> InitRecord]
        /\ \A j \in Calls : inits'[j] = inits[j] \/ ~Reading(j)'
    <3>1. CASE \E i \in Calls : StartsInit(i)
      BY <1>1, <3>1, StartTyped
    <3>2. CASE UNCHANGED inits
      BY <1>1, <3>2 DEF AccountTypeOK
    <3> QED
      BY <1>9, <3>1, <3>2 DEF BootSync
  <2>2. AccountTypeOK'
    BY <1>1, <1>9, <2>1 DEF AccountTypeOK, BootSync
  <2>3. Forward
    BY <1>2, <1>9 DEF BootSync, Forward
  <2> QED
    BY <1>9, <2>1, <2>2, <2>3, QuietStep DEF BootSync
<1> QED
  BY <1>3, <1>4, <1>5, <1>6, <1>7, <1>8, <1>9 DEF SessionSteps

-----------------------------------------------------------------------------
\* One call of initialize() goes on, and may give the account that is signed in the time.
LEMMA InitMoves ==
  ASSUME AccountInv, UNCHANGED <<live, epoch>>, NEW i \in Calls,
         heirs \subseteq heirs', heirs' \subseteq heirs \cup {UserNow},
         legacy' \in {legacy, "unset"},
         \A j \in Calls \ {i} : inits'[j] = inits[j],
         (InitNotes(i) /\ InitTime(i) /\ InitMigrates(i))'
  PROVE  InitsInOrder'
<1> SUFFICES ASSUME NEW j \in Calls, j # i PROVE (InitNotes(j) /\ InitTime(j) /\ InitMigrates(j))'
  BY DEF InitsInOrder
<1>1. InitNotes(j) /\ InitTime(j) /\ InitMigrates(j) /\ inits'[j] = inits[j]
  BY DEF AccountInv, InitsInOrder
<1>2. UserNow' = UserNow
  BY DEF UserNow
<1>3. InitNotes(j)' /\ InitTime(j)'
  BY <1>1, <1>2 DEF InitNotes, InitTime, Reading, Users
<1>4. InitMigrates(j)'
  <2>1. inits[j].pc \in {"read", "removed"} /\ inits[j].gen = epoch => inits[j].user = UserNow
    BY <1>1 DEF InitNotes, Reading
  <2> QED
    BY <1>1, <2>1 DEF InitMigrates
<1> QED
  BY <1>3, <1>4

LEMMA SyncStepsKeep ==
  ASSUME AccountInv, SyncSteps
  PROVE  AccountInv'
<1> USE DEF listeners, storedTimes, troubles, sessionVars
<1>1. AccountTypeOK /\ SyncNotes /\ SyncIsStamped
  BY DEF AccountInv
<1>2. sync \in SyncRecord /\ epoch \in Nat /\ NoSync.pc = "none"
  BY <1>1 DEF AccountTypeOK, NoSync
<1>3. ASSUME AskSync PROVE AccountInv'
  <2>1. sync' \in SyncRecord /\ sync'.pc = "ready"
    BY <1>3, RecordsAreTyped DEF AskSync, Started, SyncRecord
  <2>2. AccountTypeOK'
    BY <1>1, <1>3, <2>1 DEF AskSync, AccountTypeOK
  <2> QED
    BY <1>2, <1>3, <2>1, <2>2, QuietStep DEF AskSync, Forward
<1>4. ASSUME SyncSnapshot PROVE AccountInv'
  <2>1. CASE SyncEnds
    <3>1. AccountTypeOK'
      BY <1>1, <1>4, <2>1, EndsTyped DEF SyncSnapshot, AccountTypeOK
    <3> QED
      BY <1>1, <1>2, <1>4, <2>1, <3>1, EndsTyped, QuietStep DEF SyncSnapshot, Forward
  <2>2. CASE /\ sync' = [sync EXCEPT !.pc = "work", !.user = UserNow, !.gen = epoch,
                                     !.strayed = FALSE]
             /\ UNCHANGED inits
    <3>1. UserNow \in Users \cup {Nobody}
      BY <1>1 DEF UserNow, Users, AccountTypeOK
    <3>2. /\ sync' \in SyncRecord /\ sync'.pc = "work" /\ sync'.user = UserNow
          /\ sync'.gen = epoch /\ ~sync'.strayed
      BY <1>2, <2>2, <3>1 DEF SyncRecord
    <3>3. AccountTypeOK'
      BY <1>1, <1>4, <2>2, <3>2 DEF SyncSnapshot, AccountTypeOK
    <3>4. Forward /\ UserNow' = UserNow /\ epoch' = epoch
      BY <1>2, <1>4 DEF SyncSnapshot, Forward, UserNow
    <3>5. SyncNotes' /\ SyncIsStamped'
      BY <1>2, <3>2, <3>4 DEF SyncNotes, SyncIsStamped
    <3>6. InitsInOrder'
      BY <1>4, <2>2, <3>4, InitsStay DEF SyncSnapshot
    <3>7. StoredTimesAreEarned' /\ LegacyHasOneHeir' /\ ShownIsOfTheLiveAccount'
      BY <1>4, StoredStays, ShownStays DEF SyncSnapshot
    <3> QED
      BY <3>3, <3>5, <3>6, <3>7 DEF AccountInv
  <2> QED
    BY <1>4, <2>1, <2>2 DEF SyncSnapshot
<1>5. ASSUME SyncFails \/ SyncNotStored PROVE AccountInv'
  <2>1. /\ SyncEnds /\ Forward
        /\ UNCHANGED <<live, epoch, leaving, restored, seen, replies, boot, scoped, legacy, heirs,
                       shown, busy, syncs>>
    BY <1>2, <1>5 DEF SyncFails, SyncNotStored, Forward
  <2>2. AccountTypeOK'
    <3>1. faults' \in Nat /\ blocks' \in Nat /\ stops' \in Nat
      BY <1>1, <1>5 DEF SyncFails, SyncNotStored, Fault, Block, AccountTypeOK
    <3> QED
      BY <1>1, <2>1, <3>1, EndsTyped DEF AccountTypeOK
  <2> QED
    BY <1>1, <2>1, <2>2, EndsTyped, QuietStep
<1>6. ASSUME SyncDone PROVE AccountInv'
  <2>1. CASE SyncEnds /\ UNCHANGED legacy
    <3>1. AccountTypeOK'
      BY <1>1, <1>6, <2>1, EndsTyped DEF SyncDone, AccountTypeOK
    <3> QED
      BY <1>1, <1>2, <1>6, <2>1, <3>1, EndsTyped, QuietStep DEF SyncDone, Forward
  <2>2. CASE /\ live # Nobody /\ SameAccount
             /\ sync' = [sync EXCEPT !.pc = "write",
                           !.time = IF sync.strayed THEN "mixed" ELSE sync.user]
             /\ legacy' = "unset" /\ UNCHANGED inits
    <3>1. sync.user = UserNow /\ ~sync.strayed /\ sync.gen = epoch
      BY <1>1, <1>6, <2>2 DEF SyncNotes, SyncDone, SameAccount
    <3>2. UserNow \in Users
      BY <1>1, <2>2 DEF UserNow, Users, AccountTypeOK
    <3>3. /\ sync' \in SyncRecord /\ sync'.pc = "write" /\ sync'.user = UserNow
          /\ sync'.gen = epoch /\ ~sync'.strayed /\ sync'.time = UserNow
      BY <1>2, <2>2, <3>1, <3>2 DEF SyncRecord, SyncTimes
    <3>4. AccountTypeOK'
      BY <1>1, <1>6, <2>2, <3>3 DEF SyncDone, AccountTypeOK
    <3>5. Forward /\ UserNow' = UserNow /\ epoch' = epoch
      BY <1>2, <1>6 DEF SyncDone, Forward, UserNow
    <3>6. SyncNotes' /\ SyncIsStamped'
      BY <1>2, <3>2, <3>3, <3>5 DEF SyncNotes, SyncIsStamped, Users
    <3>7. InitsInOrder'
      BY <1>6, <2>2, <3>5, InitsStay DEF SyncDone
    <3>8. StoredTimesAreEarned' /\ LegacyHasOneHeir' /\ ShownIsOfTheLiveAccount'
      BY <1>6, <2>2, StoredStays, ShownStays DEF SyncDone
    <3> QED
      BY <3>4, <3>6, <3>7, <3>8 DEF AccountInv
  <2> QED
    BY <1>6, <2>1, <2>2 DEF SyncDone
<1>7. ASSUME SyncStored PROVE AccountInv'
  <2>1. sync.user \in Users /\ sync.time = sync.user /\ sync.user \in SyncTimes
    BY <1>1, <1>7 DEF SyncIsStamped, SyncStored, SyncTimes
  <2>2. /\ sync' \in SyncRecord /\ sync'.pc = "stamps" /\ sync'.user = sync.user
        /\ sync'.gen = sync.gen /\ sync'.strayed = sync.strayed /\ sync'.time = sync.time
    BY <1>2, <1>7 DEF SyncRecord, SyncStored
  <2>3. scoped' = [scoped EXCEPT ![sync.user] = sync.user] /\ scoped' \in [Users -> SyncTimes]
    BY <1>1, <1>7, <2>1 DEF SyncStored, AccountTypeOK
  <2>4. AccountTypeOK'
    BY <1>1, <1>7, <2>2, <2>3 DEF SyncStored, AccountTypeOK
  <2>5. Forward /\ UserNow' = UserNow /\ epoch' = epoch
    BY <1>2, <1>7 DEF SyncStored, Forward, UserNow
  <2>6. SyncNotes' /\ SyncIsStamped'
    BY <1>1, <1>7, <2>1, <2>2, <2>5 DEF SyncNotes, SyncIsStamped, SyncStored, Users
  <2>7. InitsInOrder'
    BY <1>7, <2>5, InitsStay DEF SyncStored
  <2>8. StoredTimesAreEarned'
    BY <1>1, <1>7, <2>1, <2>3 DEF StoredTimesAreEarned, AccountInv, SyncStored, AccountTypeOK, Users
  <2>9. LegacyHasOneHeir' /\ ShownIsOfTheLiveAccount'
    BY <1>7, ShownStays DEF SyncStored, AccountInv, LegacyHasOneHeir
  <2> QED
    BY <2>4, <2>6, <2>7, <2>8, <2>9 DEF AccountInv
<1>8. ASSUME PublishSync PROVE AccountInv'
  <2>1. /\ inits' \in [Calls -> InitRecord] /\ sync' \in SyncRecord /\ sync'.pc = "none"
        /\ \A j \in Calls : inits'[j] = inits[j] \/ ~Reading(j)'
    BY <1>1, <1>8, EndsTyped DEF PublishSync
  <2>2. AccountTypeOK'
    BY <1>1, <1>2, <1>8, <2>1 DEF AccountTypeOK, PublishSync, SyncRecord
  <2>3. Forward
    BY <1>2, <1>8 DEF Forward, PublishSync
  <2>4. ShownIsOfTheLiveAccount'
    <3>1. CASE SameAccount
      <4>1. shown' = UserNow /\ UserNow \in Users
        BY <1>1, <1>8, <3>1 DEF PublishSync, SameAccount, SyncNotes, SyncIsStamped
      <4>2. live # Nobody
        BY <4>1, UsersAssumption DEF UserNow
      <4> QED
        BY <1>8, <4>1, <4>2 DEF ShownIsOfTheLiveAccount, UserNow, PublishSync
    <3>2. CASE ~SameAccount
      BY <1>8, <3>2, ShownStays DEF PublishSync
    <3> QED
      BY <3>1, <3>2
  <2>5. SyncNotes' /\ SyncIsStamped'
    BY <2>1, <2>3, SyncStays
  <2>6. InitsInOrder'
    BY <1>8, <2>1, <2>3, InitsStay DEF PublishSync
  <2>7. StoredTimesAreEarned' /\ LegacyHasOneHeir'
    BY <1>8, StoredStays DEF PublishSync
  <2> QED
    BY <2>2, <2>4, <2>5, <2>6, <2>7 DEF AccountInv
<1>9. ASSUME OtherBegins PROVE AccountInv'
  <2>1. AccountTypeOK'
    BY <1>1, <1>9 DEF AccountTypeOK, OtherBegins, Block
  <2> QED
    BY <1>2, <1>9, <2>1, QuietStep DEF OtherBegins, Forward
<1>10. ASSUME OtherEnds PROVE AccountInv'
  <2>1. ASSUME NEW j \in Calls
        PROVE  /\ inits'[j] \in InitRecord
               /\ inits'[j] = inits[j] \/ inits'[j].pc = "ready"
    <3>1. inits[j] \in InitRecord /\ [inits[j] EXCEPT !.pc = "ready", !.attempt = @ + 1] \in InitRecord
      BY <1>1, AgainTyped DEF AccountTypeOK
    <3>2. [inits[j] EXCEPT !.pc = "ready", !.attempt = @ + 1].pc = "ready"
      BY <3>1 DEF InitRecord
    <3> QED
      BY <1>10, <3>1, <3>2 DEF OtherEnds
  <2>2. /\ inits' \in [Calls -> InitRecord]
        /\ \A j \in Calls : inits'[j] = inits[j] \/ ~Reading(j)'
    BY <1>10, <2>1 DEF OtherEnds, Reading
  <2>3. AccountTypeOK'
    BY <1>1, <1>10, <2>2 DEF AccountTypeOK, OtherEnds
  <2>4. UNCHANGED <<scoped, heirs, legacy, shown, live, epoch, sync>>
    BY <1>10, Zenon DEF OtherEnds
  <2> QED
    BY <1>2, <2>2, <2>3, <2>4, QuietStep DEF Forward
<1> QED
  BY <1>3, <1>4, <1>5, <1>6, <1>7, <1>8, <1>9, <1>10 DEF SyncSteps

LEMMA InitStepsKeep ==
  ASSUME AccountInv, InitSteps
  PROVE  AccountInv'
<1> USE DEF listeners, storedTimes, troubles, sessionVars
<1>1. AccountTypeOK /\ SyncNotes /\ SyncIsStamped /\ InitsInOrder
  BY DEF AccountInv
<1>2. sync \in SyncRecord /\ epoch \in Nat /\ inits \in [Calls -> InitRecord]
  BY <1>1 DEF AccountTypeOK
<1>3. PICK i \in Calls : \/ ReadTimes(i) \/ NothingToMigrate(i) \/ RemoveLegacy(i)
                         \/ MigrateLegacy(i) \/ InitFails(i) \/ Discard(i) \/ Publish(i)
                         \/ Retry(i)
  BY DEF InitSteps
<1>4. inits[i] \in InitRecord /\ InitNotes(i) /\ InitTime(i) /\ InitMigrates(i)
  BY <1>1, <1>2 DEF InitsInOrder
<1>5. /\ Forward /\ UNCHANGED <<live, epoch, leaving, restored, seen, replies, boot, busy, syncs>>
      /\ UserNow' = UserNow
  BY <1>2, <1>3 DEF ReadTimes, NothingToMigrate, RemoveLegacy, MigrateLegacy, InitFails, Discard,
                    Publish, Retry, Forward, UserNow
\* A call that ends, waits or is tried again reads nothing.
<1>6. ASSUME Finish(i)
      PROVE  /\ inits' \in [Calls -> InitRecord]
             /\ \A j \in Calls : inits'[j] = inits[j] \/ ~Reading(j)'
  BY <1>2, <1>6, RecordsAreTyped DEF Finish, Reading, NoInit
<1>7. ASSUME NEW pc \in {"syncing", "tried", "pass", "slot"}, To(i, pc)
      PROVE  /\ inits' \in [Calls -> InitRecord]
             /\ \A j \in Calls : inits'[j] = inits[j] \/ ~Reading(j)'
  BY <1>2, <1>7 DEF To, Reading, InitRecord
<1>8. ASSUME Again(i)
      PROVE  /\ inits' \in [Calls -> InitRecord]
             /\ \A j \in Calls : inits'[j] = inits[j] \/ ~Reading(j)'
  <2>1. [inits[i] EXCEPT !.pc = "ready", !.attempt = @ + 1] \in InitRecord
    BY <1>4, AgainTyped
  <2>2. inits' = [inits EXCEPT ![i] = [inits[i] EXCEPT !.pc = "ready", !.attempt = @ + 1]]
    BY <1>2, <1>8 DEF Again
  <2>3. [inits[i] EXCEPT !.pc = "ready", !.attempt = @ + 1].pc = "ready"
    BY <1>4 DEF InitRecord
  <2> QED
    BY <1>2, <2>1, <2>2, <2>3 DEF Reading
<1>9. ASSUME InitFails(i) \/ Discard(i) \/ Retry(i) PROVE AccountInv'
  <2>1. /\ inits' \in [Calls -> InitRecord]
        /\ \A j \in Calls : inits'[j] = inits[j] \/ ~Reading(j)'
    BY <1>6, <1>7, <1>8, <1>9 DEF InitFails, Discard, Retry
  <2>2. sync' = sync /\ UNCHANGED <<scoped, heirs, legacy, shown, live>>
    BY <1>9 DEF InitFails, Discard, Retry
  <2>3. faults' \in Nat /\ blocks' \in Nat /\ stops' \in Nat
    BY <1>1, <1>9 DEF InitFails, Discard, Retry, Fault, AccountTypeOK
  <2>4. AccountTypeOK'
    BY <1>1, <1>5, <2>1, <2>2, <2>3 DEF AccountTypeOK
  <2> QED
    BY <1>5, <2>1, <2>2, <2>4, QuietStep
<1>10. ASSUME ReadTimes(i) PROVE AccountInv'
  <2>1. UNCHANGED <<scoped, heirs, legacy, sync, faults, blocks, stops>>
    BY <1>10 DEF ReadTimes
  <2>2. CASE Finish(i) /\ UNCHANGED shown
    <3>1. AccountTypeOK'
      BY <1>1, <1>5, <1>6, <2>1, <2>2 DEF AccountTypeOK
    <3> QED
      BY <1>5, <1>6, <2>1, <2>2, <3>1, QuietStep
  <2>3. CASE /\ live # Nobody /\ ForgetTime
             /\ inits' = [inits EXCEPT ![i] =
                  [@ EXCEPT !.pc = "read", !.user = UserNow, !.gen = epoch,
                            !.time = scoped[UserNow], !.legacy = legacy]]
    <3>1. UserNow \in Users /\ scoped[UserNow] \in SyncTimes /\ legacy \in {"unset", "legacy"}
      BY <1>1, <2>3 DEF UserNow, Users, AccountTypeOK
    <3>2. /\ inits' \in [Calls -> InitRecord] /\ inits'[i].pc = "read"
          /\ inits'[i].user = UserNow /\ inits'[i].gen = epoch /\ inits'[i].time = scoped[UserNow]
          /\ inits'[i].legacy = legacy
          /\ \A j \in Calls \ {i} : inits'[j] = inits[j]
      BY <1>2, <1>4, <2>3, <3>1 DEF InitRecord
    <3>3. AccountTypeOK'
      BY <1>1, <1>5, <2>1, <2>3, <3>2 DEF AccountTypeOK, ForgetTime, SyncTimes
    <3>4. InitNotes(i)'
      BY <1>2, <1>5, <3>1, <3>2 DEF InitNotes, Users
    <3>5. InitTime(i)'
      BY <2>1, <3>1, <3>2 DEF InitTime, AccountInv, StoredTimesAreEarned
    <3>6. InitMigrates(i)'
      BY <2>1, <3>2 DEF InitMigrates, AccountInv, LegacyHasOneHeir
    <3>7. InitsInOrder'
      BY <1>5, <2>1, <3>2, <3>4, <3>5, <3>6, InitMoves
    <3>8. SyncNotes' /\ SyncIsStamped'
      BY <1>5, <2>1, SyncStays
    <3>9. StoredTimesAreEarned' /\ LegacyHasOneHeir' /\ ShownIsOfTheLiveAccount'
      BY <2>1, <2>3, StoredStays, ShownStays DEF ForgetTime
    <3> QED
      BY <3>3, <3>7, <3>8, <3>9 DEF AccountInv
  <2> QED
    BY <1>10, <2>2, <2>3 DEF ReadTimes
\* A call that goes on with the times it has read.
<1>11. ASSUME NEW pc \in {"removed", "stamps"}, To(i, pc), UNCHANGED <<scoped, heirs, shown, sync>>,
              faults' = faults, blocks' = blocks, stops' = stops, legacy' \in {legacy, "unset"},
              Reading(i),
              pc = "removed" => inits[i].pc = "read" /\ inits[i].legacy # "unset" /\ legacy' = "unset"
       PROVE  AccountInv'
  <2>1. /\ inits' \in [Calls -> InitRecord] /\ inits'[i].pc = pc
        /\ inits'[i].user = inits[i].user /\ inits'[i].gen = inits[i].gen
        /\ inits'[i].time = inits[i].time /\ inits'[i].legacy = inits[i].legacy
        /\ \A j \in Calls \ {i} : inits'[j] = inits[j]
    BY <1>2, <1>4, <1>11 DEF InitRecord, To
  <2>2. AccountTypeOK'
    BY <1>1, <1>5, <1>11, <2>1 DEF AccountTypeOK
  <2>3. InitNotes(i)' /\ InitTime(i)'
    BY <1>4, <1>5, <1>11, <2>1 DEF InitNotes, InitTime, Reading, Users
  <2>4. InitMigrates(i)'
    BY <1>4, <1>5, <1>11, <2>1 DEF InitMigrates, InitRecord
  <2>5. InitsInOrder'
    BY <1>5, <1>11, <2>1, <2>3, <2>4, InitMoves
  <2>6. SyncNotes' /\ SyncIsStamped'
    BY <1>5, <1>11, SyncStays
  <2>7. StoredTimesAreEarned' /\ LegacyHasOneHeir' /\ ShownIsOfTheLiveAccount'
    BY <1>5, <1>11, StoredStays, ShownStays
  <2> QED
    BY <2>2, <2>5, <2>6, <2>7 DEF AccountInv
<1>12. ASSUME NothingToMigrate(i) PROVE AccountInv'
  BY <1>11, <1>12 DEF NothingToMigrate, Reading
<1>13. ASSUME RemoveLegacy(i) PROVE AccountInv'
  <2>1. CASE legacy' = "unset" /\ To(i, "removed")
    BY <1>11, <1>13, <2>1 DEF RemoveLegacy, Reading
  <2>2. CASE Finish(i) /\ UNCHANGED legacy
    <3>1. UNCHANGED <<scoped, heirs, shown, sync, faults, blocks, stops>>
      BY <1>13 DEF RemoveLegacy
    <3>2. AccountTypeOK'
      BY <1>1, <1>5, <1>6, <2>2, <3>1 DEF AccountTypeOK
    <3> QED
      BY <1>5, <1>6, <2>2, <3>1, <3>2, QuietStep
  <2> QED
    BY <1>13, <2>1, <2>2 DEF RemoveLegacy
<1>14. ASSUME MigrateLegacy(i) PROVE AccountInv'
  <2>1. inits[i].pc = "removed" /\ UNCHANGED <<legacy, shown, sync, faults, blocks, stops>>
    BY <1>14 DEF MigrateLegacy
  <2>2. CASE To(i, "stamps") /\ UNCHANGED <<scoped, heirs>>
    BY <1>11, <2>1, <2>2 DEF Reading
  <2>3. CASE Finish(i) /\ UNCHANGED <<scoped, heirs>>
    <3>1. AccountTypeOK'
      BY <1>1, <1>5, <1>6, <2>1, <2>3 DEF AccountTypeOK
    <3> QED
      BY <1>5, <1>6, <2>1, <2>3, <3>1, QuietStep
  <2>4. CASE /\ Current(i)
             /\ inits' = [inits EXCEPT ![i].pc = "stamps", ![i].time = inits[i].legacy]
             /\ scoped' = [scoped EXCEPT ![inits[i].user] = inits[i].legacy]
             /\ heirs' = heirs \cup {inits[i].user}
    <3>1. /\ inits[i].legacy = "legacy" /\ legacy = "unset" /\ inits[i].user = UserNow
          /\ inits[i].user \in Users /\ heirs \subseteq {UserNow} /\ inits[i].gen = epoch
      BY <1>4, <2>1, <2>4 DEF InitMigrates, InitNotes, Reading, Current
    <3>2. /\ inits' \in [Calls -> InitRecord] /\ inits'[i].pc = "stamps"
          /\ inits'[i].user = UserNow /\ inits'[i].gen = epoch /\ inits'[i].time = "legacy"
          /\ \A j \in Calls \ {i} : inits'[j] = inits[j]
      BY <1>2, <1>4, <2>4, <3>1 DEF InitRecord, SyncTimes
    <3>3. /\ scoped' = [scoped EXCEPT ![UserNow] = "legacy"] /\ scoped' \in [Users -> SyncTimes]
          /\ heirs' = heirs \cup {UserNow} /\ heirs' \subseteq Users
      BY <1>1, <2>4, <3>1 DEF AccountTypeOK, SyncTimes
    <3>4. AccountTypeOK'
      BY <1>1, <1>5, <2>1, <3>2, <3>3 DEF AccountTypeOK
    <3>5. InitNotes(i)' /\ InitTime(i)' /\ InitMigrates(i)'
      BY <1>2, <1>5, <3>1, <3>2, <3>3 DEF InitNotes, InitTime, InitMigrates, Users
    <3>6. InitsInOrder'
      BY <1>5, <2>1, <3>2, <3>3, <3>5, InitMoves
    <3>7. SyncNotes' /\ SyncIsStamped'
      BY <1>5, <2>1, SyncStays
    <3>8. StoredTimesAreEarned'
      BY <1>1, <3>1, <3>3 DEF StoredTimesAreEarned, AccountInv, AccountTypeOK, Users
    <3>9. LegacyHasOneHeir'
      BY <2>1, <3>1, <3>3 DEF LegacyHasOneHeir
    <3>10. ShownIsOfTheLiveAccount'
      BY <1>5, <2>1, <3>3, ShownStays
    <3> QED
      BY <3>4, <3>6, <3>7, <3>8, <3>9, <3>10 DEF AccountInv
  <2> QED
    BY <1>14, <2>2, <2>3, <2>4 DEF MigrateLegacy
<1>15. ASSUME Publish(i) PROVE AccountInv'
  <2>1. /\ inits[i].pc = "stamps" /\ inits[i].gen = epoch /\ shown' = inits[i].time
        /\ UNCHANGED <<scoped, heirs, legacy, faults, blocks, stops>>
    BY <1>15 DEF Publish, Current
  <2>2. inits[i].user = UserNow /\ UserNow \in Users
    BY <1>4, <2>1 DEF InitNotes, Reading
  <2>3. /\ inits' \in [Calls -> InitRecord]
        /\ \A j \in Calls : inits'[j] = inits[j] \/ ~Reading(j)'
    BY <1>6, <1>7, <1>15 DEF Publish
  <2>4. sync' = sync \/ (sync' \in SyncRecord /\ sync'.pc = "ready")
    <3>1. Started(i) => sync' \in SyncRecord /\ sync'.pc = "ready"
      BY CallsAssumption, RecordsAreTyped DEF Started, SyncRecord
    <3> QED
      BY <1>15, <3>1 DEF Publish
  <2>5. AccountTypeOK'
    BY <1>1, <1>4, <1>5, <2>1, <2>3, <2>4 DEF AccountTypeOK, InitRecord
  <2>6. live # Nobody
    BY <2>2, UsersAssumption DEF UserNow
  <2>7. ShownIsOfTheLiveAccount'
    BY <1>4, <1>5, <2>1, <2>2, <2>6 DEF ShownIsOfTheLiveAccount, InitTime, Reading, UserNow
  <2>8. SyncNotes' /\ SyncIsStamped'
    BY <1>5, <2>4, SyncStays
  <2>9. InitsInOrder' /\ StoredTimesAreEarned' /\ LegacyHasOneHeir'
    BY <1>5, <2>1, <2>3, InitsStay, StoredStays
  <2> QED
    BY <2>5, <2>7, <2>8, <2>9 DEF AccountInv
<1> QED
  BY <1>3, <1>9, <1>10, <1>12, <1>13, <1>14, <1>15

LEMMA StopKeeps ==
  ASSUME AccountInv, StopWorker
  PROVE  AccountInv'
<1> USE DEF listeners, storedTimes, troubles, sessionVars
<1>1. AccountTypeOK
  BY DEF AccountInv
<1>2. /\ inits' \in [Calls -> InitRecord] /\ sync' \in SyncRecord /\ sync'.pc = "none"
      /\ \A j \in Calls : inits'[j].pc = "free"
  BY RecordsAreTyped DEF StopWorker, NoInit, NoSync
<1>3. AccountTypeOK'
  <2>1. UNCHANGED <<scoped, legacy, heirs, syncs, faults, blocks>> /\ stops' = stops + 1
    BY DEF StopWorker
  <2>2. /\ live' = Nobody /\ epoch' = 0 /\ leaving' = "no" /\ restored' = "pending"
        /\ seen' = "none" /\ replies' = FALSE /\ boot' = TRUE /\ shown' = "unset" /\ busy' = FALSE
    BY DEF StopWorker, NewWorker
  <2>3. /\ live' \in Logins \cup {Nobody} /\ shown' \in SyncTimes
        /\ epoch' \in Nat /\ stops' \in Nat
    BY <1>1, <2>1, <2>2 DEF AccountTypeOK, SyncTimes
  <2>4. /\ scoped' \in [Users -> SyncTimes] /\ legacy' \in {"unset", "legacy"}
        /\ heirs' \subseteq Users
        /\ syncs' \in Nat /\ faults' \in Nat /\ blocks' \in Nat
    BY <1>1, <2>1 DEF AccountTypeOK, SyncTimes
  <2>5. /\ leaving' \in {"no", "asked", "removing", "gone"}
        /\ restored' \in {"pending", "ok", "failed"} /\ seen' \in {"none", "out", "in"}
        /\ replies' \in BOOLEAN /\ boot' \in BOOLEAN /\ busy' \in BOOLEAN
    BY <2>2
  <2> QED
    BY <1>2, <2>3, <2>4, <2>5, Zenon DEF AccountTypeOK
<1>4. SyncNotes' /\ SyncIsStamped' /\ InitsInOrder'
  BY <1>2 DEF SyncNotes, SyncIsStamped, InitsInOrder, InitNotes, InitTime, InitMigrates, Reading
<1>5. StoredTimesAreEarned' /\ LegacyHasOneHeir' /\ ShownIsOfTheLiveAccount'
  BY StoredStays, ShownStays DEF StopWorker
<1> QED
  BY <1>3, <1>4, <1>5 DEF AccountInv

\* The invariant of AccountSync.
THEOREM AccountInvariant == AccountSyncSpec => []AccountInv
<1>1. AccountInit => AccountInv
  BY AccountInvInit
<1>2. AccountInv /\ [AccountNext]_accountVars => AccountInv'
  <2> SUFFICES ASSUME AccountInv, [AccountNext]_accountVars PROVE AccountInv'
    OBVIOUS
  <2>1. CASE SessionSteps
    BY <2>1, SessionStepsKeep
  <2>2. CASE SyncSteps
    BY <2>2, SyncStepsKeep
  <2>3. CASE InitSteps
    BY <2>3, InitStepsKeep
  <2>4. CASE StopWorker
    BY <2>4, StopKeeps
  <2>5. CASE UNCHANGED accountVars
    <3> USE DEF accountVars, listeners, storedTimes, troubles, sessionVars
    <3>1. AccountTypeOK' /\ Forward
      BY <2>5 DEF AccountInv, AccountTypeOK, Forward
    <3> QED
      BY <2>5, <3>1, QuietStep
  <2> QED
    BY <2>1, <2>2, <2>3, <2>4, <2>5 DEF AccountNext
<1> QED
  BY <1>1, <1>2, PTL DEF AccountSyncSpec

\* Whoever is signed in has taken a generation.
LiveIsCounted == epoch \in Nat /\ (live # Nobody => epoch # 0)
LEMMA LiveCounts == AccountSyncSpec => []LiveIsCounted
<1>1. AccountInit => LiveIsCounted
  BY DEF AccountInit, SessionInit, LiveIsCounted
<1>2. LiveIsCounted /\ [AccountNext]_accountVars => LiveIsCounted'
  <2> USE DEF sessionVars, LiveIsCounted
  <2> SUFFICES ASSUME LiveIsCounted, [AccountNext]_accountVars PROVE LiveIsCounted'
    OBVIOUS
  <2>1. CASE SessionSteps
    <3>1. ASSUME NEW who, Restore(who) \/ SignIn(who) PROVE LiveIsCounted'
      BY <3>1 DEF Restore, Restored, SignIn, SignedIn
    <3>2. ASSUME RestoreRejected \/ AskSignOut \/ SignOutGoesOn \/ SignOutEnds \/ SignOutRefused
          PROVE  LiveIsCounted'
      <4>1. \/ UNCHANGED <<live, epoch>>
            \/ epoch' = epoch + 1 /\ live' \in {live, Nobody}
        <5>1. CASE RestoreRejected
          BY <5>1, Zenon DEF RestoreRejected
        <5>2. CASE AskSignOut
          BY <5>2 DEF AskSignOut, SignOutAsked
        <5>3. CASE SignOutGoesOn
          BY <5>3, Zenon DEF SignOutGoesOn, SignOutRemoves, SignOutSettled
        <5>4. CASE SignOutEnds
          <6>1. live' = Nobody /\ epoch' = epoch + 1
            BY <5>4, Zenon DEF SignOutEnds, SignedOut
          <6> QED
            BY <6>1
        <5>5. CASE SignOutRefused
          BY <5>5, Zenon DEF SignOutRefused, SignOutFails
        <5> QED
          BY <3>2, <5>1, <5>2, <5>3, <5>4, <5>5
      <4> QED
        BY <4>1
    <3>3. ASSUME AnswerSignOut \/ BootSync \/ BootGivesUp PROVE LiveIsCounted'
      BY <3>3 DEF AnswerSignOut, BootSync, BootGivesUp
    <3> QED
      BY <2>1, <3>1, <3>2, <3>3 DEF SessionSteps
  <2>2. CASE SyncSteps
    <3>1. UNCHANGED <<live, epoch>>
      BY <2>2, Zenon DEF SyncSteps, AskSync, SyncSnapshot, SyncFails, SyncDone, SyncStored,
                         SyncNotStored, PublishSync, OtherBegins, OtherEnds
    <3> QED
      BY <3>1
  <2>3. CASE InitSteps
    <3>1. UNCHANGED <<live, epoch>>
      BY <2>3, Zenon DEF InitSteps, ReadTimes, NothingToMigrate, RemoveLegacy, MigrateLegacy,
                         InitFails, Discard, Publish, Retry
    <3> QED
      BY <3>1
  <2>4. CASE StopWorker
    BY <2>4 DEF StopWorker, NewWorker
  <2>5. CASE UNCHANGED accountVars
    BY <2>5 DEF accountVars
  <2> QED
    BY <2>1, <2>2, <2>3, <2>4, <2>5 DEF AccountNext
<1> QED
  BY <1>1, <1>2, PTL DEF AccountSyncSpec

\* Every variable of AccountSync keeps its type.
THEOREM AccountTypesHold == AccountSyncSpec => []AccountTypeOK
BY AccountInvariant, PTL DEF AccountInv

\* The sync time shown is the live account's, for any number of accounts, sign-ins, calls of
\* initialize() and restarts.
THEOREM TheTimeShownIsTheLiveAccounts == AccountSyncSpec => []ShownIsOfTheLiveAccount
BY AccountInvariant, PTL DEF AccountInv

\* A time is stored for an account only if the account was signed in throughout the sync it
\* tells of, or if it is the unattributed one, which one account inherits and nobody after it
\* finds again (performSync, initialize).
THEOREM SyncTimesAreTrue == AccountSyncSpec => []StoredTimesAreTrue
<1>1. AccountInv => StoredTimesAreTrue
  BY DEF AccountInv, StoredTimesAreTrue
<1> QED
  BY <1>1, AccountInvariant, PTL

\* Only its account's going and initialize() take the time that is shown: with nobody signed
\* in there is none to take, so the rest of a sign-out's message takes none.
THEOREM TheTimeIsNotTaken == AccountSyncSpec => TimeIsNotTaken
<1> DEFINE Taken == shown # "unset" /\ shown' = "unset"
                      => epoch' # epoch \/ restored' # restored \/ inits' # inits
<1>1. AccountInv /\ LiveIsCounted /\ [AccountNext]_accountVars => [Taken]_accountVars
  <2> USE DEF listeners, storedTimes, troubles, sessionVars
  <2> SUFFICES ASSUME AccountInv, LiveIsCounted, AccountNext, shown # "unset", shown' = "unset"
               PROVE  epoch' # epoch \/ restored' # restored \/ inits' # inits
    BY DEF accountVars
  <2>1. AccountTypeOK /\ live # Nobody /\ epoch \in Nat /\ inits \in [Calls -> InitRecord]
    BY DEF AccountInv, ShownIsOfTheLiveAccount, AccountTypeOK
  <2>2. CASE SessionSteps
    <3>1. ASSUME \/ \E who \in Logins \cup {Nobody} : Restore(who)
                 \/ RestoreRejected \/ SignOutEnds \/ \E l \in Logins : SignIn(l)
          PROVE  epoch' # epoch \/ restored' # restored
      <4>1. ASSUME NEW who, Restore(who) \/ SignIn(who) PROVE epoch' = epoch + 1
        BY <4>1 DEF Restore, SignIn, Restored, SignedIn
      <4>2. RestoreRejected => restored' # restored
        BY DEF RestoreRejected
      <4>3. SignOutEnds => epoch' = epoch + 1
        BY DEF SignOutEnds, SignedOut
      <4> QED
        BY <2>1, <3>1, <4>1, <4>2, <4>3
    <3>2. ~AnswerSignOut
      BY <2>1 DEF AnswerSignOut
    <3>3. ASSUME AskSignOut \/ SignOutGoesOn \/ SignOutRefused \/ BootSync \/ BootGivesUp
          PROVE  FALSE
      BY <3>3 DEF AskSignOut, SignOutGoesOn, SignOutRefused, BootSync, BootGivesUp
    <3> QED
      BY <2>2, <3>1, <3>2, <3>3 DEF SessionSteps
  <2>3. CASE SyncSteps
    <3>1. PublishSync
      BY <2>3, Zenon DEF SyncSteps, AskSync, SyncSnapshot, SyncFails, SyncDone, SyncStored,
                         SyncNotStored, OtherBegins, OtherEnds
    <3>2. sync.user \in Users /\ sync.time = sync.user
      BY <3>1 DEF AccountInv, SyncIsStamped, PublishSync
    <3> QED
      BY <3>1, <3>2, UsersAssumption DEF PublishSync
  <2>4. CASE InitSteps
    <3>1. PICK i \in Calls : ReadTimes(i) \/ Publish(i)
      BY <2>4, Zenon DEF InitSteps, NothingToMigrate, RemoveLegacy, MigrateLegacy, InitFails, Discard,
                         Retry
    <3>2. inits[i] \in InitRecord
      BY <2>1
    <3>3. ASSUME ReadTimes(i), ~Finish(i) PROVE inits'[i].pc # inits[i].pc
      BY <2>1, <3>2, <3>3 DEF ReadTimes, InitRecord
    <3>4. ASSUME Finish(i), inits[i].pc # "free" PROVE inits'[i].pc # inits[i].pc
      BY <2>1, <3>4 DEF Finish, NoInit
    <3>5. ASSUME NEW pc, To(i, pc), inits[i].pc # pc PROVE inits'[i].pc # inits[i].pc
      BY <2>1, <3>2, <3>5 DEF To, InitRecord
    <3> QED
      BY <3>1, <3>3, <3>4, <3>5 DEF ReadTimes, Publish
  <2>5. CASE StopWorker
    BY <2>1, <2>5 DEF StopWorker, NewWorker, LiveIsCounted
  <2> QED
    BY <2>2, <2>3, <2>4, <2>5 DEF AccountNext
<1> QED
  BY <1>1, AccountInvariant, LiveCounts, PTL DEF AccountSyncSpec, TimeIsNotTaken
=============================================================================
