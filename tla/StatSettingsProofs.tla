------------------------ MODULE StatSettingsProofs ------------------------
(***************************************************************************)
(* What the HUD counts is what the stored settings choose, for any number   *)
(* of hands and versions, any window of newest rows and any settings.       *)
(*                                                                         *)
(* Three facts make it so.  The ledger's incremental writes leave a ready   *)
(* player with exactly what his baseline would compute from the hands.  The *)
(* newest rows of every cell are enough for the newest rows of any read.    *)
(* And the filters of the worker, or the last message on its way to it,     *)
(* agree with the stored settings, unless options were used that had        *)
(* changed since they were read.                                            *)
(***************************************************************************)
EXTENDS StatSettings, FiniteSetTheorems, TLAPS

-----------------------------------------------------------------------------
(* Induction over a finite set, element by element as the folds go.         *)

LEMMA SetInduction ==
  ASSUME NEW D, IsFiniteSet(D), NEW G, {} \in G,
         \A U \in SUBSET D : U # {} /\ U \ {CHOOSE x \in U : TRUE} \in G => U \in G
  PROVE  \A U \in SUBSET D : U \in G
<1> DEFINE Bad == {U \in FiniteSubsetsOf(D) : U \notin G}
<1>1. \A U \in SUBSET D : U \in FiniteSubsetsOf(D)
  BY FS_Subset DEF FiniteSubsetsOf
<1> SUFFICES ASSUME Bad # {} PROVE FALSE
  BY <1>1
<1>2. PICK U \in Bad : \A V \in Bad : ~(<<V, U>> \in StrictSubsetOrdering(D))
  <2>1. IsWellFoundedOn(StrictSubsetOrdering(D), FiniteSubsetsOf(D))
    BY FS_StrictSubsetOrderingWellFounded
  <2>2. Bad \subseteq FiniteSubsetsOf(D)
    OBVIOUS
  <2> HIDE DEF Bad
  <2> QED BY <2>1, <2>2, WFMin, Zenon
<1> DEFINE x == CHOOSE x \in U : TRUE
           V == U \ {x}
<1>3. U \in SUBSET D /\ U # {} /\ x \in U
  <2>1. U \in SUBSET D /\ U # {}
    BY <1>2 DEF FiniteSubsetsOf
  <2> QED BY <2>1
<1>4. V \in FiniteSubsetsOf(D) /\ U \in FiniteSubsetsOf(D)
  BY <1>1, <1>3
<1>5. V \notin Bad
  BY <1>2, <1>3, <1>4 DEF StrictSubsetOrdering, FiniteSubsetsOf
<1> QED BY <1>2, <1>3, <1>4, <1>5

AllOf(parts, D) == UNION {parts[d] : d \in D}

\* A sum of the sizes of disjoint sets is the size of their union.
LEMMA TotalCounts ==
  ASSUME NEW D, IsFiniteSet(D), NEW B, NEW f, DOMAIN f = D,
         \A d \in D : IsFiniteSet(B[d]) /\ f[d] = Cardinality(B[d]),
         \A d, e \in D : d # e => B[d] \cap B[e] = {}
  PROVE  /\ IsFiniteSet(AllOf(B, D))
         /\ Total(f) = Cardinality(AllOf(B, D))
<1> DEFINE Of(U) == UNION {B[d] : d \in U}
           Fits(s) == s = [U \in SUBSET DOMAIN f |->
                             IF U = {} THEN 0
                             ELSE LET x == CHOOSE x \in U : TRUE IN s[U \ {x}] + f[x]]
           sum == CHOOSE s : Fits(s)
           size == [U \in SUBSET D |-> Cardinality(Of(U))]
           Finite == {U \in SUBSET D : IsFiniteSet(Of(U))}
<1>1. \A U \in SUBSET D : U # {} =>
        LET x == CHOOSE x \in U : TRUE
        IN /\ x \in D /\ U \ {x} \in SUBSET D
           /\ Of(U) = Of(U \ {x}) \cup B[x] /\ Of(U \ {x}) \cap B[x] = {}
  <2> SUFFICES ASSUME NEW U \in SUBSET D, U # {}
               PROVE  LET x == CHOOSE x \in U : TRUE
                      IN /\ x \in D /\ U \ {x} \in SUBSET D
                         /\ Of(U) = Of(U \ {x}) \cup B[x] /\ Of(U \ {x}) \cap B[x] = {}
    OBVIOUS
  <2> DEFINE x == CHOOSE x \in U : TRUE
  <2>1. x \in U
    OBVIOUS
  <2> HIDE DEF x
  <2>2. Of(U) = Of(U \ {x}) \cup B[x]
    BY <2>1
  <2>3. Of(U \ {x}) \cap B[x] = {}
    BY <2>1
  <2> QED BY <2>1, <2>2, <2>3 DEF x
<1>2. \A U \in SUBSET D : U \in Finite
  <2>1. {} \in Finite
    BY FS_EmptySet
  <2>2. ASSUME NEW U \in SUBSET D, U # {}, U \ {CHOOSE x \in U : TRUE} \in Finite
        PROVE  U \in Finite
    <3> DEFINE x == CHOOSE x \in U : TRUE
    <3>1. x \in D /\ Of(U) = Of(U \ {x}) \cup B[x]
      BY <1>1, <2>2
    <3>2. IsFiniteSet(Of(U \ {x}))
      BY <2>2
    <3> HIDE DEF x, Of
    <3>4. IsFiniteSet(B[x])
      BY <3>1
    <3>5. IsFiniteSet(Of(U \ {x}) \cup B[x])
      BY <3>2, <3>4, FS_Union
    <3>3. IsFiniteSet(Of(U))
      BY <3>1, <3>5
    <3> QED BY <3>3
  <2> HIDE DEF Finite
  <2> QED BY <2>1, <2>2, SetInduction
<1> HIDE DEF Of
<1>3. size[{}] = 0
  BY FS_EmptySet DEF Of
<1>4. ASSUME NEW U \in SUBSET D, U # {}
      PROVE  LET x == CHOOSE x \in U : TRUE IN size[U] = size[U \ {x}] + f[x]
  <2> DEFINE x == CHOOSE x \in U : TRUE
  <2>1. /\ x \in D /\ U \ {x} \in SUBSET D
        /\ Of(U) = Of(U \ {x}) \cup B[x] /\ Of(U \ {x}) \cap B[x] = {}
    BY <1>1, <1>4
  <2> HIDE DEF x
  <2>2. IsFiniteSet(Of(U \ {x})) /\ IsFiniteSet(B[x])
    BY <1>2, <2>1
  <2>3. Cardinality(Of(U)) = Cardinality(Of(U \ {x})) + Cardinality(B[x])
    <3>1. Cardinality(Of(U \ {x}) \cup B[x])
            = Cardinality(Of(U \ {x})) + Cardinality(B[x]) - Cardinality(Of(U \ {x}) \cap B[x])
      BY <2>2, FS_Union
    <3>2. Cardinality(Of(U \ {x})) \in Nat /\ Cardinality(B[x]) \in Nat
      BY <2>2, FS_CardinalityType
    <3>3. Cardinality(Of(U \ {x}) \cap B[x]) = 0
      BY <2>1, FS_EmptySet
    <3> QED BY <2>1, <3>1, <3>2, <3>3
  <2>4. Cardinality(Of(U)) = Cardinality(Of(U \ {x})) + f[x]
    BY <2>1, <2>3
  <2> QED BY <2>1, <2>4 DEF x
<1>5. Fits(size)
  BY <1>3, <1>4
<1>6. Fits(sum)
  BY <1>5
<1> HIDE DEF sum, size
<1>7. \A U \in SUBSET D : U \in {V \in SUBSET D : sum[V] = size[V]}
  <2> DEFINE G == {V \in SUBSET D : sum[V] = size[V]}
  <2>1. \A U \in SUBSET D : sum[U] = IF U = {} THEN 0
                                     ELSE LET x == CHOOSE x \in U : TRUE IN sum[U \ {x}] + f[x]
    BY <1>6
  <2>2. {} \in G
    BY <1>3, <2>1
  <2>3. ASSUME NEW U \in SUBSET D, U # {}, U \ {CHOOSE x \in U : TRUE} \in G
        PROVE  U \in G
    BY <1>4, <2>1, <2>3
  <2> HIDE DEF G
  <2>4. \A U \in SUBSET D : U \in G
    BY <2>2, <2>3, SetInduction
  <2> QED BY <2>4 DEF G
<1>8. sum[D] = Cardinality(Of(D))
  BY <1>7 DEF size
<1>9. Total(f) = sum[D]
  BY DEF Total, sum
<1> QED BY <1>2, <1>8, <1>9 DEF Of, AllOf

-----------------------------------------------------------------------------
(* Records, and the order of the newest first.                             *)

Records == {recordFromContribution(v) : v \in Versions}
\* One record of a hand.
OneEach(S) == /\ S \subseteq Records /\ IsFiniteSet(S)
              /\ \A a, b \in S : a.version.handId = b.version.handId => a = b
Above(a, S) == {b \in S : Newer(b, a)}

LEMMA VersionFacts ==
  /\ IsFiniteSet(Versions)
  /\ \A v \in Versions : v.handId \in HandIds /\ v.handId \in Nat /\ v \in VersionsOf(v.handId)
                         /\ v \notin {NotStored, Absent}
  /\ \A h \in HandIds : VersionsOf(h) \subseteq Versions
  /\ \A h \in HandIds : \A v \in VersionsOf(h) : v.handId = h
<1> DEFINE f == [h \in HandIds |-> VersionsOf(h)]
           Parts == {VersionsOf(h) : h \in HandIds}
<1>1. f \in Surjection(HandIds, Parts)
  BY DEF Surjection
<1>2. IsFiniteSet(Parts)
  BY <1>1, FS_Surjection, LedgerAssumption
<1>3. \A T \in Parts : IsFiniteSet(T)
  BY LedgerAssumption
<1>4. IsFiniteSet(Versions)
  BY <1>2, <1>3, FS_UNION DEF Versions
<1> QED BY <1>4, LedgerAssumption DEF Versions

LEMMA RecordFacts ==
  /\ \A v \in Versions :
       /\ recordFromContribution(v).version = v
       /\ recordFromContribution(v) \in Records
  /\ \A r \in Records :
       /\ r.version \in Versions /\ r = recordFromContribution(r.version)
       /\ r.hasTimestamp \in BOOLEAN /\ r.sortTimestamp \in Nat /\ r.version.handId \in Nat
  /\ \A a, b \in Records : a.version = b.version => a = b
<1>1. \A v \in Versions : (v.time # Unknown => v.time \in Nat) /\ v.handId \in Nat
  BY LedgerAssumption DEF Versions
<1>2. \A v \in Versions :
        LET r == recordFromContribution(v)
        IN /\ r.version = v /\ r \in Records /\ r.hasTimestamp \in BOOLEAN
           /\ r.sortTimestamp \in Nat /\ r.version.handId \in Nat
  BY <1>1 DEF Records, recordFromContribution
<1>3. \A r \in Records : \E v \in Versions : r = recordFromContribution(v)
  BY DEF Records
<1> QED BY <1>2, <1>3

LEMMA NewerOrder ==
  /\ \A a \in Records : ~Newer(a, a)
  /\ \A a, b, c \in Records : Newer(a, b) /\ Newer(b, c) => Newer(a, c)
  /\ \A a, b \in Records : a.version.handId # b.version.handId => Newer(a, b) \/ Newer(b, a)
BY RecordFacts DEF Newer

LEMMA NewestExists ==
  ASSUME NEW S, OneEach(S), S # {}
  PROVE  \E m \in S : \A s \in S : s = m \/ Newer(m, s)
<1> DEFINE Top(U) == \E m \in U : \A s \in U : s = m \/ Newer(m, s)
           G == {U \in SUBSET S : U = {} \/ Top(U)}
<1>1. {} \in G
  OBVIOUS
<1>2. ASSUME NEW U \in SUBSET S, U # {}, U \ {CHOOSE x \in U : TRUE} \in G
      PROVE  U \in G
  <2> DEFINE x == CHOOSE x \in U : TRUE
  <2>1. x \in U /\ U \ {x} \in G
    BY <1>2
  <2> HIDE DEF x
  <2>2. CASE U \ {x} = {}
    <3>1. U = {x}
      BY <2>1, <2>2
    <3> QED BY <3>1
  <2>3. CASE Top(U \ {x})
    <3>1. PICK m \in U \ {x} : \A s \in U \ {x} : s = m \/ Newer(m, s)
      BY <2>3
    <3>2. m \in Records /\ x \in Records /\ U \subseteq Records /\ m.version.handId # x.version.handId
      BY <2>1, <3>1 DEF OneEach
    <3>3. CASE Newer(m, x)
      BY <3>1, <3>3
    <3>4. CASE Newer(x, m)
      <4>1. \A s \in U : s = x \/ Newer(x, s)
        BY <3>1, <3>2, <3>4, NewerOrder
      <4> QED BY <2>1, <4>1
    <3> QED BY <3>2, <3>3, <3>4, NewerOrder
  <2> QED BY <2>1, <2>2, <2>3
<1> HIDE DEF G
<1>3. S \in G
  BY <1>1, <1>2, SetInduction DEF OneEach
<1> QED BY <1>3 DEF G

LEMMA RankMonotone ==
  ASSUME NEW S, NEW T, IsFiniteSet(T), S \subseteq T
  PROVE  Cardinality(S) \in Nat /\ Cardinality(T) \in Nat /\ Cardinality(S) <= Cardinality(T)
BY FS_Subset, FS_CardinalityType

\* A set between the newest and all has the same newest.
LEMMA SameNewest ==
  ASSUME NEW M, OneEach(M), NEW limit \in Nat, NEW U,
         NewestOf(M, limit) \subseteq U, U \subseteq M
  PROVE  NewestOf(U, limit) = NewestOf(M, limit)
<1>1. ASSUME NEW a \in M
      PROVE  /\ IsFiniteSet(Above(a, M)) /\ Above(a, U) \subseteq Above(a, M)
             /\ Cardinality(Above(a, U)) \in Nat /\ Cardinality(Above(a, M)) \in Nat
             /\ Cardinality(Above(a, U)) <= Cardinality(Above(a, M))
  <2>1. Above(a, M) \subseteq M /\ Above(a, U) \subseteq Above(a, M)
    BY DEF Above
  <2>2. IsFiniteSet(Above(a, M))
    BY <2>1, FS_Subset DEF OneEach
  <2> QED BY <2>1, <2>2, RankMonotone
<1>4. /\ NewestOf(M, limit) = {a \in M : Cardinality(Above(a, M)) < limit}
      /\ NewestOf(U, limit) = {a \in U : Cardinality(Above(a, U)) < limit}
  BY DEF NewestOf, Above
<1>2. NewestOf(M, limit) \subseteq NewestOf(U, limit)
  BY <1>1, <1>4
<1>3. ASSUME NEW a \in NewestOf(U, limit), a \notin NewestOf(M, limit) PROVE FALSE
  <2> DEFINE Low == {b \in M : ~(Cardinality(Above(b, M)) < limit) /\ (b = a \/ Newer(b, a))}
  <2>1. a \in U /\ a \in M /\ Cardinality(Above(a, U)) < limit /\ ~(Cardinality(Above(a, M)) < limit)
    BY <1>3 DEF NewestOf, Above
  <2>2. OneEach(Low) /\ a \in Low
    BY <2>1, FS_Subset DEF OneEach
  <2>3. PICK b \in Low : \A s \in Low : s = b \/ Newer(b, s)
    BY <2>2, NewestExists
  <2>4. a \in Records /\ b \in Records /\ M \subseteq Records
    BY <2>1, <2>3 DEF OneEach
  <2>5. Above(b, M) \subseteq NewestOf(M, limit)
    <3> SUFFICES ASSUME NEW c \in M, Newer(c, b), ~(Cardinality(Above(c, M)) < limit) PROVE FALSE
      BY DEF Above, NewestOf
    <3>1. c \in Low
      BY <2>3, <2>4, NewerOrder
    <3>2. c # b /\ ~Newer(b, c)
      BY <2>4, NewerOrder
    <3> QED BY <2>3, <3>1, <3>2
  <2>6. Above(b, M) \subseteq Above(a, U)
    BY <2>3, <2>4, <2>5, NewerOrder DEF Above
  <2>7. IsFiniteSet(Above(a, U))
    BY <1>1, <2>1, FS_Subset
  <2>8. Cardinality(Above(b, M)) <= Cardinality(Above(a, U))
    BY <2>6, <2>7, RankMonotone
  <2> QED BY <1>1, <2>1, <2>3, <2>8
<1> QED BY <1>2, <1>3

-----------------------------------------------------------------------------
(* The aggregate of a set of hands, and one hand more or less.             *)

Mine(S, key) == {v \in S : bucketKey(v) = key}
BucketFor(S, key) ==
  [key |-> key, handsN |-> Cardinality(Mine(S, key)), counters |-> SumOf(Mine(S, key))]
BucketsOf(S) == {BucketFor(S, key) : key \in {bucketKey(v) : v \in S}}
AggregateOf(S) == [ready |-> TRUE, totals |-> SumOf(S), buckets |-> BucketsOf(S), here |-> TRUE]
RecordsOf(S) == {recordFromContribution(v) : v \in S}

LEMMA MineIsFinite ==
  ASSUME NEW S \in SUBSET Versions, NEW key
  PROVE  /\ IsFiniteSet(S) /\ IsFiniteSet(Mine(S, key)) /\ Cardinality(Mine(S, key)) \in Nat
         /\ Cardinality(Mine(S, key)) = 0 <=> Mine(S, key) = {}
<1>1. IsFiniteSet(S)
  BY VersionFacts, FS_Subset
<1>2. IsFiniteSet(Mine(S, key))
  BY <1>1, FS_Subset, Mine(S, key) \subseteq S DEF Mine
<1> QED BY <1>1, <1>2, FS_CardinalityType, FS_EmptySet

LEMMA BucketFound ==
  ASSUME NEW S \in SUBSET Versions, NEW key
  PROVE  BucketOf(BucketsOf(S), key) = BucketFor(S, key)
<1> DEFINE none == [key |-> key, handsN |-> 0, counters |-> NoCounters]
           Right(b) == b.key = key /\ \A c \in BucketsOf(S) : c.key = key => b = c
<1>1. \A c \in BucketsOf(S) : c.key = key => c = BucketFor(S, key)
  BY DEF BucketsOf, BucketFor
<1>2. BucketFor(S, key) \in BucketsOf(S) \cup {none}
  <2>1. CASE Mine(S, key) = {}
    <3>1. SumOf({}) = NoCounters
      BY DEF SumOf, NoCounters
    <3>2. BucketFor(S, key) = none
      BY <2>1, <3>1, FS_EmptySet DEF BucketFor
    <3> QED BY <3>2
  <2>2. CASE Mine(S, key) # {}
    BY <2>2 DEF Mine, BucketsOf
  <2> QED BY <2>1, <2>2
<1>3. Right(BucketFor(S, key))
  <2>1. BucketFor(S, key).key = key
    BY DEF BucketFor
  <2> QED BY <1>1, <2>1
<1>4. \A b \in BucketsOf(S) \cup {none} : Right(b) => b = BucketFor(S, key)
  <2> SUFFICES ASSUME NEW b \in BucketsOf(S) \cup {none}, Right(b) PROVE b = BucketFor(S, key)
    OBVIOUS
  <2>1. CASE b \in BucketsOf(S)
    BY <1>1, <2>1
  <2>2. CASE BucketFor(S, key) \in BucketsOf(S)
    <3>1. BucketFor(S, key).key = key
      BY DEF BucketFor
    <3> QED BY <2>2, <3>1
  <2>3. CASE b = none /\ BucketFor(S, key) = none
    BY <2>3
  <2> QED BY <1>2, <2>1, <2>2, <2>3
<1>5. BucketOf(BucketsOf(S), key) = CHOOSE b \in BucketsOf(S) \cup {none} : Right(b)
  BY DEF BucketOf
<1> HIDE DEF none, Right
<1> QED BY <1>2, <1>3, <1>4, <1>5

\* Another version touches its own bucket only.
LEMMA OtherBuckets ==
  ASSUME NEW S \in SUBSET Versions, NEW v \in Versions, v \notin S
  PROVE  /\ Mine(S \cup {v}, bucketKey(v)) = Mine(S, bucketKey(v)) \cup {v}
         /\ Cardinality(Mine(S \cup {v}, bucketKey(v))) = Cardinality(Mine(S, bucketKey(v))) + 1
         /\ \A key : key # bucketKey(v) => BucketFor(S \cup {v}, key) = BucketFor(S, key)
<1>1. Mine(S \cup {v}, bucketKey(v)) = Mine(S, bucketKey(v)) \cup {v}
  BY DEF Mine
<1>2. v \notin Mine(S, bucketKey(v)) /\ IsFiniteSet(Mine(S, bucketKey(v)))
  BY MineIsFinite DEF Mine
<1>3. Cardinality(Mine(S, bucketKey(v)) \cup {v}) = Cardinality(Mine(S, bucketKey(v))) + 1
  BY <1>2, FS_AddElement
<1>4. \A key : key # bucketKey(v) => Mine(S \cup {v}, key) = Mine(S, key)
  BY DEF Mine
<1> QED BY <1>1, <1>3, <1>4 DEF BucketFor

LEMMA SumOfMore ==
  ASSUME NEW S \in SUBSET Versions, NEW v \in Versions, v \notin S
  PROVE  /\ addHandStatCounterVectors(SumOf(S), CountersOf(v)) = SumOf(S \cup {v})
         /\ subtractHandStatCounterVectors(SumOf(S \cup {v}), CountersOf(v)) = SumOf(S)
BY DEF addHandStatCounterVectors, subtractHandStatCounterVectors, SumOf, CountersOf, NoCounters

LEMMA Adding ==
  ASSUME NEW S \in SUBSET Versions, NEW v \in Versions, v \notin S
  PROVE  applyContributionToAggregate(AggregateOf(S), recordFromContribution(v), 1)
           = AggregateOf(S \cup {v})
<1> DEFINE key == bucketKey(v)
           T == S \cup {v}
           old == BucketFor(S, key)
           new == [key |-> old.key, handsN |-> old.handsN + 1,
                   counters |-> addHandStatCounterVectors(old.counters, CountersOf(v))]
<1>1. recordFromContribution(v).version = v
  BY RecordFacts
<1>2. BucketOf(AggregateOf(S).buckets, key) = old
  BY BucketFound DEF AggregateOf
<1>3. /\ Mine(T, key) = Mine(S, key) \cup {v}
      /\ Cardinality(Mine(T, key)) = Cardinality(Mine(S, key)) + 1
      /\ \A k : k # key => BucketFor(T, k) = BucketFor(S, k)
  BY OtherBuckets
<1>4. addHandStatCounterVectors(SumOf(Mine(S, key)), CountersOf(v)) = SumOf(Mine(T, key))
  BY <1>3, SumOfMore, Mine(S, key) \subseteq S DEF Mine
<1>5. new = BucketFor(T, key)
  BY <1>3, <1>4 DEF BucketFor
<1>6. (BucketsOf(S) \ {old}) \cup {BucketFor(T, key)} = BucketsOf(T)
  <2>1. \A k : BucketFor(S, k).key = k /\ BucketFor(T, k).key = k
    BY DEF BucketFor
  <2>2. {bucketKey(w) : w \in T} = {bucketKey(w) : w \in S} \cup {key}
    OBVIOUS
  <2> HIDE DEF T, key
  <2> QED BY <1>3, <2>1, <2>2 DEF BucketsOf
<1>7. addHandStatCounterVectors(SumOf(S), CountersOf(v)) = SumOf(T)
  BY SumOfMore
<1>8. /\ AggregateOf(S).ready = TRUE /\ AggregateOf(S).here = TRUE
      /\ AggregateOf(S).totals = SumOf(S) /\ AggregateOf(S).buckets = BucketsOf(S)
  BY DEF AggregateOf
<1>9. applyContributionToAggregate(AggregateOf(S), recordFromContribution(v), 1)
        = [ready |-> TRUE, totals |-> addHandStatCounterVectors(SumOf(S), CountersOf(v)),
           buckets |-> (BucketsOf(S) \ {old}) \cup {new}, here |-> TRUE]
  <2> HIDE DEF old
  <2>1. 1 # -1
    OBVIOUS
  <2> QED BY <1>1, <1>2, <1>8, <2>1 DEF applyContributionToAggregate
<1> HIDE DEF T, key, new, old
<1> QED BY <1>5, <1>6, <1>7, <1>9 DEF AggregateOf, T

LEMMA Removing ==
  ASSUME NEW S \in SUBSET Versions, NEW v \in S
  PROVE  applyContributionToAggregate(AggregateOf(S), recordFromContribution(v), -1)
           = AggregateOf(S \ {v})
<1> DEFINE key == bucketKey(v)
           T == S \ {v}
           old == BucketFor(S, key)
           new == [key |-> old.key, handsN |-> old.handsN + -1,
                   counters |-> subtractHandStatCounterVectors(old.counters, CountersOf(v))]
           kept == IF old \notin BucketsOf(S) \/ new.handsN = 0 THEN {} ELSE {new}
<1>1. recordFromContribution(v).version = v /\ T \in SUBSET Versions /\ v \in Versions /\ v \notin T
      /\ T \cup {v} = S
  BY RecordFacts
<1>2. BucketOf(AggregateOf(S).buckets, key) = old
  BY BucketFound DEF AggregateOf
<1>3. /\ Mine(S, key) = Mine(T, key) \cup {v}
      /\ Cardinality(Mine(S, key)) = Cardinality(Mine(T, key)) + 1
      /\ \A k : k # key => BucketFor(S, k) = BucketFor(T, k)
  <2> HIDE DEF T
  <2> QED BY <1>1, OtherBuckets
<1>4. subtractHandStatCounterVectors(SumOf(Mine(S, key)), CountersOf(v)) = SumOf(Mine(T, key))
  BY <1>3, SumOfMore, Mine(T, key) \subseteq T DEF Mine
<1>5. Cardinality(Mine(T, key)) \in Nat /\ (Cardinality(Mine(T, key)) = 0 <=> Mine(T, key) = {})
  BY <1>1, MineIsFinite
<1>6. new = BucketFor(T, key)
  <2>1. Cardinality(Mine(S, key)) + -1 = Cardinality(Mine(T, key))
    BY <1>3, <1>5
  <2> QED BY <1>4, <2>1 DEF BucketFor
<1>7. (BucketsOf(S) \ {old}) \cup kept = BucketsOf(T)
  <2>1. \A k : BucketFor(S, k).key = k /\ BucketFor(T, k).key = k
    BY DEF BucketFor
  <2>2. {bucketKey(w) : w \in S} = {bucketKey(w) : w \in T} \cup {key}
    OBVIOUS
  <2>3. BucketFor(T, key).handsN = 0 <=> key \notin {bucketKey(w) : w \in T}
    BY <1>5 DEF BucketFor, Mine
  <2>4. old \in BucketsOf(S)
    BY DEF BucketsOf
  <2>5. kept = {BucketFor(T, key)} \cap {BucketFor(T, k) : k \in {bucketKey(w) : w \in T}}
    <3> HIDE DEF T, key, new, old
    <3> QED BY <1>6, <2>1, <2>3, <2>4
  <2> HIDE DEF T, key, kept
  <2> QED BY <1>3, <2>1, <2>2, <2>5 DEF BucketsOf
<1>8. subtractHandStatCounterVectors(SumOf(S), CountersOf(v)) = SumOf(T)
  <2> HIDE DEF T
  <2> QED BY <1>1, SumOfMore
<1>9. /\ AggregateOf(S).ready = TRUE /\ AggregateOf(S).here = TRUE
      /\ AggregateOf(S).totals = SumOf(S) /\ AggregateOf(S).buckets = BucketsOf(S)
  BY DEF AggregateOf
<1>10. applyContributionToAggregate(AggregateOf(S), recordFromContribution(v), -1)
         = [ready |-> TRUE, totals |-> subtractHandStatCounterVectors(SumOf(S), CountersOf(v)),
            buckets |-> (BucketsOf(S) \ {old}) \cup kept, here |-> TRUE]
  <2> HIDE DEF old
  <2>1. -1 # 1
    OBVIOUS
  <2> QED BY <1>1, <1>2, <1>9, <2>1 DEF applyContributionToAggregate
<1> HIDE DEF T, key, kept, new, old
<1> QED BY <1>7, <1>8, <1>10 DEF AggregateOf, T

\* A fold over no record or one, and over the records of a whole history.
LEMMA AppliedOne ==
  ASSUME NEW agg, NEW r, NEW direction
  PROVE  /\ Applied(agg, {}, direction) = agg
         /\ Applied(agg, {r}, direction) = applyContributionToAggregate(agg, r, direction)
<1> DEFINE Fits(f, R) ==
             f = [S \in SUBSET R |->
                    IF S = {} THEN agg
                    ELSE LET q == CHOOSE q \in S : TRUE
                         IN applyContributionToAggregate(f[S \ {q}], q, direction)]
           after(R) == CHOOSE f : Fits(f, R)
<1>1. \A R : Applied(agg, R, direction) = after(R)[R]
  BY DEF Applied
<1>2. Applied(agg, {}, direction) = agg
  <2>1. Fits([S \in SUBSET {} |-> agg], {})
    OBVIOUS
  <2>2. Fits(after({}), {})
    BY <2>1
  <2> HIDE DEF after
  <2>3. after({})[{}] = agg
    BY <2>2
  <2> QED BY <1>1, <2>3
<1>3. Applied(agg, {r}, direction) = applyContributionToAggregate(agg, r, direction)
  <2> DEFINE g == [S \in SUBSET {r} |->
                     IF S = {} THEN agg ELSE applyContributionToAggregate(agg, r, direction)]
  <2>1. \A S \in SUBSET {r} : S # {} => S = {r} /\ (CHOOSE q \in S : TRUE) = r /\ S \ {r} = {}
    OBVIOUS
  <2>2. Fits(g, {r})
    BY <2>1
  <2>3. Fits(after({r}), {r})
    BY <2>2
  <2> HIDE DEF after
  <2>4. after({r})[{}] = agg
    BY <2>3
  <2>6. \A S \in SUBSET {r} :
          after({r})[S] = IF S = {} THEN agg
                          ELSE LET q == CHOOSE q \in S : TRUE
                               IN applyContributionToAggregate(after({r})[S \ {q}], q, direction)
    BY <2>3
  <2>7. after({r})[{r}] = LET q == CHOOSE q \in {r} : TRUE
                          IN applyContributionToAggregate(after({r})[{r} \ {q}], q, direction)
    BY <2>6
  <2>8. (CHOOSE q \in {r} : TRUE) = r /\ {r} \ {r} = {}
    OBVIOUS
  <2>5. after({r})[{r}] = applyContributionToAggregate(after({r})[{}], r, direction)
    BY <2>7, <2>8
  <2> QED BY <1>1, <2>4, <2>5
<1> QED BY <1>2, <1>3

LEMMA AppliedAll ==
  ASSUME NEW S \in SUBSET Versions
  PROVE  Applied(createAggregate(TRUE), RecordsOf(S), 1) = AggregateOf(S)
<1> DEFINE agg == createAggregate(TRUE)
           D == RecordsOf(S)
           Hands(U) == {r.version : r \in U}
           Fits(f) == f = [U \in SUBSET D |->
                             IF U = {} THEN agg
                             ELSE LET q == CHOOSE q \in U : TRUE
                                  IN applyContributionToAggregate(f[U \ {q}], q, 1)]
           after == CHOOSE f : Fits(f)
           g == [U \in SUBSET D |-> AggregateOf(Hands(U))]
<1>1. agg = AggregateOf({})
  <2>1. SumOf({}) = NoCounters /\ BucketsOf({}) = {}
    BY DEF SumOf, NoCounters, BucketsOf
  <2>2. agg = [ready |-> TRUE, totals |-> NoCounters, buckets |-> {}, here |-> TRUE]
    BY DEF createAggregate
  <2> QED BY <2>1, <2>2 DEF AggregateOf
<1>2. \A U \in SUBSET D : \A q \in U :
        /\ q.version \in Versions /\ q = recordFromContribution(q.version)
        /\ Hands(U \ {q}) \in SUBSET Versions /\ q.version \notin Hands(U \ {q})
        /\ Hands(U) = Hands(U \ {q}) \cup {q.version}
  <2>1. D \subseteq Records
    BY DEF RecordsOf, Records
  <2> HIDE DEF D
  <2> QED BY <2>1, RecordFacts
<1>3. ASSUME NEW U \in SUBSET D, U # {}
      PROVE  LET q == CHOOSE q \in U : TRUE IN g[U] = applyContributionToAggregate(g[U \ {q}], q, 1)
  <2> DEFINE q == CHOOSE q \in U : TRUE
  <2>1. q \in U /\ U \ {q} \in SUBSET D
    BY <1>3
  <2> HIDE DEF q
  <2>2. g[U \ {q}] = AggregateOf(Hands(U \ {q})) /\ g[U] = AggregateOf(Hands(U))
    BY <2>1
  <2> HIDE DEF g, Hands, D
  <2>3. g[U] = applyContributionToAggregate(g[U \ {q}], q, 1)
    <3>1. /\ q.version \in Versions /\ q = recordFromContribution(q.version)
          /\ Hands(U \ {q}) \in SUBSET Versions /\ q.version \notin Hands(U \ {q})
          /\ Hands(U) = Hands(U \ {q}) \cup {q.version}
      BY <1>2, <2>1
    <3>2. applyContributionToAggregate(AggregateOf(Hands(U \ {q})), recordFromContribution(q.version), 1)
            = AggregateOf(Hands(U \ {q}) \cup {q.version})
      BY <3>1, Adding
    <3> QED BY <2>2, <3>1, <3>2
  <2> QED BY <2>3 DEF q
<1>4. g[{}] = agg
  BY <1>1
<1>5. Fits(g)
  BY <1>3, <1>4
<1>6. Fits(after)
  BY <1>5
<1> HIDE DEF after, g, agg
<1>7. IsFiniteSet(D)
  <2> DEFINE f == [v \in S |-> recordFromContribution(v)]
  <2>1. f \in Surjection(S, D)
    BY DEF Surjection, RecordsOf
  <2> QED BY <2>1, VersionFacts, FS_Subset, FS_Surjection
<1> HIDE DEF D
<1>8. after[D] = g[D]
  <2> DEFINE G == {U \in SUBSET D : after[U] = g[U]}
  <2>1. \A U \in SUBSET D : after[U] = IF U = {} THEN agg
                                       ELSE LET q == CHOOSE q \in U : TRUE
                                            IN applyContributionToAggregate(after[U \ {q}], q, 1)
    BY <1>6
  <2>2. {} \in G
    BY <1>4, <2>1
  <2>3. ASSUME NEW U \in SUBSET D, U # {}, U \ {CHOOSE x \in U : TRUE} \in G
        PROVE  U \in G
    BY <1>3, <2>1, <2>3
  <2> HIDE DEF G
  <2>4. \A U \in SUBSET D : U \in G
    BY <1>7, <2>2, <2>3, SetInduction
  <2> QED BY <2>4 DEF G
<1>9. Hands(D) = S
  BY RecordFacts DEF D, RecordsOf
<1>10. Applied(agg, D, 1) = after[D]
  BY DEF Applied, after
<1> QED BY <1>8, <1>9, <1>10 DEF g, D, agg

-----------------------------------------------------------------------------
(* The rows of a player whose hands change.                                *)

Cell(R, key) == {b \in R : latestCellKey(b) = key}
InWindow(a, R) == Cardinality(Above(a, Cell(R, latestCellKey(a)))) < Latest

LEMMA TrimmedRows ==
  /\ \A R : trimRecordsToLatestCells(R) = {a \in R : InWindow(a, R)}
  /\ \A R, key : NewestOf(Cell(R, key), Latest) = {a \in Cell(R, key) : InWindow(a, R)}
BY DEF trimRecordsToLatestCells, NewestOf, InWindow, Above, Cell

LEMMA CellFacts ==
  ASSUME NEW R, OneEach(R), NEW a
  PROVE  /\ \A key : OneEach(Cell(R, key))
         /\ \A key : IsFiniteSet(Above(a, Cell(R, key))) /\ Cardinality(Above(a, Cell(R, key))) \in Nat
<1>1. \A key : OneEach(Cell(R, key))
  BY FS_Subset DEF OneEach, Cell
<1>2. \A key : Above(a, Cell(R, key)) \subseteq R
  BY DEF Above, Cell
<1>3. IsFiniteSet(R)
  BY DEF OneEach
<1>4. \A key : IsFiniteSet(Above(a, Cell(R, key)))
  BY <1>2, <1>3, FS_Subset
<1> QED BY <1>1, <1>4, FS_CardinalityType

HandRows(R, h) == {r \in R : r.version.handId = h}
OtherRows(R, h) == {r \in R : r.version.handId # h}

\* A row that leaves, or is replaced without moving, lets no other one into the window
\* that is not there yet; the new row takes the place of the oldest.
LEMMA WindowKept ==
  ASSUME NEW C, OneEach(C), NEW new, NEW h,
         \A r \in new : r.version.handId = h,
         OneEach(OtherRows(C, h) \cup new),
         ~invalidatesWindow(HandRows(trimRecordsToLatestCells(C), h), new)
  PROVE  TrimCell(OtherRows(trimRecordsToLatestCells(C), h) \cup new, new)
           = trimRecordsToLatestCells(OtherRows(C, h) \cup new)
<1> USE DEF HandRows, OtherRows
<1> DEFINE kept == trimRecordsToLatestCells(C)
           prev == {r \in C : r.version.handId = h}
           old == {r \in kept : r.version.handId = h}
           D == OtherRows(C, h) \cup new
           X == {r \in kept : r.version.handId # h} \cup new
<1>1. kept = {a \in C : InWindow(a, C)} /\ trimRecordsToLatestCells(D) = {a \in D : InWindow(a, D)}
  BY TrimmedRows
<1>2. X \subseteq D /\ OneEach(D) /\ old = {r \in prev : InWindow(r, C)}
  BY <1>1
<1>3. ASSUME NEW a \in D, InWindow(a, D) PROVE a \in X
  <2> SUFFICES ASSUME a \in C, a \notin prev PROVE InWindow(a, C)
    BY <1>1
  <2> DEFINE M == Cell(C, latestCellKey(a))
             N == Cell(D, latestCellKey(a))
  <2>1. /\ IsFiniteSet(Above(a, M)) /\ Cardinality(Above(a, M)) \in Nat
        /\ IsFiniteSet(Above(a, N)) /\ Cardinality(Above(a, N)) \in Nat
        /\ Cardinality(Above(a, N)) < Latest /\ Latest \in Nat
    BY <1>2, <1>3, CellFacts, LedgerAssumption DEF InWindow
  <2>2. CASE \A p \in prev : p \notin Above(a, M)
    <3>1. Above(a, M) \subseteq Above(a, N)
      BY <2>2 DEF Above, Cell
    <3>2. Cardinality(Above(a, M)) <= Cardinality(Above(a, N))
      BY <2>1, <3>1, RankMonotone
    <3> QED BY <2>1, <3>2 DEF InWindow
  <2>3. ASSUME NEW p \in prev, p \in Above(a, M), InWindow(p, C) PROVE InWindow(a, C)
    <3>1. p \in old
      BY <1>2, <2>3
    <3>2. PICK r \in new : /\ latestCellKey(r) = latestCellKey(p)
                           /\ r.hasTimestamp = p.hasTimestamp /\ r.sortTimestamp = p.sortTimestamp
      BY <3>1 DEF invalidatesWindow
    <3>3. r.version.handId = p.version.handId
      BY <2>3, <3>2
    <3>4. Newer(p, a) /\ latestCellKey(p) = latestCellKey(a)
      BY <2>3 DEF Above, Cell
    <3>5. Newer(r, a)
      BY <3>2, <3>3, <3>4 DEF Newer
    <3>6. r \in Above(a, N)
      BY <3>2, <3>4, <3>5 DEF Above, Cell
    <3>7. \A q \in prev : q = p
      BY <2>3 DEF OneEach
    <3>8. Above(a, M) \ {p} \subseteq Above(a, N) \ {r}
      <4> SUFFICES ASSUME NEW b \in Above(a, M), b # p PROVE b \in Above(a, N) /\ b # r
        OBVIOUS
      <4>1. b \in C /\ b \notin prev
        BY <3>7 DEF Above, Cell
      <4>2. b.version.handId # r.version.handId
        BY <3>2, <4>1
      <4> QED BY <4>1, <4>2 DEF Above, Cell
    <3>9. /\ IsFiniteSet(Above(a, N) \ {r})
          /\ Cardinality(Above(a, N) \ {r}) = Cardinality(Above(a, N)) - 1
          /\ Cardinality(Above(a, M) \ {p}) = Cardinality(Above(a, M)) - 1
      BY <2>1, <2>3, <3>6, FS_RemoveElement
    <3>10. Cardinality(Above(a, M) \ {p}) <= Cardinality(Above(a, N) \ {r})
      BY <3>8, <3>9, RankMonotone
    <3> QED BY <2>1, <3>9, <3>10 DEF InWindow
  <2>4. ASSUME NEW p \in prev, p \in Above(a, M), ~InWindow(p, C) PROVE FALSE
    <3>1. Newer(p, a) /\ latestCellKey(p) = latestCellKey(a)
      BY <2>4 DEF Above, Cell
    <3>2. C \subseteq Records
      BY DEF OneEach
    <3>3. Above(p, M) \subseteq Above(a, N)
      <4> SUFFICES ASSUME NEW b \in M, Newer(b, p) PROVE b \in Above(a, N)
        BY DEF Above
      <4>1. b \in C /\ b \in Records /\ p \in Records /\ a \in Records
        BY <3>2 DEF Cell
      <4>2. b # p /\ Newer(b, a)
        BY <3>1, <4>1, NewerOrder
      <4>3. b.version.handId # h
        BY <4>1, <4>2 DEF OneEach
      <4> QED BY <4>1, <4>2, <4>3 DEF Above, Cell
    <3>4. Cardinality(Above(p, M)) <= Cardinality(Above(a, N)) /\ Cardinality(Above(p, M)) \in Nat
      BY <2>1, <3>3, RankMonotone
    <3>5. ~(Cardinality(Above(p, M)) < Latest)
      BY <2>4, <3>1 DEF InWindow
    <3> QED BY <2>1, <3>4, <3>5
  <2> QED BY <2>2, <2>3, <2>4
<1>4. \A key : NewestOf(Cell(X, key), Latest) = NewestOf(Cell(D, key), Latest)
  <2> SUFFICES ASSUME NEW key PROVE NewestOf(Cell(X, key), Latest) = NewestOf(Cell(D, key), Latest)
    OBVIOUS
  <2>1. OneEach(Cell(D, key)) /\ Latest \in Nat /\ Cell(X, key) \subseteq Cell(D, key)
    BY <1>2, CellFacts, LedgerAssumption DEF Cell
  <2>2. NewestOf(Cell(D, key), Latest) \subseteq Cell(X, key)
    <3> SUFFICES ASSUME NEW a \in NewestOf(Cell(D, key), Latest) PROVE a \in Cell(X, key)
      OBVIOUS
    <3> HIDE DEF D, X
    <3>1. a \in Cell(D, key) /\ InWindow(a, D)
      BY TrimmedRows
    <3>2. a \in D /\ latestCellKey(a) = key
      BY <3>1 DEF Cell
    <3> QED BY <1>3, <3>1, <3>2 DEF Cell
  <2> QED BY <2>1, <2>2, SameNewest
<1>5. TrimCell(X, new) = {a \in X : \A r \in new : latestCellKey(a) = latestCellKey(r) =>
                                      a \in NewestOf(Cell(X, latestCellKey(r)), Latest)}
  BY DEF TrimCell, Cell
<1>6. ASSUME NEW a \in X
      PROVE  (\A r \in new : latestCellKey(a) = latestCellKey(r) =>
                a \in NewestOf(Cell(X, latestCellKey(r)), Latest)) <=> InWindow(a, D)
  <2>1. a \in D /\ a \in Cell(D, latestCellKey(a))
    BY <1>2 DEF Cell
  <2>2. \A key : a \in NewestOf(Cell(X, key), Latest) <=> a \in Cell(D, key) /\ InWindow(a, D)
    BY <1>4, TrimmedRows
  <2>3. CASE \E r \in new : latestCellKey(a) = latestCellKey(r)
    BY <2>1, <2>2, <2>3
  <2>4. CASE \A r \in new : latestCellKey(a) # latestCellKey(r)
    <3>1. a \in C /\ InWindow(a, C)
      BY <1>1, <2>4
    <3>2. Above(a, Cell(D, latestCellKey(a))) \subseteq Above(a, Cell(C, latestCellKey(a)))
      BY <2>4 DEF Above, Cell
    <3>3. /\ IsFiniteSet(Above(a, Cell(C, latestCellKey(a))))
          /\ Cardinality(Above(a, Cell(C, latestCellKey(a)))) \in Nat
          /\ Cardinality(Above(a, Cell(D, latestCellKey(a)))) \in Nat
      BY <1>2, CellFacts
    <3>4. Cardinality(Above(a, Cell(D, latestCellKey(a)))) <= Cardinality(Above(a, Cell(C, latestCellKey(a))))
      BY <3>2, <3>3, RankMonotone
    <3>5. InWindow(a, D)
      BY <3>1, <3>3, <3>4, LedgerAssumption DEF InWindow
    <3> QED BY <2>4, <3>5
  <2> QED BY <2>3, <2>4
<1>7. TrimCell(X, new) = {a \in D : InWindow(a, D)}
  BY <1>2, <1>3, <1>5, <1>6
<1> QED BY <1>1, <1>7

-----------------------------------------------------------------------------
(* The hands of the canonical tables, and their records.                   *)

SeatedIn(H) == {H[h] : h \in HandIds} \cap Versions
IsTable(H) == /\ DOMAIN H = HandIds
              /\ \A h \in HandIds : H[h] \in VersionsOf(h) \cup {NotStored, Absent}
\* The version a hand has, if the player is seated in it.
Now(h, v) == {v} \cap VersionsOf(h)

LEMMA RecordCount ==
  ASSUME NEW S \in SUBSET Versions
  PROVE  /\ IsFiniteSet(S) /\ IsFiniteSet(RecordsOf(S)) /\ RecordsOf(S) \subseteq Records
         /\ Cardinality(RecordsOf(S)) = Cardinality(S)
<1> DEFINE f == [v \in S |-> recordFromContribution(v)]
<1>1. IsFiniteSet(S)
  BY VersionFacts, FS_Subset
<1>2. \A v, w \in S : f[v] = f[w] => v = w
  BY RecordFacts
<1>3. f \in Bijection(S, RecordsOf(S))
  BY <1>2 DEF Bijection, Injection, Surjection, IsInjective, RecordsOf
<1>4. IsFiniteSet(RecordsOf(S)) /\ Cardinality(RecordsOf(S)) = Cardinality(S)
  BY <1>1, <1>3, FS_Bijection DEF ExistsBijection
<1> QED BY <1>1, <1>4, RecordFacts DEF RecordsOf

LEMMA SeatedFacts ==
  ASSUME NEW H, IsTable(H)
  PROVE  /\ SeatedIn(H) \in SUBSET Versions /\ OneEach(RecordsOf(SeatedIn(H)))
         /\ \A v \in SeatedIn(H) : v = H[v.handId]
<1>1. \A v \in SeatedIn(H) : v = H[v.handId]
  BY VersionFacts DEF SeatedIn, IsTable
<1>2. \A a, b \in RecordsOf(SeatedIn(H)) : a.version.handId = b.version.handId => a = b
  BY <1>1, RecordFacts DEF RecordsOf, SeatedIn
<1> QED BY <1>1, <1>2, RecordCount, SeatedIn(H) \subseteq Versions DEF OneEach, SeatedIn

LEMMA CommittedHands ==
  ASSUME NEW H, IsTable(H), NEW h \in HandIds, NEW v \in VersionsOf(h) \cup {NotStored, Absent},
         NEW G, DOMAIN G = HandIds, G[h] = v, \A k \in HandIds : k # h => G[k] = H[k]
  PROVE  /\ IsTable(G)
         /\ Now(h, H[h]) \subseteq SeatedIn(H)
         /\ \A w \in SeatedIn(H) : w.handId = h <=> w \in Now(h, H[h])
         /\ SeatedIn(G) = (SeatedIn(H) \ Now(h, H[h])) \cup Now(h, v)
         /\ Now(h, v) \cap (SeatedIn(H) \ Now(h, H[h])) = {}
<1>2. IsTable(G)
  BY DEF IsTable
<1>3. \A T, k : IsTable(T) /\ k \in HandIds =>
        /\ {w \in SeatedIn(T) : w.handId = k} = Now(k, T[k])
        /\ Now(k, T[k]) = {T[k]} \cap Versions
  BY VersionFacts DEF SeatedIn, IsTable, Now
<1>4. Now(h, H[h]) \subseteq SeatedIn(H) /\ Now(h, G[h]) \subseteq SeatedIn(G)
  BY <1>2, <1>3
<1>5. \A w : w \in SeatedIn(G) \ Now(h, v) <=> w \in SeatedIn(H) \ Now(h, H[h])
  <2>1. \A T, w : IsTable(T) => (w \in SeatedIn(T) \ Now(h, T[h]) <=>
                                  /\ w \in Versions /\ w.handId # h /\ w = T[w.handId])
    BY <1>3, SeatedFacts, VersionFacts DEF SeatedIn
  <2> QED BY <1>2, <2>1, VersionFacts
<1>6. Now(h, v) \cap (SeatedIn(H) \ Now(h, H[h])) = {}
  <2>1. \A w \in Now(h, v) : w.handId = h
    BY VersionFacts DEF Now
  <2> QED BY <1>3, <2>1
<1> QED BY <1>2, <1>3, <1>4, <1>5, <1>6

LEMMA ReadyKept ==
  ASSUME NEW agg, NEW h \in HandIds, NEW u, NEW d
  PROVE  Applied(agg, RecordsOf(Now(h, u)), d).ready = agg.ready
<1>1. \A r : applyContributionToAggregate(agg, r, d).ready = agg.ready
  BY DEF applyContributionToAggregate
<1>2. ASSUME NEW r PROVE Applied(agg, {}, d).ready = agg.ready /\ Applied(agg, {r}, d).ready = agg.ready
  <2>1. Applied(agg, {}, d) = agg /\ Applied(agg, {r}, d) = applyContributionToAggregate(agg, r, d)
    BY AppliedOne
  <2> QED BY <1>1, <2>1
<1>3. CASE RecordsOf(Now(h, u)) = {}
  BY <1>2, <1>3
<1>4. CASE RecordsOf(Now(h, u)) = {recordFromContribution(u)}
  <2>1. Applied(agg, {recordFromContribution(u)}, d).ready = agg.ready
    BY <1>2
  <2> QED BY <1>4, <2>1
<1>5. RecordsOf(Now(h, u)) = {} \/ RecordsOf(Now(h, u)) = {recordFromContribution(u)}
  BY DEF Now, RecordsOf
<1> QED BY <1>3, <1>4, <1>5

\* One version of a hand taken back and another one added.
LEMMA Exchanged ==
  ASSUME NEW S \in SUBSET Versions, NEW h \in HandIds, NEW v, NEW w,
         Now(h, v) \subseteq S, Now(h, w) \cap (S \ Now(h, v)) = {}
  PROVE  Applied(Applied(AggregateOf(S), RecordsOf(Now(h, v)), -1), RecordsOf(Now(h, w)), 1)
           = AggregateOf((S \ Now(h, v)) \cup Now(h, w))
<1>1. \A u : (Now(h, u) = {} /\ RecordsOf(Now(h, u)) = {})
             \/ (u \in Versions /\ Now(h, u) = {u} /\ RecordsOf(Now(h, u)) = {recordFromContribution(u)})
  BY VersionFacts DEF Now, RecordsOf
<1>3. Applied(AggregateOf(S), RecordsOf(Now(h, v)), -1) = AggregateOf(S \ Now(h, v))
  <2>1. CASE Now(h, v) = {} /\ RecordsOf(Now(h, v)) = {}
    <3>1. S \ Now(h, v) = S
      BY <2>1
    <3>2. Applied(AggregateOf(S), {}, -1) = AggregateOf(S)
      BY AppliedOne
    <3> QED BY <2>1, <3>1, <3>2
  <2>2. CASE v \in Versions /\ Now(h, v) = {v} /\ RecordsOf(Now(h, v)) = {recordFromContribution(v)}
    <3>1. Applied(AggregateOf(S), {recordFromContribution(v)}, -1)
            = applyContributionToAggregate(AggregateOf(S), recordFromContribution(v), -1)
      BY AppliedOne
    <3>2. v \in S
      BY <2>2
    <3>3. applyContributionToAggregate(AggregateOf(S), recordFromContribution(v), -1) = AggregateOf(S \ {v})
      BY <3>2, Removing
    <3> QED BY <2>2, <3>1, <3>3
  <2> QED BY <1>1, <2>1, <2>2
<1>4. Applied(AggregateOf(S \ Now(h, v)), RecordsOf(Now(h, w)), 1)
        = AggregateOf((S \ Now(h, v)) \cup Now(h, w))
  <2> DEFINE T == S \ Now(h, v)
  <2>1. T \in SUBSET Versions /\ Now(h, w) \cap T = {}
    OBVIOUS
  <2> HIDE DEF T
  <2>2. CASE Now(h, w) = {} /\ RecordsOf(Now(h, w)) = {}
    <3>1. T \cup Now(h, w) = T
      BY <2>2
    <3> QED BY <2>2, <3>1, AppliedOne DEF T
  <2>3. CASE w \in Versions /\ Now(h, w) = {w} /\ RecordsOf(Now(h, w)) = {recordFromContribution(w)}
    <3>1. w \notin T
      BY <2>1, <2>3
    <3>2. Applied(AggregateOf(T), RecordsOf(Now(h, w)), 1) = AggregateOf(T \cup {w})
      BY <2>1, <2>3, <3>1, AppliedOne, Adding
    <3> QED BY <2>3, <3>2 DEF T
  <2> QED BY <1>1, <2>2, <2>3
<1> QED BY <1>3, <1>4

-----------------------------------------------------------------------------
(* The ledger: the rows are records of hands that are stored, and a ready   *)
(* player has the rows and the aggregate of his baseline.                   *)

LedgerInv ==
  /\ IsTable(hands)
  /\ head \in BOOLEAN /\ aggregate.ready \in BOOLEAN
  /\ rows \subseteq Contributions
  /\ ~head => rows = {} /\ aggregate = NoAggregate
  /\ head /\ aggregate.ready => rows = BaselineRows /\ aggregate = AggregateOf(Seated)

LEMMA ReadyMeansBaseline ==
  /\ NoAggregate.ready = FALSE /\ NoAggregate.here = FALSE
  /\ \A ready : createAggregate(ready).ready = ready
  /\ \A S : AggregateOf(S).ready = TRUE /\ AggregateOf(S).here = TRUE
BY DEF NoAggregate, createAggregate, AggregateOf

LEMMA CommitKeepsLedger ==
  ASSUME LedgerInv, NEW h \in HandIds, NEW v \in VersionsOf(h) \cup {Absent},
         replaceCompletedHandContributions(h, v)
  PROVE  LedgerInv'
<1> DEFINE S == SeatedIn(hands)
           P == Now(h, hands[h])
           N == Now(h, v)
           T == (S \ P) \cup N
           old == {r \in rows : r.version.handId = h}
           new == RecordsOf(N)
           replaced == Applied(Applied(aggregate, RecordsOf(P), -1), new, 1)
           begins == ~head /\ Stored \subseteq {h} /\ ~aggregate.here
           started == Applied(createAggregate(begins), new, 1)
<1>1. /\ IsTable(hands') /\ Seated' = T /\ Contributions' = RecordsOf(T)
      /\ P \subseteq S /\ (\A w \in S : w.handId = h <=> w \in P) /\ N \cap (S \ P) = {}
      /\ Seated = S /\ Contributions = RecordsOf(S)
  <2>1. IsTable(hands) /\ hands' = [hands EXCEPT ![h] = v] /\ v \in VersionsOf(h) \cup {NotStored, Absent}
    BY DEF LedgerInv, replaceCompletedHandContributions
  <2>2. DOMAIN hands' = HandIds /\ hands'[h] = v /\ \A k \in HandIds : k # h => hands'[k] = hands[k]
    BY <2>1 DEF IsTable
  <2> DEFINE H == hands
             G == hands'
  <2>4. IsTable(H) /\ DOMAIN G = HandIds /\ G[h] = v /\ \A k \in HandIds : k # h => G[k] = H[k]
    BY <2>1, <2>2
  <2> HIDE DEF G, H
  <2>5. /\ IsTable(G) /\ SeatedIn(G) = (SeatedIn(H) \ Now(h, H[h])) \cup Now(h, v)
        /\ Now(h, H[h]) \subseteq SeatedIn(H) /\ Now(h, v) \cap (SeatedIn(H) \ Now(h, H[h])) = {}
        /\ \A w \in SeatedIn(H) : w.handId = h <=> w \in Now(h, H[h])
    BY <2>1, <2>4, CommittedHands
  <2>3. /\ IsTable(hands') /\ SeatedIn(hands') = T
        /\ P \subseteq S /\ (\A w \in S : w.handId = h <=> w \in P) /\ N \cap (S \ P) = {}
    BY <2>5 DEF G, H
  <2> HIDE DEF S, T
  <2> QED BY <2>3 DEF Seated, Contributions, RecordsOf, SeatedIn, S
<1>2. /\ S \in SUBSET Versions /\ T \in SUBSET Versions /\ N \in SUBSET Versions
      /\ OneEach(RecordsOf(S)) /\ OneEach(RecordsOf(T))
  <2>1. T = SeatedIn(hands')
    BY <1>1 DEF Seated, SeatedIn
  <2>2. T \in SUBSET Versions /\ OneEach(RecordsOf(T))
    BY <1>1, <2>1, SeatedFacts
  <2> QED BY <2>2, SeatedFacts DEF LedgerInv
<1>3. /\ {r \in RecordsOf(S) : r.version.handId = h} = RecordsOf(P)
      /\ RecordsOf(T) = OtherRows(RecordsOf(S), h) \cup new
  <2>1. \A w \in Versions : recordFromContribution(w).version = w
    BY RecordFacts
  <2> HIDE DEF S, P, N
  <2>2. {r \in RecordsOf(S) : r.version.handId = h} = RecordsOf(P)
    BY <1>1, <1>2, <2>1 DEF RecordsOf
  <2>3. RecordsOf(S \ P) = RecordsOf(S) \ RecordsOf(P)
    BY <1>1, <1>2, <2>1 DEF RecordsOf
  <2>4. OtherRows(RecordsOf(S), h) = RecordsOf(S) \ RecordsOf(P)
    BY <2>2 DEF OtherRows
  <2>5. RecordsOf(T) = RecordsOf(S \ P) \cup new
    BY DEF RecordsOf
  <2> QED BY <2>2, <2>3, <2>4, <2>5
<1>4. \A r \in new : r.version.handId = h
  BY <1>2, RecordFacts, VersionFacts DEF RecordsOf, Now
<1>5. rows \subseteq RecordsOf(S) /\ old \subseteq RecordsOf(P)
  BY <1>1, <1>3 DEF LedgerInv
<1>6. /\ head' = TRUE /\ rows' = TrimCell((rows \ old) \cup new, new)
      /\ aggregate' = IF RecordsOf(P) \cup new = {} THEN aggregate
                      ELSE IF ~invalidatesWindow(old, new) /\ aggregate.here THEN replaced
                      ELSE started
  <2>1. Record(h, v) = new /\ Record(h, hands[h]) = RecordsOf(P)
    BY DEF Record, RecordsOf, Now
  <2>2. hands[h] = NotStored => P = {}
    BY LedgerAssumption DEF Now
  <2>3. (IF hands[h] = NotStored THEN old ELSE Record(h, hands[h])) = RecordsOf(P)
    <3>1. CASE hands[h] = NotStored
      <4>1. RecordsOf(P) = {}
        BY <2>2, <3>1 DEF RecordsOf
      <4> QED BY <1>5, <3>1, <4>1
    <3>2. CASE hands[h] # NotStored
      BY <2>1, <3>2
    <3> QED BY <3>1, <3>2
  <2> HIDE DEF P, N, new
  <2> QED BY <2>1, <2>3 DEF replaceCompletedHandContributions
<1>7. rows' \subseteq Contributions'
  <2>1. rows' \subseteq (rows \ old) \cup new
    BY <1>6 DEF TrimCell
  <2>2. (rows \ old) \cup new \subseteq RecordsOf(T)
    BY <1>3, <1>5 DEF OtherRows
  <2> QED BY <1>1, <2>1, <2>2
<1>8. replaced.ready = aggregate.ready /\ started.ready = begins
  <2> HIDE DEF S, begins
  <2>1. \A agg : /\ Applied(Applied(agg, RecordsOf(P), -1), new, 1).ready = agg.ready
                 /\ Applied(agg, new, 1).ready = agg.ready
    BY ReadyKept
  <2> QED BY <2>1, ReadyMeansBaseline
<1>9. \/ aggregate'.ready = FALSE
      \/ rows' = trimRecordsToLatestCells(RecordsOf(T)) /\ aggregate' = AggregateOf(T)
  <2>1. RecordsOf(P) \cup new = {} => P = {} /\ N = {}
    BY DEF RecordsOf
  <2>2. CASE head /\ aggregate.ready
    <3>1. rows = trimRecordsToLatestCells(RecordsOf(S)) /\ aggregate = AggregateOf(S)
      BY <1>1, <2>2 DEF LedgerInv, BaselineRows
    <3>2. ~begins
      BY <2>2
    <3>3. CASE invalidatesWindow(old, new)
      <4>1. RecordsOf(P) # {}
        BY <1>5, <3>3 DEF invalidatesWindow
      <4>2. aggregate' = started
        BY <1>6, <3>3, <4>1
      <4> QED BY <1>8, <3>2, <4>2
    <3>4. CASE ~invalidatesWindow(old, new)
      <4>1. rows' = trimRecordsToLatestCells(RecordsOf(T))
        <5> DEFINE C == RecordsOf(S)
        <5>1. /\ OneEach(C) /\ OneEach(OtherRows(C, h) \cup new)
              /\ ~invalidatesWindow(HandRows(trimRecordsToLatestCells(C), h), new)
          BY <1>2, <1>3, <3>1, <3>4 DEF HandRows
        <5> HIDE DEF C, new
        <5>2. TrimCell(OtherRows(trimRecordsToLatestCells(C), h) \cup new, new)
                = trimRecordsToLatestCells(OtherRows(C, h) \cup new)
          BY <1>4, <5>1, WindowKept
        <5>3. rows \ old = OtherRows(trimRecordsToLatestCells(C), h)
          BY <3>1 DEF C, OtherRows
        <5> QED BY <1>3, <1>6, <5>2, <5>3 DEF C
      <4>2. replaced = AggregateOf(T)
        BY <1>1, <1>2, <3>1, Exchanged
      <4>3. CASE RecordsOf(P) \cup new = {}
        <5>1. T = S
          BY <2>1, <4>3
        <5> QED BY <1>6, <3>1, <4>1, <4>3, <5>1
      <4>4. CASE RecordsOf(P) \cup new # {}
        BY <1>6, <3>1, <3>4, <4>1, <4>2, <4>4, ReadyMeansBaseline
      <4> QED BY <4>3, <4>4
    <3> QED BY <3>3, <3>4
  <2>3. CASE ~head
    <3>1. rows = {} /\ aggregate = NoAggregate /\ ~aggregate.here /\ ~aggregate.ready
      BY <2>3, ReadyMeansBaseline DEF LedgerInv
    <3>2. CASE RecordsOf(P) \cup new = {}
      BY <1>6, <3>1, <3>2
    <3>3. CASE RecordsOf(P) \cup new # {}
      <4>1. aggregate' = started
        BY <1>6, <3>1, <3>3
      <4>2. CASE begins
        <5>1. T = N
          <6>1. \A k \in HandIds : k # h => hands[k] = NotStored
            BY <4>2 DEF Stored
          <6>2. \A w \in S : w.handId = h
            <7>1. IsTable(hands)
              BY DEF LedgerInv
            <7>2. \A w \in S : w = hands[w.handId] /\ w \in Versions
              BY <7>1, SeatedFacts DEF SeatedIn
            <7> QED BY <6>1, <7>2, VersionFacts
          <6> QED BY <1>1, <6>2
        <5>2. begins = TRUE /\ aggregate' = Applied(createAggregate(TRUE), new, 1)
          BY <2>3, <3>1, <4>1, <4>2
        <5>3. aggregate' = AggregateOf(N)
          BY <1>2, <5>2, AppliedAll
        <5>4. rows' = TrimCell(new, new)
          BY <1>6, <3>1
        <5>5. TrimCell(new, new) = trimRecordsToLatestCells(new)
          <6> DEFINE C == {}
          <6>1. /\ trimRecordsToLatestCells(C) = {}
                /\ ~invalidatesWindow(HandRows(trimRecordsToLatestCells(C), h), new)
            BY DEF trimRecordsToLatestCells, invalidatesWindow, HandRows
          <6>2. OneEach(C) /\ OtherRows(C, h) \cup new = new
            BY FS_EmptySet DEF OneEach, OtherRows
          <6>3. OneEach(OtherRows(C, h) \cup new)
            BY <1>2, <5>1, <6>2
          <6> HIDE DEF C, new
          <6>4. TrimCell(OtherRows(trimRecordsToLatestCells(C), h) \cup new, new)
                  = trimRecordsToLatestCells(OtherRows(C, h) \cup new)
            BY <1>4, <6>1, <6>2, <6>3, WindowKept
          <6>5. OtherRows(trimRecordsToLatestCells(C), h) \cup new = new
            BY <6>1 DEF OtherRows
          <6> QED BY <6>2, <6>4, <6>5
        <5> QED BY <5>1, <5>3, <5>4, <5>5
      <4>3. CASE ~begins
        BY <1>8, <4>1, <4>3
      <4> QED BY <4>2, <4>3
    <3> QED BY <3>2, <3>3
  <2>4. CASE head /\ ~aggregate.ready
    <3>1. ~begins /\ aggregate.ready = FALSE
      BY <2>4 DEF LedgerInv
    <3> QED BY <1>6, <1>8, <3>1
  <2> QED BY <2>2, <2>3, <2>4 DEF LedgerInv
<1>10. aggregate'.ready \in BOOLEAN
  BY <1>6, <1>8 DEF LedgerInv
<1> QED BY <1>1, <1>6, <1>7, <1>9, <1>10 DEF LedgerInv, BaselineRows

LEMMA BaselineIsSum ==
  ASSUME IsTable(hands)
  PROVE  /\ Baseline = AggregateOf(Seated) /\ BaselineRows \subseteq Contributions
         /\ Seated = SeatedIn(hands) /\ Contributions = RecordsOf(Seated)
<1>1. Seated = SeatedIn(hands) /\ Seated \in SUBSET Versions /\ Contributions = RecordsOf(Seated)
  BY DEF Seated, SeatedIn, Contributions, RecordsOf
<1>2. Baseline = AggregateOf(Seated)
  BY <1>1, AppliedAll DEF Baseline
<1>3. BaselineRows \subseteq Contributions
  BY DEF BaselineRows, trimRecordsToLatestCells
<1> QED BY <1>1, <1>2, <1>3

LEMMA LedgerInit == InitLedger => LedgerInv
BY ReadyMeansBaseline DEF InitLedger, LedgerInv, IsTable

LEMMA LedgerNext ==
  ASSUME LedgerInv, NextLedger \/ UNCHANGED ledger
  PROVE  LedgerInv'
<1>1. CASE CommitHand
  BY <1>1, CommitKeepsLedger DEF CommitHand
<1>2. CASE ensurePlayerBaseline
  <2>1. /\ IsTable(hands) /\ Seated' = Seated /\ Contributions' = Contributions
        /\ BaselineRows' = BaselineRows /\ hands' = hands
    BY <1>2 DEF LedgerInv, ensurePlayerBaseline, Seated, Contributions, BaselineRows
  <2>2. head' = TRUE /\ rows' = BaselineRows /\ aggregate' = AggregateOf(Seated)
    BY <1>2, <2>1, BaselineIsSum DEF ensurePlayerBaseline
  <2> QED BY <2>1, <2>2, BaselineIsSum, ReadyMeansBaseline DEF LedgerInv
<1>3. CASE activateEmptyGenerationAfterCanonicalRebuild
  BY <1>3, ReadyMeansBaseline DEF LedgerInv, activateEmptyGenerationAfterCanonicalRebuild
<1>4. CASE DeleteAllData
  <2>1. IsTable(hands') /\ head' = FALSE /\ rows' = {} /\ aggregate' = NoAggregate
    BY <1>4 DEF DeleteAllData, IsTable
  <2> QED BY <2>1, ReadyMeansBaseline DEF LedgerInv
<1>5. CASE UNCHANGED ledger
  BY <1>5 DEF LedgerInv, ledger, Contributions, Seated, BaselineRows
<1> QED BY <1>1, <1>2, <1>3, <1>4, <1>5 DEF NextLedger

-----------------------------------------------------------------------------
(* What a read answers.                                                    *)

\* The hands of a set that filters let through.
Matching(S, filters) ==
  {v \in S : /\ filters.battleTypes = All \/ v.battle \in filters.battleTypes
             /\ filters.tableSizeLayers = All \/ v.table \in filters.tableSizeLayers}
IsFilters(filters) ==
  /\ filters.battleTypes = All \/ filters.battleTypes \subseteq Known
  /\ filters.tableSizeLayers = All \/ filters.tableSizeLayers \subseteq Tables
  /\ filters.latestHands = All \/ (filters.latestHands \in Nat /\ filters.latestHands <= Latest)
Youngest(S, limit) == {v \in S : Cardinality({w \in S : Later(w, v)}) < limit}

\* The order of the records is the order of the hands.
LEMMA LaterIsNewer ==
  ASSUME NEW v \in Versions, NEW w \in Versions
  PROVE  Newer(recordFromContribution(w), recordFromContribution(v)) <=> Later(w, v)
<1>1. /\ v.time # Unknown => v.time \in Nat
      /\ w.time # Unknown => w.time \in Nat
  BY LedgerAssumption DEF Versions
<1> DEFINE a == recordFromContribution(w)
           b == recordFromContribution(v)
<1>2. /\ a.version = w /\ b.version = v
      /\ a.hasTimestamp = (w.time # Unknown) /\ b.hasTimestamp = (v.time # Unknown)
      /\ a.sortTimestamp = IF w.time = Unknown THEN 0 ELSE w.time
      /\ b.sortTimestamp = IF v.time = Unknown THEN 0 ELSE v.time
  BY DEF recordFromContribution
<1> SUFFICES Newer(a, b) <=> Later(w, v)
  OBVIOUS
<1> HIDE DEF a, b
<1>3. CASE v.time = Unknown /\ w.time = Unknown
  BY <1>2, <1>3 DEF Newer, Later
<1>4. CASE v.time # Unknown /\ w.time # Unknown
  BY <1>1, <1>2, <1>4 DEF Newer, Later
<1>5. CASE (v.time = Unknown) # (w.time = Unknown)
  BY <1>2, <1>5 DEF Newer, Later
<1> QED BY <1>3, <1>4, <1>5

LEMMA YoungestRows ==
  ASSUME NEW S \in SUBSET Versions, NEW limit
  PROVE  NewestOf(RecordsOf(S), limit) = RecordsOf(Youngest(S, limit))
<1>1. ASSUME NEW v \in S
      PROVE  Cardinality(Above(recordFromContribution(v), RecordsOf(S))) = Cardinality({w \in S : Later(w, v)})
  <2> DEFINE W == {w \in S : Later(w, v)}
  <2>1. Above(recordFromContribution(v), RecordsOf(S)) = RecordsOf(W)
    BY LaterIsNewer DEF Above, RecordsOf
  <2>2. W \in SUBSET Versions
    OBVIOUS
  <2> HIDE DEF W
  <2>3. Cardinality(RecordsOf(W)) = Cardinality(W)
    BY <2>2, RecordCount
  <2> QED BY <2>1, <2>3 DEF W
<1>2. NewestOf(RecordsOf(S), limit) = {a \in RecordsOf(S) : Cardinality(Above(a, RecordsOf(S))) < limit}
  BY DEF NewestOf, Above
<1> QED BY <1>1, <1>2 DEF RecordsOf, Youngest

\* The indexes a query walks hold the matching rows between them.
LEMMA WalkedRows ==
  ASSUME NEW S \in SUBSET Versions, NEW filters, IsFilters(filters)
  PROVE  /\ \A q \in IndexQueries(filters) : Walked(RecordsOf(S), q) \subseteq RecordsOf(Matching(S, filters))
         /\ \A a \in RecordsOf(Matching(S, filters)) : \E q \in IndexQueries(filters) : a \in Walked(RecordsOf(S), q)
<1> DEFINE battles == filters.battleTypes
           layers == filters.tableSizeLayers
           tablesOf(t) == IF t = All THEN {All} ELSE t
           queries == IF battles = All THEN {[battle |-> All, table |-> t] : t \in tablesOf(layers)}
                      ELSE IF battles = Known THEN {[battle |-> Known, table |-> t] : t \in tablesOf(layers)}
                      ELSE {[battle |-> {b}, table |-> t] : b \in battles, t \in tablesOf(layers)}
<1>1. IndexQueries(filters) = queries
  BY DEF IndexQueries, selectsEveryKnownBattleType
<1>2. /\ All \notin Tables /\ Known # All /\ \A b \in Known : {b} # All
      /\ battles = All \/ battles \subseteq Known
      /\ layers = All \/ layers \subseteq Tables
  BY LedgerAssumption DEF IsFilters
<1>3. \A v \in S : LET r == recordFromContribution(v)
                   IN r.version = v /\ (r.hasKnownBattle <=> v.battle \in Known)
  BY DEF recordFromContribution
<1>4. \A q \in queries : \A v \in S :
        recordFromContribution(v) \in Walked(RecordsOf(S), q) <=>
          /\ q.battle = All \/ v.battle \in q.battle
          /\ q.table \in {All, v.table}
  BY <1>2, <1>3 DEF Walked, RecordsOf
<1>5. \A v \in S : v \in Matching(S, filters) <=>
        /\ battles = All \/ v.battle \in battles
        /\ layers = All \/ v.table \in layers
  BY DEF Matching
<1>6. ASSUME NEW q \in queries, NEW v \in S, recordFromContribution(v) \in Walked(RecordsOf(S), q)
      PROVE  v \in Matching(S, filters)
  BY <1>2, <1>4, <1>5, <1>6
<1>7. ASSUME NEW v \in Matching(S, filters)
      PROVE  \E q \in queries : recordFromContribution(v) \in Walked(RecordsOf(S), q)
  <2>1. v \in S
    BY DEF Matching
  <2> DEFINE t == IF layers = All THEN All ELSE v.table
             q == [battle |-> IF battles = All THEN All ELSE IF battles = Known THEN Known ELSE {v.battle},
                   table |-> t]
  <2>2. q \in queries
    BY <1>5, <2>1
  <2>3. recordFromContribution(v) \in Walked(RecordsOf(S), q)
    BY <1>4, <1>5, <2>1, <2>2
  <2> QED BY <2>2, <2>3
<1> HIDE DEF queries
<1>8. \A q : Walked(RecordsOf(S), q) \subseteq RecordsOf(S)
  BY DEF Walked
<1> QED BY <1>1, <1>6, <1>7, <1>8 DEF RecordsOf

\* The newest rows of the cells are enough for the newest rows of any selection.
LEMMA NewestRowsAnswer ==
  ASSUME NEW S \in SUBSET Versions, OneEach(RecordsOf(S)), NEW filters, IsFilters(filters),
         filters.latestHands # All
  PROVE  readLatestRows(trimRecordsToLatestCells(RecordsOf(S)), filters, filters.latestHands)
           = RecordsOf(Youngest(Matching(S, filters), filters.latestHands))
<1> DEFINE C == RecordsOf(S)
           kept == trimRecordsToLatestCells(C)
           W == Matching(S, filters)
           M == RecordsOf(W)
           n == filters.latestHands
           U == UNION {NewestOf(Walked(kept, q), n) : q \in IndexQueries(filters)}
<1>1. n \in Nat /\ Latest \in Nat /\ n <= Latest
  BY LedgerAssumption DEF IsFilters
<1>2. M \subseteq C /\ W \in SUBSET Versions
  BY DEF Matching, RecordsOf
<1>3. OneEach(M) /\ C \subseteq Records
  BY <1>2, FS_Subset DEF OneEach
<1>4. kept = {a \in C : InWindow(a, C)}
  BY TrimmedRows
<1>5. \A q : Walked(kept, q) = kept \cap Walked(C, q)
  BY <1>4 DEF Walked
<1>6. /\ \A q \in IndexQueries(filters) : Walked(C, q) \subseteq M
      /\ \A a \in M : \E q \in IndexQueries(filters) : a \in Walked(C, q)
  BY WalkedRows
<1>7. U \subseteq M
  BY <1>5, <1>6 DEF NewestOf
<1>8. ASSUME NEW a \in NewestOf(M, n) PROVE a \in U
  <2>1. a \in M /\ Cardinality(Above(a, M)) < n
    BY DEF NewestOf, Above
  <2>2. \A R : R \subseteq M => /\ IsFiniteSet(Above(a, R)) /\ Cardinality(Above(a, R)) \in Nat
                                /\ Cardinality(Above(a, R)) <= Cardinality(Above(a, M))
                                /\ Cardinality(Above(a, M)) \in Nat
    <3>1. IsFiniteSet(Above(a, M))
      BY <1>3, FS_Subset, Above(a, M) \subseteq M DEF Above, OneEach
    <3>2. \A R : R \subseteq M => Above(a, R) \subseteq Above(a, M)
      BY DEF Above
    <3> HIDE DEF M
    <3> QED BY <3>1, <3>2, FS_Subset, RankMonotone
  <2>3. Above(a, Cell(C, latestCellKey(a))) \subseteq M /\ Above(a, Cell(C, latestCellKey(a))) \subseteq Cell(C, latestCellKey(a))
    <3>1. PICK v \in W : a = recordFromContribution(v)
      BY <2>1 DEF RecordsOf
    <3>2. ASSUME NEW b \in Cell(C, latestCellKey(a)) PROVE b \in M
      <4>1. PICK w \in S : b = recordFromContribution(w)
        BY <3>2 DEF Cell, RecordsOf
      <4>2. w.battle = v.battle /\ w.table = v.table
        BY <1>2, <3>1, <3>2, <4>1, RecordFacts DEF Cell, latestCellKey
      <4>3. w \in W
        BY <3>1, <4>2 DEF Matching
      <4> QED BY <4>1, <4>3 DEF RecordsOf
    <3> QED BY <3>2 DEF Above
  <2>4. InWindow(a, C)
    <3> DEFINE R == Above(a, Cell(C, latestCellKey(a)))
    <3>1. Above(a, R) = R
      BY DEF Above
    <3>2. Cardinality(R) <= Cardinality(Above(a, M)) /\ Cardinality(R) \in Nat /\ Cardinality(Above(a, M)) \in Nat
      <4> HIDE DEF R, M
      <4> QED BY <2>2, <2>3, <3>1 DEF R
    <3> QED BY <1>1, <2>1, <3>2 DEF InWindow
  <2>5. PICK q \in IndexQueries(filters) : a \in Walked(C, q)
    BY <1>6, <2>1
  <2>6. a \in Walked(kept, q) /\ Walked(kept, q) \subseteq M
    BY <1>2, <1>4, <1>5, <1>6, <2>1, <2>4, <2>5
  <2>7. Cardinality(Above(a, Walked(kept, q))) < n
    <3> HIDE DEF M, kept, n
    <3> QED BY <1>1, <2>1, <2>2, <2>6
  <2> QED BY <2>5, <2>6, <2>7 DEF NewestOf, Above
<1>9. NewestOf(U, n) = NewestOf(M, n)
  <2> HIDE DEF U, M, n
  <2> QED BY <1>1, <1>3, <1>7, <1>8, SameNewest
<1>10. NewestOf(M, n) = RecordsOf(Youngest(W, n))
  BY <1>2, YoungestRows
<1> QED BY <1>9, <1>10 DEF readLatestRows

\* Sums over a selection of the buckets are sums over the hands of those buckets.
LEMMA BucketSums ==
  ASSUME NEW S \in SUBSET Versions, NEW B \in SUBSET BucketsOf(S), NEW W \in SUBSET S,
         \A v \in S : v \in W <=> BucketFor(S, bucketKey(v)) \in B
  PROVE  HandsOfBuckets(B) = Cardinality(W) /\ CountersOfBuckets(B) = SumOf(W)
<1>1. \A b \in B : b = BucketFor(S, b.key) /\ b.key \in {bucketKey(v) : v \in S}
  BY DEF BucketsOf, BucketFor
<1>2. \A b, c \in B : b # c => b.key # c.key
  BY <1>1
<1>3. IsFiniteSet(B)
  <2> DEFINE f == [v \in S |-> BucketFor(S, bucketKey(v))]
  <2>1. f \in Surjection(S, BucketsOf(S))
    BY DEF Surjection, BucketsOf
  <2>2. IsFiniteSet(S)
    BY VersionFacts, FS_Subset
  <2> HIDE DEF f
  <2> QED BY <2>1, <2>2, FS_Surjection, FS_Subset
<1> DEFINE Part == [b \in B |-> Mine(S, b.key)]
<1>4. AllOf(Part, B) = W
  <2>1. \A v \in W : \E b \in B : v \in Mine(S, b.key)
    BY DEF Mine, BucketFor
  <2>2. \A b \in B : Mine(S, b.key) \subseteq W
    BY <1>1 DEF Mine
  <2> QED BY <2>1, <2>2 DEF AllOf
<1>5. \A b, c \in B : b # c => Part[b] \cap Part[c] = {}
  BY <1>2 DEF Mine
<1>6. HandsOfBuckets(B) = Cardinality(W)
  <2> DEFINE f == [b \in B |-> b.handsN]
  <2>1. \A b \in B : IsFiniteSet(Part[b]) /\ f[b] = Cardinality(Part[b])
    BY <1>1, MineIsFinite DEF BucketFor
  <2>2. DOMAIN f = B
    OBVIOUS
  <2> HIDE DEF f, Part
  <2>3. Total(f) = Cardinality(AllOf(Part, B))
    BY <1>3, <1>5, <2>1, <2>2, TotalCounts
  <2> QED BY <1>4, <2>3 DEF HandsOfBuckets, f
<1>7. ASSUME NEW v \in Versions
      PROVE  Total([b \in B |-> b.counters[v]]) = SumOf(W)[v]
  <2> DEFINE f == [b \in B |-> b.counters[v]]
             One == [b \in B |-> Part[b] \cap {v}]
  <2>1. ASSUME NEW b \in B PROVE IsFiniteSet(One[b]) /\ f[b] = Cardinality(One[b])
    <3>1. b.counters = SumOf(Mine(S, b.key))
      BY <1>1 DEF BucketFor
    <3>2. f[b] = IF v \in Mine(S, b.key) THEN 1 ELSE 0
      BY <3>1 DEF SumOf
    <3>3. One[b] = IF v \in Mine(S, b.key) THEN {v} ELSE {}
      OBVIOUS
    <3>4. /\ IsFiniteSet({v}) /\ Cardinality({v}) = 1
          /\ IsFiniteSet({}) /\ Cardinality({}) = 0
      BY FS_Singleton, FS_EmptySet
    <3> HIDE DEF f, One
    <3> QED BY <3>2, <3>3, <3>4
  <2>2. \A b, c \in B : b # c => One[b] \cap One[c] = {}
    BY <1>5
  <2>3. DOMAIN f = B
    OBVIOUS
  <2>4. AllOf(One, B) = W \cap {v}
    BY <1>4 DEF AllOf
  <2> HIDE DEF f, One, Part
  <2>5. Total(f) = Cardinality(AllOf(One, B))
    BY <1>3, <2>1, <2>2, <2>3, TotalCounts
  <2>6. W \cap {v} = IF v \in W THEN {v} ELSE {}
    OBVIOUS
  <2>7. Cardinality(W \cap {v}) = IF v \in W THEN 1 ELSE 0
    BY <2>6, FS_Singleton, FS_EmptySet
  <2>8. SumOf(W)[v] = IF v \in W THEN 1 ELSE 0
    BY DEF SumOf
  <2> QED BY <2>4, <2>5, <2>7, <2>8 DEF f
<1>8. CountersOfBuckets(B) = SumOf(W)
  <2>1. SumOf(W) = [v \in Versions |-> SumOf(W)[v]]
    BY DEF SumOf
  <2> QED BY <1>7, <2>1 DEF CountersOfBuckets
<1> QED BY <1>6, <1>8

LEMMA TotalHands ==
  ASSUME NEW S \in SUBSET Versions
  PROVE  HandsCounter(SumOf(S)) = Cardinality(S)
<1> DEFINE One == [v \in Versions |-> S \cap {v}]
<1>1. ASSUME NEW v \in Versions PROVE IsFiniteSet(One[v]) /\ SumOf(S)[v] = Cardinality(One[v])
  <2>1. One[v] = IF v \in S THEN {v} ELSE {}
    OBVIOUS
  <2>2. SumOf(S)[v] = IF v \in S THEN 1 ELSE 0
    BY DEF SumOf
  <2>3. /\ IsFiniteSet({v}) /\ Cardinality({v}) = 1
        /\ IsFiniteSet({}) /\ Cardinality({}) = 0
    BY FS_Singleton, FS_EmptySet
  <2> HIDE DEF One
  <2> QED BY <2>1, <2>2, <2>3
<1>2. \A v, w \in Versions : v # w => One[v] \cap One[w] = {}
  OBVIOUS
<1>3. AllOf(One, Versions) = S
  BY DEF AllOf
<1>4. DOMAIN SumOf(S) = Versions
  BY DEF SumOf
<1> HIDE DEF One
<1>5. Total(SumOf(S)) = Cardinality(AllOf(One, Versions))
  BY <1>1, <1>2, <1>4, VersionFacts, TotalCounts
<1> QED BY <1>3, <1>5 DEF HandsCounter

At(S, p) == {v \in S : v.position = p}
\* A read that answers for the hands of a set: their number is the number before
\* the limit, their counters and positions are those of the chosen ones.
Answers(read, S, W, chosen) ==
  /\ read.totalHands = Cardinality(S) /\ read.matchedHandsBeforeLimit = Cardinality(W)
  /\ read.counters = SumOf(chosen)
  /\ \A v \in chosen : \E b \in read.positions : b.position = v.position
  /\ \A b \in read.positions : /\ b.handsN = Cardinality(At(chosen, b.position))
                               /\ b.counters = SumOf(At(chosen, b.position))
Chosen(S, limit) == IF limit = All THEN S ELSE Youngest(S, limit)

LEMMA ReadsTheChosen ==
  ASSUME NEW S \in SUBSET Versions, OneEach(RecordsOf(S)), NEW filters, IsFilters(filters)
  PROVE  LET W == Matching(S, filters)
         IN Answers(readPlayerAtHead(AggregateOf(S), trimRecordsToLatestCells(RecordsOf(S)), filters),
                    S, W, Chosen(W, filters.latestHands))
<1> DEFINE W == Matching(S, filters)
           agg == AggregateOf(S)
           kept == trimRecordsToLatestCells(RecordsOf(S))
           B == SelectedBuckets(agg, filters)
           n == filters.latestHands
           chosen == Chosen(W, n)
           unfiltered == filters.battleTypes = All /\ filters.tableSizeLayers = All
           records == readLatestRows(kept, filters, n)
           read == readPlayerAtHead(agg, kept, filters)
<1>1. agg.totals = SumOf(S) /\ agg.buckets = BucketsOf(S)
  BY DEF AggregateOf
<1>2. W \in SUBSET S /\ B \in SUBSET BucketsOf(S)
  BY <1>1 DEF Matching, SelectedBuckets
<1>3. \A v \in S : /\ BucketFor(S, bucketKey(v)) \in BucketsOf(S)
                   /\ BucketFor(S, bucketKey(v)).key = <<v.battle, v.table, v.position>>
  BY DEF BucketsOf, BucketFor, bucketKey
<1>4. \A v \in S : v \in W <=> BucketFor(S, bucketKey(v)) \in B
  <2> HIDE DEF agg
  <2> QED BY <1>1, <1>3 DEF Matching, SelectedBuckets
<1>5. HandsOfBuckets(B) = Cardinality(W) /\ CountersOfBuckets(B) = SumOf(W)
  <2> HIDE DEF B, W
  <2> QED BY <1>2, <1>4, BucketSums
<1>6. HandsCounter(agg.totals) = Cardinality(S)
  BY <1>1, TotalHands
<1>7. unfiltered => W = S
  BY DEF Matching
<1>8. /\ read.totalHands = HandsCounter(agg.totals)
      /\ read.matchedHandsBeforeLimit = IF unfiltered THEN HandsCounter(agg.totals) ELSE HandsOfBuckets(B)
      /\ read.counters = IF n # All THEN SumOf({r.version : r \in records})
                         ELSE IF unfiltered THEN agg.totals ELSE CountersOfBuckets(B)
      /\ read.positions = IF n # All THEN positionsFromContributionRows(records)
                          ELSE positionsFromAggregateBuckets(B)
  <2> HIDE DEF agg, kept
  <2> QED BY DEF readPlayerAtHead
<1> HIDE DEF agg, B, read, W
<1>9. read.totalHands = Cardinality(S) /\ read.matchedHandsBeforeLimit = Cardinality(W)
  BY <1>5, <1>6, <1>7, <1>8
<1>10. CASE n = All
  <2>1. chosen = W
    BY <1>10 DEF Chosen
  <2>2. read.counters = SumOf(W) /\ read.positions = positionsFromAggregateBuckets(B)
    BY <1>1, <1>5, <1>7, <1>8, <1>10
  <2> DEFINE mine(p) == {b \in B : b.key[3] = p}
  <2>3. positionsFromAggregateBuckets(B)
          = {[position |-> p, handsN |-> HandsOfBuckets(mine(p)), counters |-> CountersOfBuckets(mine(p))] :
               p \in {b.key[3] : b \in B}}
    BY DEF positionsFromAggregateBuckets
  <2>4. ASSUME NEW p
        PROVE  /\ HandsOfBuckets(mine(p)) = Cardinality(At(W, p))
               /\ CountersOfBuckets(mine(p)) = SumOf(At(W, p))
    <3> DEFINE D == mine(p)
               V == At(W, p)
    <3>1. D \in SUBSET BucketsOf(S) /\ V \in SUBSET S
      BY <1>2 DEF At
    <3>2. \A v \in S : v \in V <=> BucketFor(S, bucketKey(v)) \in D
      BY <1>3, <1>4 DEF At
    <3> HIDE DEF D, V
    <3>3. HandsOfBuckets(D) = Cardinality(V) /\ CountersOfBuckets(D) = SumOf(V)
      BY <3>1, <3>2, BucketSums
    <3> QED BY <3>3 DEF D, V
  <2> HIDE DEF mine
  <2>5. \A b \in read.positions : /\ b.handsN = Cardinality(At(W, b.position))
                                  /\ b.counters = SumOf(At(W, b.position))
    BY <2>2, <2>3, <2>4
  <2>6. \A v \in W : \E b \in read.positions : b.position = v.position
    <3> SUFFICES ASSUME NEW v \in W PROVE \E b \in read.positions : b.position = v.position
      OBVIOUS
    <3> DEFINE c == BucketFor(S, bucketKey(v))
               b == [position |-> v.position, handsN |-> HandsOfBuckets(mine(v.position)),
                     counters |-> CountersOfBuckets(mine(v.position))]
    <3>1. c \in B /\ c.key[3] = v.position
      BY <1>2, <1>3, <1>4
    <3>2. b \in read.positions /\ b.position = v.position
      BY <2>2, <2>3, <3>1
    <3> QED BY <3>2
  <2> HIDE DEF chosen
  <2> QED BY <1>9, <2>1, <2>2, <2>5, <2>6 DEF Answers, read, W, agg, chosen
<1>11. CASE n # All
  <2>1. chosen = Youngest(W, n) /\ chosen \subseteq W
    BY <1>11 DEF Chosen, Youngest
  <2>2. records = RecordsOf(chosen)
    BY <1>11, <2>1, NewestRowsAnswer DEF W
  <2>3. chosen \in SUBSET Versions
    BY <1>2, <2>1
  <2> HIDE DEF chosen, records
  <2>4. {r.version : r \in records} = chosen
    BY <2>2, <2>3, RecordFacts DEF RecordsOf
  <2>5. read.counters = SumOf(chosen) /\ read.positions = positionsFromContributionRows(records)
    BY <1>8, <1>11, <2>4
  <2> DEFINE these(p) == {s \in records : s.version.position = p}
             versions(p) == {r.version : r \in these(p)}
  <2>6. positionsFromContributionRows(records)
          = {[position |-> p, handsN |-> Cardinality(these(p)),
              counters |-> SumOf(versions(p))] : p \in {r.version.position : r \in records}}
    BY DEF positionsFromContributionRows
  <2>7. ASSUME NEW p
        PROVE  Cardinality(these(p)) = Cardinality(At(chosen, p)) /\ versions(p) = At(chosen, p)
    <3> DEFINE V == At(chosen, p)
    <3>1. V \in SUBSET Versions
      BY <2>3 DEF At
    <3>2. these(p) = RecordsOf(V)
      BY <2>2, <2>3, RecordFacts DEF RecordsOf, At
    <3> HIDE DEF V, these
    <3>3. Cardinality(RecordsOf(V)) = Cardinality(V) /\ {r.version : r \in RecordsOf(V)} = V
      BY <3>1, RecordCount, RecordFacts DEF RecordsOf
    <3> QED BY <3>2, <3>3 DEF V
  <2> HIDE DEF these, versions
  <2>8. \A b \in read.positions : /\ b.handsN = Cardinality(At(chosen, b.position))
                                  /\ b.counters = SumOf(At(chosen, b.position))
    BY <2>5, <2>6, <2>7
  <2>9. \A v \in chosen : \E b \in read.positions : b.position = v.position
    <3> SUFFICES ASSUME NEW v \in chosen PROVE \E b \in read.positions : b.position = v.position
      OBVIOUS
    <3> DEFINE r == recordFromContribution(v)
               b == [position |-> v.position, handsN |-> Cardinality(these(v.position)),
                     counters |-> SumOf(versions(v.position))]
    <3>1. r \in records /\ r.version.position = v.position
      BY <2>2, <2>3, RecordFacts DEF RecordsOf
    <3>2. b \in read.positions /\ b.position = v.position
      BY <2>5, <2>6, <3>1
    <3> QED BY <3>2
  <2> QED BY <1>9, <2>5, <2>8, <2>9 DEF Answers, read, W, agg, chosen
<1> QED BY <1>10, <1>11

-----------------------------------------------------------------------------
(* The settings: who agrees with whom while nothing has raced.             *)

OptionFields == {"gameTypes", "tableSize", "handLimit", "configs"}
IsOptions(o) ==
  /\ DOMAIN o = OptionFields
  /\ o.gameTypes \subseteq GameTypes /\ o.tableSize \subseteq Tables
  /\ o.handLimit \in Nat \cup {All}
IsStored(o) == o = Nothing \/ IsOptions(o)
Normalized(o) == o = Nothing \/ o.handLimit = normalizeStatsLatestHands(o.handLimit)
\* What the worker uses while nothing is stored.
InEffect(o) == IF o = Nothing THEN [Defaults EXCEPT !.gameTypes = {}] ELSE o
Same(o, p) ==
  /\ o.gameTypes = p.gameTypes /\ o.tableSize = p.tableSize
  /\ normalizeStatsLatestHands(o.handLimit) = normalizeStatsLatestHands(p.handLimit)
  /\ mergeStatDisplayConfigs(o.configs) = mergeStatDisplayConfigs(p.configs)
Fits(filters, o) ==
  /\ filters.battleTypes = battleTypesOf(o.gameTypes)
  /\ filters.tableSizeLayers = selectedTableSizeLayers(o.tableSize)
  /\ normalizeStatsLatestHands(filters.latestHands) = normalizeStatsLatestHands(o.handLimit)
  /\ \A s \in DOMAIN Stats : filters.configs[s] = mergeStatDisplayConfigs(o.configs)[s]
LastSent == sent[Len(sent)]
IsReader(reader, fields) ==
  /\ DOMAIN reader = {"pc", "read"} \cup fields
  /\ IsStored(reader.read.flat) /\ IsStored(reader.read.bucket)

SettingsTypes ==
  /\ IsStored(stored) /\ IsStored(bucket) /\ raced \in BOOLEAN
  /\ IsReader(popup, {"shown"}) /\ IsOptions(popup.shown) /\ IsReader(worker, {})
  /\ DOMAIN using = {"battleTypes", "tableSizeLayers", "latestHands", "configs"}
  /\ \E T : sent \in Seq(T) /\ \A o \in T : IsOptions(o)
\* Nothing is stored until something was migrated or changed.
NothingYet ==
  stored = Nothing =>
    /\ sent = <<>> /\ using.configs = Stats
    /\ \A reader \in {popup, worker} :
         /\ reader.pc # "remove"
         /\ reader.pc = "load" => reader.read.flat = Nothing /\ reader.read.bucket = bucket
\* What is under way to the worker, or else what he uses, is what is stored.
Agreement ==
  ~raced =>
    /\ worker.pc = "up" \/ sent # <<>> => Normalized(stored) /\ (stored = Nothing => bucket = Nothing)
    /\ worker.pc = "up" /\ sent = <<>> => Fits(using, InEffect(stored))
    /\ sent # <<>> => Same(LastSent, stored)
SettingsInv == SettingsTypes /\ NothingYet /\ Agreement

LEMMA LimitFacts ==
  /\ \A n \in Nat \cup {All} :
       LET m == normalizeStatsLatestHands(n)
       IN m \in Nat \cup {All} /\ normalizeStatsLatestHands(m) = m /\ (m # All => m <= Latest)
  /\ normalizeStatsLatestHands(Latest) = Latest /\ Latest \in Nat
BY LedgerAssumption DEF normalizeStatsLatestHands

LEMMA MergedConfigs ==
  /\ \A c : mergeStatDisplayConfigs(mergeStatDisplayConfigs(c)) = mergeStatDisplayConfigs(c)
  /\ \A s \in DOMAIN Stats : mergeStatDisplayConfigs(Stats)[s] = Stats[s]
BY DEF mergeStatDisplayConfigs

LEMMA OptionFacts ==
  ASSUME NEW o, IsOptions(o)
  PROVE  /\ o # Nothing /\ IsStored(o)
         /\ IsOptions(normalizeOptions(o)) /\ Normalized(normalizeOptions(o))
         /\ normalizeOptions(o) # Nothing /\ Same(o, normalizeOptions(o))
         /\ IsOptions(Grown(o)) /\ Grown(o) # Nothing /\ Same(o, Grown(o))
         /\ Grown(o).handLimit = o.handLimit
<1>1. o # Nothing
  BY "absent" \notin OptionFields DEF IsOptions, Nothing, OptionFields
<1> DEFINE n == normalizeOptions(o)
           g == Grown(o)
<1>2. /\ DOMAIN n = OptionFields /\ n.gameTypes = o.gameTypes /\ n.tableSize = o.tableSize
      /\ n.handLimit = normalizeStatsLatestHands(o.handLimit) /\ n.configs = o.configs
  BY <1>1 DEF normalizeOptions, IsOptions, OptionFields
<1>3. /\ DOMAIN g = OptionFields /\ g.gameTypes = o.gameTypes /\ g.tableSize = o.tableSize
      /\ g.handLimit = o.handLimit /\ g.configs = mergeStatDisplayConfigs(o.configs)
  BY DEF Grown, IsOptions, OptionFields
<1> HIDE DEF n, g
<1>4. IsOptions(n) /\ IsOptions(g)
  BY <1>2, <1>3, LimitFacts DEF IsOptions
<1>5. \A p : IsOptions(p) => p # Nothing
  BY "absent" \notin OptionFields DEF IsOptions, Nothing, OptionFields
<1>6. Normalized(n) /\ Same(o, n) /\ Same(o, g)
  BY <1>2, <1>3, LimitFacts, MergedConfigs DEF Normalized, Same, IsOptions
<1> QED BY <1>1, <1>3, <1>4, <1>5, <1>6 DEF n, g, IsStored

LEMMA SameFits ==
  /\ \A o, p : Same(o, p) => Same(p, o)
  /\ \A o, p, q : Same(o, p) /\ Same(p, q) => Same(o, q)
  /\ \A f, o, p : Fits(f, o) /\ Same(o, p) => Fits(f, p)
BY DEF Same, Fits

LEMMA AsksOrSaved ==
  ASSUME NEW reader, NEW fields, IsReader(reader, fields), IsStored(stored), IsStored(bucket)
  PROVE  /\ IsReader(Asking(reader), fields) /\ Asking(reader).pc = "load"
         /\ Asking(reader).read.flat = stored /\ Asking(reader).read.bucket = bucket
         /\ Saved(reader).pc \in {"load", "remove"}
         /\ IsStored(Merged(reader.read)) => IsReader(Saved(reader), fields)
         /\ \A f \in fields \ {"pc", "read"} : Asking(reader)[f] = reader[f] /\ Saved(reader)[f] = reader[f]
<1>1. IsStored(Nothing)
  BY DEF IsStored
<1> QED BY <1>1 DEF IsReader, Asking, Saved

\* A migration keeps the agreement, unless it overwrites what has changed.
LEMMA Migrated ==
  ASSUME SettingsInv, NEW reader \in {popup, worker}, MigrationSaves(reader)
  PROVE  LET o == Merged(reader.read)
         IN /\ IsOptions(o) /\ Normalized(o) /\ stored' = o /\ raced' \in BOOLEAN
            /\ ~raced' /\ sent # <<>> => Same(LastSent, o)
            /\ ~raced' /\ worker.pc = "up" /\ sent = <<>> => Fits(using, o)
<1> DEFINE o == Merged(reader.read)
           flat == reader.read.flat
<1>1. IsStored(flat) /\ IsStored(reader.read.bucket) /\ reader.pc = "load" /\ stored' = o
      /\ raced' = (raced \/ Stale(reader.read)) /\ MustSave(reader.read) /\ raced' \in BOOLEAN
  BY DEF SettingsInv, SettingsTypes, IsReader, MigrationSaves
<1>2. o = normalizeOptions(IF flat = Nothing THEN reader.read.bucket ELSE flat)
  BY DEF Merged
<1>3. ~(flat = Nothing /\ reader.read.bucket = Nothing)
  BY <1>1 DEF MustSave, Merged, normalizeOptions
<1>4. PICK p : p = (IF flat = Nothing THEN reader.read.bucket ELSE flat) /\ IsOptions(p) /\ o = normalizeOptions(p)
  BY <1>1, <1>2, <1>3 DEF IsStored
<1>5. /\ IsOptions(o) /\ Normalized(o) /\ o # Nothing /\ Same(p, o)
      /\ IsOptions(Grown(o)) /\ Grown(o) # Nothing /\ Same(o, Grown(o))
  BY <1>4, OptionFacts
<1>6. ~raced' => ~raced /\ stored \in {flat, o, Grown(o)}
  BY <1>1, <1>5 DEF Stale
<1> HIDE DEF o
<1>7. ASSUME ~raced', stored = Nothing
      PROVE  sent = <<>> /\ worker.pc # "up"
  <2>1. sent = <<>> /\ reader.read.bucket = bucket /\ flat = Nothing
    BY <1>1, <1>7 DEF SettingsInv, NothingYet
  <2> QED BY <1>3, <1>6, <1>7, <2>1 DEF SettingsInv, Agreement
<1>8. ASSUME ~raced', stored # Nothing
      PROVE  Same(stored, o) /\ ~raced
  BY <1>4, <1>5, <1>6, <1>8, SameFits
<1>9. ~raced' /\ sent # <<>> => Same(LastSent, o)
  BY <1>7, <1>8, SameFits DEF SettingsInv, Agreement
<1>10. ~raced' /\ worker.pc = "up" /\ sent = <<>> => Fits(using, o)
  BY <1>7, <1>8, SameFits DEF SettingsInv, Agreement, InEffect
<1> QED BY <1>1, <1>5, <1>9, <1>10 DEF o

\* Options that need no migration are what is stored, unless that has changed.
LEMMA ReadAnswered ==
  ASSUME SettingsInv, NEW reader \in {popup, worker}, Answered(reader)
  PROVE  LET o == reader.read.flat
         IN /\ IsStored(o) /\ Normalized(o) /\ reader.read.bucket = Nothing
            /\ ~Stale(reader.read) => /\ o = Nothing => stored = Nothing /\ bucket = Nothing
                                      /\ o # Nothing => stored # Nothing /\ Same(stored, o) /\ Normalized(stored)
            /\ stored = Nothing => o = Nothing /\ bucket = Nothing
<1> DEFINE o == reader.read.flat
<1>1. IsStored(o) /\ reader.pc = "load" /\ reader.read.bucket = Nothing /\ Merged(reader.read) = o
  BY DEF SettingsInv, SettingsTypes, IsReader, Answered, MustSave
<1>2. o = normalizeOptions(o)
  BY <1>1 DEF Merged
<1>3. Normalized(o)
  BY <1>1, <1>2, OptionFacts DEF IsStored, Normalized
<1>4. ~Stale(reader.read) => stored \in {o} \cup (IF o = Nothing THEN {} ELSE {Grown(o)})
  BY <1>1 DEF Stale
<1>5. stored = Nothing => o = Nothing /\ bucket = Nothing
  BY <1>1 DEF SettingsInv, NothingYet
<1> HIDE DEF o
<1>6. o # Nothing => IsOptions(o) /\ Grown(o) # Nothing /\ Same(o, Grown(o)) /\ Grown(o).handLimit = o.handLimit
  BY <1>1, OptionFacts DEF IsStored
<1>7. ASSUME o # Nothing, stored \in {o, Grown(o)}
      PROVE  stored # Nothing /\ Same(stored, o) /\ Normalized(stored)
  <2>1. Same(o, o)
    BY DEF Same
  <2> QED BY <1>3, <1>6, <1>7, <2>1, SameFits DEF Normalized
<1> QED BY <1>1, <1>3, <1>4, <1>5, <1>7 DEF o

\* The range of the slider holds layers only.
LEMMA EndsOfRange ==
  ASSUME NEW S, IsFiniteSet(S), S \subseteq Int, S # {}
  PROVE  Min(S) \in S /\ Max(S) \in S
<1> DEFINE Ends(U) == /\ \E m \in U : \A y \in U : m <= y
                      /\ \E m \in U : \A y \in U : m >= y
           G == {U \in SUBSET S : U = {} \/ Ends(U)}
<1>1. {} \in G
  OBVIOUS
<1>2. ASSUME NEW U \in SUBSET S, U # {}, U \ {CHOOSE x \in U : TRUE} \in G
      PROVE  U \in G
  <2> DEFINE x == CHOOSE x \in U : TRUE
  <2>1. x \in U /\ U \ {x} \in G
    BY <1>2
  <2> HIDE DEF x
  <2>2. CASE U \ {x} = {}
    <3>1. U = {x} /\ x \in Int
      BY <2>1, <2>2
    <3>2. Ends(U)
      BY <3>1
    <3> QED BY <3>2
  <2>3. CASE Ends(U \ {x})
    <3>1. PICK l \in U \ {x} : \A y \in U \ {x} : l <= y
      BY <2>3
    <3>2. PICK m \in U \ {x} : \A y \in U \ {x} : m >= y
      BY <2>3
    <3>3. x \in Int /\ l \in Int /\ m \in Int /\ U \subseteq Int
      BY <2>1, <3>1, <3>2
    <3>4. \E k \in U : \A y \in U : k <= y
      <4>1. CASE l <= x
        BY <3>1, <4>1
      <4>2. CASE x <= l
        BY <2>1, <3>1, <3>3, <4>2
      <4> QED BY <3>3, <4>1, <4>2
    <3>5. \E k \in U : \A y \in U : k >= y
      <4>1. CASE m >= x
        BY <3>2, <4>1
      <4>2. CASE x >= m
        BY <2>1, <3>2, <3>3, <4>2
      <4> QED BY <3>3, <4>1, <4>2
    <3> QED BY <3>4, <3>5
  <2> QED BY <2>1, <2>2, <2>3
<1> HIDE DEF G
<1>3. S \in G
  BY <1>1, <1>2, SetInduction
<1>4. Ends(S)
  BY <1>3 DEF G
<1> QED BY <1>4 DEF Min, Max

LEMMA RangeOfLayers ==
  ASSUME NEW i \in Int, NEW j \in Int, i >= 1, j <= Len(Layers)
  PROVE  rangeToTableSizeFilter(<<i, j>>) \subseteq Tables
<1>1. Layers \in Seq(Tables) /\ Len(Layers) \in Nat /\ DOMAIN Layers = 1 .. Len(Layers)
  BY SettingsAssumption
<1>2. \A k \in i .. j : Layers[k] \in Tables
  BY <1>1
<1> QED BY <1>2 DEF rangeToTableSizeFilter

LEMMA RoundedOptions ==
  ASSUME NEW o, IsOptions(o)
  PROVE  IsOptions(Rounded(o)) /\ Rounded(o).handLimit = o.handLimit /\ Rounded(o).configs = o.configs
<1> DEFINE chosen == {i \in DOMAIN Layers : Layers[i] \in o.tableSize}
<1>1. Len(Layers) \in Nat /\ DOMAIN Layers = 1 .. Len(Layers)
  BY SettingsAssumption
<1>2. rangeToTableSizeFilter(tableSizeFilterToRange(o.tableSize)) \subseteq Tables
  <2>1. CASE chosen = {}
    <3>1. tableSizeFilterToRange(o.tableSize) = <<1, Len(Layers)>>
      BY <2>1 DEF tableSizeFilterToRange
    <3> QED BY <1>1, <3>1, RangeOfLayers
  <2>2. CASE chosen # {}
    <3>1. tableSizeFilterToRange(o.tableSize) = <<Min(chosen), Max(chosen)>>
      BY <2>2 DEF tableSizeFilterToRange
    <3>2. chosen \subseteq 1 .. Len(Layers) /\ IsFiniteSet(1 .. Len(Layers))
      BY <1>1, FS_Interval
    <3> HIDE DEF chosen
    <3>3. IsFiniteSet(chosen) /\ chosen \subseteq Int
      <4>1. \A D : IsFiniteSet(D) /\ chosen \subseteq D => IsFiniteSet(chosen)
        BY FS_Subset
      <4>2. chosen \subseteq Int
        BY <1>1, <3>2
      <4> QED BY <3>2, <4>1, <4>2
    <3>4. Min(chosen) \in 1 .. Len(Layers) /\ Max(chosen) \in 1 .. Len(Layers)
      BY <2>2, <3>2, <3>3, EndsOfRange
    <3>5. /\ Min(chosen) \in Int /\ Max(chosen) \in Int
          /\ Min(chosen) >= 1 /\ Max(chosen) <= Len(Layers)
      BY <1>1, <3>4
    <3>6. rangeToTableSizeFilter(<<Min(chosen), Max(chosen)>>) \subseteq Tables
      BY <3>5, RangeOfLayers
    <3> QED BY <3>1, <3>6
  <2> QED BY <2>1, <2>2
<1> QED BY <1>2 DEF Rounded, IsOptions, OptionFields

\* A message more, and the oldest one delivered.
LEMMA SendOne ==
  ASSUME NEW s, \E T : s \in Seq(T) /\ \A o \in T : IsOptions(o), NEW m, IsOptions(m)
  PROVE  /\ \E T : Append(s, m) \in Seq(T) /\ \A o \in T : IsOptions(o)
         /\ Append(s, m) # <<>> /\ Append(s, m)[Len(Append(s, m))] = m
<1>1. PICK T : s \in Seq(T) /\ \A o \in T : IsOptions(o)
  OBVIOUS
<1> DEFINE U == T \cup {m}
<1>2. s \in Seq(U) /\ m \in U /\ \A o \in U : IsOptions(o)
  BY <1>1
<1> HIDE DEF U
<1>3. Append(s, m) \in Seq(U) /\ Append(s, m) # <<>> /\ Append(s, m)[Len(Append(s, m))] = m
  BY <1>2
<1> QED BY <1>2, <1>3

LEMMA DeliverOne ==
  ASSUME NEW s, \E T : s \in Seq(T) /\ \A o \in T : IsOptions(o), s # <<>>
  PROVE  /\ \E T : Tail(s) \in Seq(T) /\ \A o \in T : IsOptions(o)
         /\ IsOptions(Head(s))
         /\ Tail(s) = <<>> => Head(s) = s[Len(s)]
         /\ Tail(s) # <<>> => Tail(s)[Len(Tail(s))] = s[Len(s)]
<1>1. PICK T : s \in Seq(T) /\ \A o \in T : IsOptions(o)
  OBVIOUS
<1>2. Tail(s) \in Seq(T) /\ Head(s) \in T
  BY <1>1
<1>3. Tail(s) = <<>> => Head(s) = s[Len(s)]
  BY <1>1
<1>4. Tail(s) # <<>> => Tail(s)[Len(Tail(s))] = s[Len(s)]
  BY <1>1
<1> QED BY <1>1, <1>2, <1>3, <1>4

LEMMA WorkerFilters ==
  ASSUME NEW o
  PROVE  /\ Fits(setBattleTypeFilter(o), o)
         /\ DOMAIN setBattleTypeFilter(o) = {"battleTypes", "tableSizeLayers", "latestHands", "configs"}
BY DEF Fits, setBattleTypeFilter

LEMMA RestsOfReaders ==
  /\ IsReader(Closed, {"shown"}) /\ Closed.pc = "closed" /\ IsOptions(Closed.shown)
  /\ IsReader(Down, {}) /\ Down.pc = "down"
  /\ DOMAIN NoFilters = {"battleTypes", "tableSizeLayers", "latestHands", "configs"}
  /\ NoFilters.configs = Stats
BY LedgerAssumption DEF IsReader, Closed, Down, NoRead, IsStored, IsOptions, OptionFields, Defaults, NoFilters

-----------------------------------------------------------------------------
(* The steps of the settings.                                              *)

LEMMA SettingsInit == InitSettings => SettingsInv
<1> SUFFICES ASSUME InitSettings PROVE SettingsInv
  OBVIOUS
<1>1. /\ popup = Closed /\ worker = Down /\ using = NoFilters /\ sent = <<>> /\ raced = FALSE
      /\ popup.pc = "closed" /\ worker.pc = "down"
  BY RestsOfReaders DEF InitSettings
<1>2. IsStored(stored) /\ IsStored(bucket)
  BY SettingsAssumption DEF InitSettings, IsStored, IsOptions, OptionFields, GameTypes
<1>3. SettingsTypes
  <2>1. sent \in Seq({}) /\ \A o \in {} : IsOptions(o)
    BY <1>1
  <2>2. \E T : sent \in Seq(T) /\ \A o \in T : IsOptions(o)
    BY <2>1
  <2> QED BY <1>1, <1>2, <2>2, RestsOfReaders DEF SettingsTypes
<1>4. NothingYet /\ Agreement
  BY <1>1, RestsOfReaders DEF NothingYet, Agreement
<1> QED BY <1>3, <1>4 DEF SettingsInv

LEMMA WorkerStarts ==
  ASSUME SettingsInv, StartWorker \/ StopWorker
  PROVE  SettingsInv'
<1>1. CASE StartWorker
  <2>1. /\ worker' = Asking(worker)
        /\ UNCHANGED <<stored, bucket, popup, using, sent, raced>> /\ worker.pc = "down"
    BY <1>1 DEF StartWorker
  <2>2. /\ IsReader(worker', {}) /\ worker'.pc = "load"
        /\ worker'.read.flat = stored /\ worker'.read.bucket = bucket
    BY <2>1, AsksOrSaved DEF SettingsInv, SettingsTypes
  <2>3. SettingsTypes' /\ NothingYet' /\ Agreement'
    BY <2>1, <2>2 DEF SettingsInv, SettingsTypes, NothingYet, Agreement, LastSent
  <2> QED BY <2>3 DEF SettingsInv
<1>2. CASE StopWorker
  <2>1. /\ worker' = Down /\ using' = NoFilters /\ sent = <<>>
        /\ UNCHANGED <<stored, bucket, popup, sent, raced>>
    BY <1>2 DEF StopWorker
  <2>2. SettingsTypes' /\ NothingYet' /\ Agreement'
    BY <2>1, RestsOfReaders DEF SettingsInv, SettingsTypes, NothingYet, Agreement
  <2> QED BY <2>2 DEF SettingsInv
<1> QED BY <1>1, <1>2

LEMMA WorkerMigration ==
  ASSUME SettingsInv, WorkerMigrates \/ WorkerRemovesBucket
  PROVE  SettingsInv'
<1>1. CASE WorkerMigrates
  <2>1. /\ MigrationSaves(worker) /\ worker' = Saved(worker)
        /\ UNCHANGED <<bucket, popup, using, sent>>
    BY <1>1 DEF WorkerMigrates
  <2> DEFINE o == Merged(worker.read)
  <2>2. /\ IsOptions(o) /\ stored' = o /\ raced' \in BOOLEAN
        /\ ~raced' /\ sent # <<>> => Same(LastSent, o)
        /\ Normalized(o)
    BY <2>1, Migrated
  <2> HIDE DEF o
  <2>3. stored' # Nothing /\ IsStored(stored')
    BY <2>2, OptionFacts
  <2>4. IsReader(worker', {}) /\ worker'.pc \in {"load", "remove"}
    BY <2>1, <2>2, <2>3, AsksOrSaved DEF SettingsInv, SettingsTypes, o
  <2>5. SettingsTypes'
    BY <2>1, <2>2, <2>3, <2>4 DEF SettingsInv, SettingsTypes
  <2>6. NothingYet' /\ Agreement'
    BY <2>1, <2>2, <2>3, <2>4 DEF NothingYet, Agreement, LastSent
  <2> QED BY <2>5, <2>6 DEF SettingsInv
<1>2. CASE WorkerRemovesBucket
  <2>1. /\ worker.pc = "remove" /\ bucket' = Nothing /\ worker' = [worker EXCEPT !.pc = "load"]
        /\ UNCHANGED <<stored, popup, using, sent, raced>>
    BY <1>2 DEF WorkerRemovesBucket, MigrationRemovesBucket
  <2>2. stored # Nothing
    BY <2>1 DEF SettingsInv, NothingYet
  <2>3. IsReader(worker', {}) /\ worker'.pc = "load" /\ IsStored(bucket')
    BY <2>1 DEF SettingsInv, SettingsTypes, IsReader, IsStored
  <2>4. SettingsTypes' /\ NothingYet' /\ Agreement'
    BY <2>1, <2>2, <2>3 DEF SettingsInv, SettingsTypes, NothingYet, Agreement, LastSent
  <2> QED BY <2>4 DEF SettingsInv
<1> QED BY <1>1, <1>2

LEMMA PopupMigration ==
  ASSUME SettingsInv, PopupMigrates \/ PopupRemovesBucket
  PROVE  SettingsInv'
<1>1. CASE PopupMigrates
  <2>1. /\ MigrationSaves(popup) /\ popup' = Saved(popup)
        /\ UNCHANGED <<bucket, worker, using, sent>>
    BY <1>1 DEF PopupMigrates
  <2> DEFINE o == Merged(popup.read)
  <2>2. /\ IsOptions(o) /\ stored' = o /\ raced' \in BOOLEAN /\ Normalized(o)
        /\ ~raced' /\ sent # <<>> => Same(LastSent, o)
        /\ ~raced' /\ worker.pc = "up" /\ sent = <<>> => Fits(using, o)
    BY <2>1, Migrated
  <2> HIDE DEF o
  <2>3. stored' # Nothing /\ IsStored(stored')
    BY <2>2, OptionFacts
  <2>4. IsReader(popup', {"shown"}) /\ popup'.pc \in {"load", "remove"} /\ popup'.shown = popup.shown
    BY <2>1, <2>2, <2>3, AsksOrSaved DEF SettingsInv, SettingsTypes, o
  <2>5. SettingsTypes'
    BY <2>1, <2>2, <2>3, <2>4 DEF SettingsInv, SettingsTypes
  <2>6. NothingYet' /\ Agreement'
    BY <2>1, <2>2, <2>3, <2>4 DEF NothingYet, Agreement, LastSent, InEffect
  <2> QED BY <2>5, <2>6 DEF SettingsInv
<1>2. CASE PopupRemovesBucket
  <2>1. /\ popup.pc = "remove" /\ bucket' = Nothing /\ popup' = [popup EXCEPT !.pc = "load"]
        /\ UNCHANGED <<stored, worker, using, sent, raced>>
    BY <1>2 DEF PopupRemovesBucket, MigrationRemovesBucket
  <2>2. stored # Nothing
    BY <2>1 DEF SettingsInv, NothingYet
  <2>3. IsReader(popup', {"shown"}) /\ popup'.pc = "load" /\ popup'.shown = popup.shown /\ IsStored(bucket')
    BY <2>1 DEF SettingsInv, SettingsTypes, IsReader, IsStored
  <2>4. SettingsTypes' /\ NothingYet' /\ Agreement'
    BY <2>1, <2>2, <2>3 DEF SettingsInv, SettingsTypes, NothingYet, Agreement, LastSent
  <2> QED BY <2>4 DEF SettingsInv
<1> QED BY <1>1, <1>2

LEMMA WorkerBegins ==
  ASSUME SettingsInv, WorkerRestores
  PROVE  SettingsInv'
<1> DEFINE o == worker.read.flat
<1>1. /\ Answered(worker) /\ worker' = [Down EXCEPT !.pc = "up"] /\ worker.pc = "load"
      /\ using' = IF o = Nothing THEN [using EXCEPT !.battleTypes = All, !.tableSizeLayers = All,
                                                    !.latestHands = Latest]
                  ELSE setBattleTypeFilter(o)
      /\ stored' = IF o # Nothing /\ needsConfigPersist(o) THEN Grown(o) ELSE stored
      /\ raced' = (raced \/ Stale(worker.read))
      /\ UNCHANGED <<bucket, popup, sent>>
  BY DEF WorkerRestores, Answered
<1>2. /\ IsStored(o) /\ Normalized(o)
      /\ ~Stale(worker.read) => /\ o = Nothing => stored = Nothing /\ bucket = Nothing
                                /\ o # Nothing => stored # Nothing /\ Same(stored, o) /\ Normalized(stored)
      /\ stored = Nothing => o = Nothing /\ bucket = Nothing
  BY <1>1, ReadAnswered
<1>3. IsReader(worker', {}) /\ worker'.pc = "up"
  BY <1>1, RestsOfReaders DEF IsReader, Down
<1> HIDE DEF o
<1>4. o # Nothing => /\ IsOptions(o) /\ IsOptions(Grown(o)) /\ Grown(o) # Nothing
                     /\ Same(o, Grown(o)) /\ Grown(o).handLimit = o.handLimit
  BY <1>2, OptionFacts DEF IsStored
<1>5. IsStored(stored') /\ (stored' = Nothing => stored = Nothing)
  BY <1>1, <1>4 DEF IsStored, SettingsInv, SettingsTypes
<1>6. DOMAIN using' = {"battleTypes", "tableSizeLayers", "latestHands", "configs"}
  BY <1>1, WorkerFilters DEF SettingsInv, SettingsTypes
<1>7. raced' \in BOOLEAN
  BY <1>1 DEF SettingsInv, SettingsTypes
<1>8. SettingsTypes'
  BY <1>1, <1>3, <1>5, <1>6, <1>7 DEF SettingsInv, SettingsTypes
<1>9. o = Nothing => /\ using'.battleTypes = All /\ using'.tableSizeLayers = All
                     /\ using'.latestHands = Latest /\ using'.configs = using.configs
  BY <1>1 DEF SettingsInv, SettingsTypes
<1>10. NothingYet'
  BY <1>1, <1>2, <1>3, <1>5, <1>9 DEF SettingsInv, NothingYet
<1>11. ASSUME ~raced' PROVE /\ Normalized(stored') /\ (stored' = Nothing => bucket' = Nothing)
                            /\ Fits(using', InEffect(stored'))
                            /\ sent' # <<>> => Same(LastSent', stored')
  <2>1. ~raced /\ ~Stale(worker.read)
    BY <1>1, <1>11
  <2>2. CASE o = Nothing
    <3>1. stored' = Nothing /\ stored = Nothing /\ bucket' = Nothing /\ sent' = <<>> /\ using.configs = Stats
      BY <1>1, <1>2, <2>1, <2>2 DEF SettingsInv, NothingYet
    <3>2. /\ InEffect(Nothing).gameTypes = {} /\ InEffect(Nothing).tableSize = Tables
          /\ InEffect(Nothing).handLimit = Latest /\ InEffect(Nothing).configs = Stats
      BY DEF InEffect, Defaults
    <3>3. /\ battleTypesOf({}) = All /\ selectedTableSizeLayers(Tables) = All
      BY DEF battleTypesOf, selectedTableSizeLayers
    <3> QED BY <1>9, <2>2, <3>1, <3>2, <3>3, MergedConfigs DEF Normalized, Fits
  <2>3. CASE o # Nothing
    <3>1. stored' # Nothing /\ Same(o, stored') /\ Normalized(stored')
      BY <1>1, <1>2, <1>4, <2>1, <2>3, SameFits DEF Normalized
    <3>2. Fits(using', stored')
      BY <1>1, <2>3, <3>1, WorkerFilters, SameFits
    <3>3. sent' # <<>> => Same(LastSent', stored')
      BY <1>1, <1>2, <2>1, <2>3, <3>1, SameFits DEF SettingsInv, Agreement, LastSent
    <3> QED BY <3>1, <3>2, <3>3 DEF InEffect
  <2> QED BY <2>2, <2>3
<1>12. Agreement'
  BY <1>11 DEF Agreement
<1> QED BY <1>8, <1>10, <1>12 DEF SettingsInv

LEMMA MessageDelivered ==
  ASSUME SettingsInv, Deliver
  PROVE  SettingsInv'
<1>1. /\ sent # <<>> /\ using' = setBattleTypeFilter(Head(sent)) /\ sent' = Tail(sent)
      /\ UNCHANGED <<stored, bucket, popup, worker, raced>>
  BY DEF Deliver
<1>2. /\ \E T : sent' \in Seq(T) /\ \A o \in T : IsOptions(o)
      /\ sent' = <<>> => Head(sent) = LastSent
      /\ sent' # <<>> => LastSent' = LastSent
  BY <1>1, DeliverOne DEF SettingsInv, SettingsTypes, LastSent
<1>3. stored # Nothing
  BY <1>1 DEF SettingsInv, NothingYet
<1>4. SettingsTypes' /\ NothingYet'
  BY <1>1, <1>2, <1>3, WorkerFilters DEF SettingsInv, SettingsTypes, NothingYet
<1>5. ~raced => Normalized(stored) /\ Same(LastSent, stored)
  BY <1>1 DEF SettingsInv, Agreement
<1>6. ~raced /\ sent' = <<>> => Fits(using', stored)
  BY <1>1, <1>2, <1>5, WorkerFilters, SameFits
<1>7. Agreement'
  BY <1>1, <1>2, <1>3, <1>5, <1>6 DEF Agreement, InEffect
<1> QED BY <1>4, <1>7 DEF SettingsInv

LEMMA PopupOpens ==
  ASSUME SettingsInv, OpenPopup \/ ClosePopup
  PROVE  SettingsInv'
<1>1. CASE OpenPopup
  <2>1. popup' = Asking(popup) /\ UNCHANGED <<stored, bucket, worker, using, sent, raced>>
    BY <1>1 DEF OpenPopup
  <2>2. /\ IsReader(popup', {"shown"}) /\ popup'.pc = "load" /\ popup'.shown = popup.shown
        /\ popup'.read.flat = stored /\ popup'.read.bucket = bucket
    BY <2>1, AsksOrSaved DEF SettingsInv, SettingsTypes
  <2>3. SettingsTypes' /\ NothingYet' /\ Agreement'
    BY <2>1, <2>2 DEF SettingsInv, SettingsTypes, NothingYet, Agreement, LastSent
  <2> QED BY <2>3 DEF SettingsInv
<1>2. CASE ClosePopup
  <2>1. popup' = Closed /\ UNCHANGED <<stored, bucket, worker, using, sent, raced>>
    BY <1>2 DEF ClosePopup
  <2>2. SettingsTypes' /\ NothingYet' /\ Agreement'
    BY <2>1, RestsOfReaders DEF SettingsInv, SettingsTypes, NothingYet, Agreement, LastSent
  <2> QED BY <2>2 DEF SettingsInv
<1> QED BY <1>1, <1>2

LEMMA PopupShows ==
  ASSUME SettingsInv, PopupLoads
  PROVE  SettingsInv'
<1> DEFINE o == popup.read.flat
           grew == statConfigsGrew(o)
           gap == Rounded(o) # o
           shown == Grown(Rounded(o))
           migrated == [Rounded(o) EXCEPT !.configs = IF grew THEN shown.configs ELSE @]
<1>1. /\ Answered(popup) /\ UNCHANGED <<bucket, worker, using>>
      /\ IF o = Nothing
         THEN /\ popup' = [popup EXCEPT !.pc = "open", !.read = NoRead]
              /\ UNCHANGED <<stored, sent, raced>>
         ELSE /\ popup' = [pc |-> "open", read |-> NoRead, shown |-> shown]
              /\ stored' = IF grew \/ gap THEN migrated ELSE stored
              /\ sent' = IF gap THEN Append(sent, migrated) ELSE sent
              /\ raced' = (raced \/ Stale(popup.read))
  BY DEF PopupLoads
<1>2. /\ IsStored(o) /\ Normalized(o)
      /\ ~Stale(popup.read) => /\ o = Nothing => stored = Nothing /\ bucket = Nothing
                               /\ o # Nothing => stored # Nothing /\ Same(stored, o) /\ Normalized(stored)
      /\ stored = Nothing => o = Nothing /\ bucket = Nothing
  BY <1>1, ReadAnswered
<1> HIDE DEF o
<1>3. CASE o = Nothing
  <2>1. popup' = [popup EXCEPT !.pc = "open", !.read = NoRead]
        /\ UNCHANGED <<stored, bucket, worker, using, sent, raced>>
    BY <1>1, <1>3
  <2>2. IsReader(popup', {"shown"}) /\ popup'.pc = "open" /\ popup'.shown = popup.shown
    BY <2>1 DEF SettingsInv, SettingsTypes, IsReader, NoRead, IsStored
  <2>3. SettingsTypes' /\ NothingYet' /\ Agreement'
    BY <2>1, <2>2 DEF SettingsInv, SettingsTypes, NothingYet, Agreement, LastSent
  <2> QED BY <2>3 DEF SettingsInv
<1>4. CASE o # Nothing
  <2>1. /\ IsOptions(o) /\ IsOptions(Rounded(o)) /\ IsOptions(shown)
        /\ Rounded(o).handLimit = o.handLimit /\ Rounded(o).configs = o.configs
    BY <1>2, <1>4, RoundedOptions, OptionFacts DEF IsStored
  <2>2. /\ DOMAIN migrated = OptionFields /\ migrated.gameTypes = Rounded(o).gameTypes
        /\ migrated.tableSize = Rounded(o).tableSize /\ migrated.handLimit = o.handLimit
        /\ migrated.configs = IF grew THEN mergeStatDisplayConfigs(o.configs) ELSE o.configs
    BY <2>1 DEF IsOptions, OptionFields, Grown
  <2> HIDE DEF grew, gap, migrated
  <2>3. IsOptions(migrated) /\ migrated # Nothing /\ Normalized(migrated)
    <3>1. IsOptions(migrated)
      BY <2>1, <2>2 DEF IsOptions
    <3> QED BY <1>2, <1>4, <2>2, <3>1, OptionFacts DEF Normalized
  <2>4. ~gap => Same(o, migrated)
    BY <2>2, MergedConfigs DEF gap, Same
  <2>5. /\ popup' = [pc |-> "open", read |-> NoRead, shown |-> shown]
        /\ stored' = IF grew \/ gap THEN migrated ELSE stored
        /\ sent' = IF gap THEN Append(sent, migrated) ELSE sent
        /\ raced' = (raced \/ Stale(popup.read))
    BY <1>1, <1>4
  <2>6. IsReader(popup', {"shown"}) /\ popup'.pc = "open" /\ IsOptions(popup'.shown)
    BY <2>1, <2>5 DEF IsReader, NoRead, IsStored
  <2>7. stored' # Nothing /\ IsStored(stored') /\ stored # Nothing
    BY <1>2, <1>4, <2>3, <2>5 DEF SettingsInv, SettingsTypes, IsStored
  <2>8. \E T : sent' \in Seq(T) /\ \A p \in T : IsOptions(p)
    BY <2>3, <2>5, SendOne DEF SettingsInv, SettingsTypes
  <2>9. raced' \in BOOLEAN
    BY <2>5 DEF SettingsInv, SettingsTypes
  <2>10. SettingsTypes'
    BY <1>1, <2>6, <2>7, <2>8, <2>9 DEF SettingsInv, SettingsTypes
  <2>11. NothingYet'
    BY <2>7 DEF NothingYet
  <2>12. ASSUME ~raced'
         PROVE  /\ Normalized(stored')
                /\ worker'.pc = "up" /\ sent' = <<>> => Fits(using', stored')
                /\ sent' # <<>> => Same(LastSent', stored')
    <3>1. ~raced /\ Same(stored, o) /\ Normalized(stored)
      BY <1>2, <1>4, <2>5, <2>12
    <3>2. CASE gap
      <4>1. sent' # <<>> /\ LastSent' = migrated /\ stored' = migrated
        BY <2>3, <2>5, <3>2, SendOne DEF SettingsInv, SettingsTypes, LastSent
      <4> QED BY <2>3, <4>1 DEF Same
    <3>3. CASE ~gap
      <4>1. sent' = sent /\ LastSent' = LastSent /\ worker' = worker /\ using' = using
        BY <1>1, <2>5, <3>3 DEF LastSent
      <4>2. Same(stored, stored') /\ Normalized(stored')
        <5>1. Same(stored, stored)
          BY DEF Same
        <5> QED BY <2>3, <2>4, <2>5, <3>1, <3>3, <5>1, SameFits
      <4> QED BY <2>7, <3>1, <4>1, <4>2, SameFits DEF SettingsInv, Agreement, InEffect
    <3> QED BY <3>2, <3>3
  <2>13. Agreement'
    BY <2>7, <2>12 DEF Agreement, InEffect
  <2> QED BY <2>10, <2>11, <2>13 DEF SettingsInv
<1> QED BY <1>3, <1>4

LEMMA Changed ==
  ASSUME SettingsInv, NEW o, IsOptions(o), saveAndBroadcastOptions(o)
  PROVE  SettingsInv'
<1>1. /\ popup' = [popup EXCEPT !.shown = o] /\ stored' = normalizeOptions(o) /\ sent' = Append(sent, o)
      /\ UNCHANGED <<bucket, worker, using, raced>>
  BY DEF saveAndBroadcastOptions
<1>2. /\ IsOptions(stored') /\ Normalized(stored') /\ stored' # Nothing /\ Same(o, stored')
      /\ IsStored(stored')
  BY <1>1, OptionFacts
<1>3. IsReader(popup', {"shown"}) /\ popup'.shown = o
  BY <1>1 DEF SettingsInv, SettingsTypes, IsReader
<1>4. /\ \E T : sent' \in Seq(T) /\ \A p \in T : IsOptions(p)
      /\ sent' # <<>> /\ LastSent' = o
  BY <1>1, SendOne DEF SettingsInv, SettingsTypes, LastSent
<1>5. SettingsTypes'
  BY <1>1, <1>2, <1>3, <1>4 DEF SettingsInv, SettingsTypes
<1>6. NothingYet' /\ Agreement'
  BY <1>2, <1>4 DEF NothingYet, Agreement
<1> QED BY <1>5, <1>6 DEF SettingsInv

LEMMA SettingsNext ==
  ASSUME SettingsInv, NextSettings \/ UNCHANGED settings
  PROVE  SettingsInv'
<1>1. IsOptions(popup.shown)
  BY DEF SettingsInv, SettingsTypes
<1>2. CASE ChangeGameTypes
  <2>1. PICK g \in GameTypes :
          saveAndBroadcastOptions([popup.shown EXCEPT !.gameTypes = IF g \in @ THEN @ \ {g} ELSE @ \cup {g}])
    BY <1>2 DEF ChangeGameTypes
  <2>2. IsOptions([popup.shown EXCEPT !.gameTypes = IF g \in @ THEN @ \ {g} ELSE @ \cup {g}])
    BY <1>1 DEF IsOptions, OptionFields
  <2> QED BY <2>1, <2>2, Changed
<1>3. CASE ChangeTableSize
  <2>1. PICK i \in DOMAIN Layers, j \in DOMAIN Layers :
          saveAndBroadcastOptions([popup.shown EXCEPT !.tableSize = rangeToTableSizeFilter(<<i, j>>)])
    BY <1>3 DEF ChangeTableSize
  <2>2. i \in Int /\ j \in Int /\ i >= 1 /\ j <= Len(Layers)
    BY SettingsAssumption
  <2>3. rangeToTableSizeFilter(<<i, j>>) \subseteq Tables
    BY <2>2, RangeOfLayers
  <2>4. IsOptions([popup.shown EXCEPT !.tableSize = rangeToTableSizeFilter(<<i, j>>)])
    BY <1>1, <2>3 DEF IsOptions, OptionFields
  <2> QED BY <2>1, <2>4, Changed
<1>4. CASE ChangeHandLimit
  <2>1. PICK n \in Offered : saveAndBroadcastOptions([popup.shown EXCEPT !.handLimit = n])
    BY <1>4 DEF ChangeHandLimit
  <2>2. IsOptions([popup.shown EXCEPT !.handLimit = n])
    BY <1>1, SettingsAssumption DEF IsOptions, OptionFields
  <2> QED BY <2>1, <2>2, Changed
<1>5. CASE ApplyStatChanges
  <2>1. PICK s \in DOMAIN Stats : saveAndBroadcastOptions([popup.shown EXCEPT !.configs[s] = ~@])
    BY <1>5 DEF ApplyStatChanges
  <2>2. IsOptions([popup.shown EXCEPT !.configs[s] = ~@])
    BY <1>1 DEF IsOptions, OptionFields
  <2> QED BY <2>1, <2>2, Changed
<1>6. CASE UNCHANGED settings
  BY <1>6 DEF settings, SettingsInv, SettingsTypes, NothingYet, Agreement, LastSent
<1>7. CASE StartWorker \/ StopWorker \/ WorkerMigrates \/ WorkerRemovesBucket \/ WorkerRestores \/ Deliver
  BY <1>7, WorkerStarts, WorkerMigration, WorkerBegins, MessageDelivered
<1>8. CASE OpenPopup \/ ClosePopup \/ PopupMigrates \/ PopupRemovesBucket \/ PopupLoads
  BY <1>8, PopupOpens, PopupMigration, PopupShows
<1> QED BY <1>2, <1>3, <1>4, <1>5, <1>6, <1>7, <1>8 DEF NextSettings

-----------------------------------------------------------------------------
(* What is shown of the player.                                            *)

LEMMA FiltersInEffect ==
  ASSUME SettingsInv, Settled
  PROVE  LET o == InEffect(stored)
             filters == normalizedFilters(using)
         IN /\ IsFilters(filters) /\ filters.latestHands = o.handLimit
            /\ filters.battleTypes = battleTypesOf(o.gameTypes) /\ filters.battleTypes = using.battleTypes
            /\ filters.tableSizeLayers = selectedTableSizeLayers(o.tableSize)
            /\ filters.tableSizeLayers = using.tableSizeLayers
            /\ \A s \in DOMAIN Stats : using.configs[s] = mergeStatDisplayConfigs(o.configs)[s]
            /\ Matching(Seated, filters) = Wanted(o)
            /\ Chosen(Wanted(o), filters.latestHands) = Counts(o)
<1> DEFINE o == InEffect(stored)
           filters == normalizedFilters(using)
<1>1. /\ Fits(using, o) /\ Normalized(stored) /\ IsStored(stored)
      /\ DOMAIN using = {"battleTypes", "tableSizeLayers", "latestHands", "configs"}
  BY DEF SettingsInv, SettingsTypes, Agreement, Settled
<1>2. /\ o.gameTypes \subseteq GameTypes /\ o.tableSize \subseteq Tables
      /\ o.handLimit \in Nat \cup {All} /\ normalizeStatsLatestHands(o.handLimit) = o.handLimit
  <2>1. CASE stored = Nothing
    <3>1. /\ o.gameTypes = {} /\ o.tableSize = Tables /\ o.handLimit = Latest
      BY <2>1 DEF InEffect, Defaults
    <3> QED BY <3>1, LimitFacts
  <2>2. CASE stored # Nothing
    <3>1. o = stored /\ IsOptions(stored) /\ stored.handLimit = normalizeStatsLatestHands(stored.handLimit)
      BY <1>1, <2>2 DEF InEffect, IsStored, Normalized
    <3> QED BY <3>1 DEF IsOptions
  <2> QED BY <2>1, <2>2
<1> HIDE DEF o
<1>3. /\ filters.battleTypes = using.battleTypes /\ filters.tableSizeLayers = using.tableSizeLayers
      /\ filters.latestHands = normalizeStatsLatestHands(using.latestHands)
  BY <1>1 DEF normalizedFilters
<1> HIDE DEF filters
<1>4. /\ filters.latestHands = o.handLimit
      /\ filters.battleTypes = battleTypesOf(o.gameTypes)
      /\ filters.tableSizeLayers = selectedTableSizeLayers(o.tableSize)
      /\ \A s \in DOMAIN Stats : using.configs[s] = mergeStatDisplayConfigs(o.configs)[s]
  BY <1>1, <1>2, <1>3 DEF Fits
<1>5. /\ o.gameTypes = {} => filters.battleTypes = All
      /\ o.gameTypes # {} => /\ filters.battleTypes = UNION {BattlesOf[g] : g \in o.gameTypes}
                             /\ filters.battleTypes \subseteq Known /\ filters.battleTypes # All
  <2>1. UNION {BattlesOf[g] : g \in o.gameTypes} \subseteq Known
    BY <1>2, SettingsAssumption DEF GameTypes
  <2>2. \A B \in SUBSET Known : B # All
    BY LedgerAssumption
  <2> QED BY <1>4, <2>1, <2>2 DEF battleTypesOf
<1>6. /\ o.tableSize \in {{}, Tables} => filters.tableSizeLayers = All
      /\ o.tableSize \notin {{}, Tables} => /\ filters.tableSizeLayers = o.tableSize
                                            /\ filters.tableSizeLayers # All
  BY <1>2, <1>4, LedgerAssumption DEF selectedTableSizeLayers
<1>7. IsFilters(filters)
  <2>1. filters.latestHands = All \/ (filters.latestHands \in Nat /\ filters.latestHands <= Latest)
    BY <1>2, <1>4, LimitFacts
  <2> QED BY <1>2, <1>5, <1>6, <2>1 DEF IsFilters
<1>8. Matching(Seated, filters) = Wanted(o)
  <2>1. \A v \in Seated : (filters.battleTypes = All \/ v.battle \in filters.battleTypes) <=>
                          (o.gameTypes = {} \/ \E g \in o.gameTypes : v.battle \in BattlesOf[g])
    BY <1>5
  <2>2. \A v \in Seated : (filters.tableSizeLayers = All \/ v.table \in filters.tableSizeLayers) <=>
                          (o.tableSize \in {{}, Tables} \/ v.table \in o.tableSize)
    BY <1>6
  <2> QED BY <2>1, <2>2 DEF Matching, Wanted
<1>9. Chosen(Wanted(o), filters.latestHands) = Counts(o)
  BY <1>4 DEF Chosen, Counts, Youngest
<1> QED BY <1>3, <1>4, <1>7, <1>8, <1>9 DEF o, filters

LEMMA SnapshotAnswers ==
  ASSUME LedgerInv, IsFilters(normalizedFilters(using))
  PROVE  LET filters == normalizedFilters(using)
             W == Matching(Seated, filters)
         IN Answers(readLineupSnapshots(using), Seated, W, Chosen(W, filters.latestHands))
<1>1. /\ Baseline = AggregateOf(Seated) /\ Seated \in SUBSET Versions /\ OneEach(RecordsOf(Seated))
      /\ BaselineRows = trimRecordsToLatestCells(RecordsOf(Seated))
  BY BaselineIsSum, SeatedFacts DEF LedgerInv, BaselineRows
<1>2. readLineupSnapshots(using)
        = readPlayerAtHead(AggregateOf(Seated), trimRecordsToLatestCells(RecordsOf(Seated)),
                           normalizedFilters(using))
  BY <1>1 DEF LedgerInv, readLineupSnapshots
<1> QED BY <1>1, <1>2, ReadsTheChosen

LEMMA ShownIsChosen ==
  ASSUME LedgerInv, SettingsInv
  PROVE  HudCountsTheChosenHands
<1> SUFFICES ASSUME Settled PROVE HudCountsTheChosenHands
  BY DEF HudCountsTheChosenHands
<1> DEFINE o == InEffect(stored)
           filters == normalizedFilters(using)
           chosen == Counts(o)
           read == readLineupSnapshots(using)
<1>1. /\ IsFilters(filters)
      /\ filters.battleTypes = using.battleTypes /\ filters.tableSizeLayers = using.tableSizeLayers
      /\ \A s \in DOMAIN Stats : using.configs[s] = mergeStatDisplayConfigs(o.configs)[s]
      /\ Matching(Seated, filters) = Wanted(o)
      /\ Chosen(Wanted(o), filters.latestHands) = chosen
  BY FiltersInEffect
<1>2. Answers(read, Seated, Wanted(o), chosen)
  BY <1>1, SnapshotAnswers
<1>3. /\ IsFiniteSet(Seated) /\ Wanted(o) \subseteq Seated /\ IsFiniteSet(Wanted(o))
      /\ Cardinality(Seated) \in Nat /\ Cardinality(Wanted(o)) \in Nat
      /\ Cardinality(Seated) = 0 <=> Seated = {}
      /\ Cardinality(Wanted(o)) = 0 <=> Wanted(o) = {}
  <2>1. IsFiniteSet(Seated) /\ Wanted(o) \subseteq Seated
    BY VersionFacts, FS_Subset, Seated \subseteq Versions DEF Seated, Wanted
  <2> HIDE DEF o
  <2>2. IsFiniteSet(Wanted(o))
    BY <2>1, FS_Subset
  <2> QED BY <2>1, <2>2, FS_CardinalityType, FS_EmptySet
<1>4. ~(using.battleTypes # All \/ using.tableSizeLayers # All) => Wanted(o) = Seated
  <2>1. ~(using.battleTypes # All \/ using.tableSizeLayers # All) => Matching(Seated, filters) = Seated
    <3> HIDE DEF filters
    <3> QED BY <1>1 DEF Matching
  <2> QED BY <1>1, <2>1
<1> HIDE DEF o, filters, chosen
<1>5. calculateStats.counters = SumOf(chosen)
  BY <1>2 DEF calculateStats, Answers
<1>6. calculateStats.results =
        IF Seated # {} /\ Wanted(o) = {} THEN {}
        ELSE {s \in DOMAIN Stats : s \in Forced \/ mergeStatDisplayConfigs(o.configs)[s]}
  <2> DEFINE filtered == using.battleTypes # All \/ using.tableSizeLayers # All
             nothingMatches == filtered /\ read.totalHands > 0 /\ read.matchedHandsBeforeLimit = 0
             some == {s \in DOMAIN Stats : getEffectiveStatDisplayConfigs[s]}
  <2>1. calculateStats.results = IF nothingMatches THEN {} ELSE some
    <3> HIDE DEF read
    <3> QED BY DEF calculateStats, read
  <2>2. nothingMatches <=> Seated # {} /\ Wanted(o) = {}
    <3>1. read.totalHands = Cardinality(Seated) /\ read.matchedHandsBeforeLimit = Cardinality(Wanted(o))
      BY <1>2 DEF Answers
    <3> HIDE DEF read
    <3> QED BY <1>3, <1>4, <3>1
  <2>3. some = {s \in DOMAIN Stats : s \in Forced \/ mergeStatDisplayConfigs(o.configs)[s]}
    BY <1>1 DEF getEffectiveStatDisplayConfigs
  <2> HIDE DEF nothingMatches, some
  <2> QED BY <2>1, <2>2, <2>3
<1>7. ASSUME NEW p \in Positions
      PROVE  getPositionalStats[p] = [handsN |-> Cardinality(At(chosen, p)), counters |-> SumOf(At(chosen, p))]
  <2>1. getPositionalStats[p] =
          IF \E b \in read.positions : b.position = p
          THEN LET here == CHOOSE b \in read.positions : b.position = p
               IN [handsN |-> here.handsN, counters |-> here.counters]
          ELSE [handsN |-> 0, counters |-> NoCounters]
    BY <1>7 DEF getPositionalStats
  <2> HIDE DEF read
  <2>2. CASE \E b \in read.positions : b.position = p
    <3> DEFINE here == CHOOSE b \in read.positions : b.position = p
    <3>1. here \in read.positions /\ here.position = p
      BY <2>2
    <3> HIDE DEF here
    <3>2. here.handsN = Cardinality(At(chosen, p)) /\ here.counters = SumOf(At(chosen, p))
      BY <1>2, <3>1 DEF Answers
    <3> QED BY <2>1, <2>2, <3>2 DEF here
  <2>3. CASE ~\E b \in read.positions : b.position = p
    <3>1. At(chosen, p) = {}
      BY <1>2, <2>3 DEF Answers, At
    <3>2. SumOf({}) = NoCounters /\ Cardinality({}) = 0
      BY FS_EmptySet DEF SumOf, NoCounters
    <3> QED BY <2>1, <2>3, <3>1, <3>2
  <2> QED BY <2>2, <2>3
<1>8. o = IF stored = Nothing THEN [Defaults EXCEPT !.gameTypes = {}] ELSE stored
  BY DEF o, InEffect
<1>9. \A p : At(chosen, p) = {v \in chosen : v.position = p}
  BY DEF At
<1> HIDE DEF read
<1> QED BY <1>5, <1>6, <1>7, <1>8, <1>9 DEF HudCountsTheChosenHands, chosen

\* The ledger and the settings do not touch each other: their invariants hold
\* together, whatever their steps do in between.
THEOREM Inductive == Spec => [](LedgerInv /\ SettingsInv)
<1>1. Init => LedgerInv /\ SettingsInv
  BY LedgerInit, SettingsInit DEF Init
<1>2. LedgerInv /\ SettingsInv /\ [Next]_vars => (LedgerInv /\ SettingsInv)'
  <2> SUFFICES ASSUME LedgerInv, SettingsInv, [Next]_vars
               PROVE  LedgerInv' /\ SettingsInv'
    OBVIOUS
  <2>1. /\ NextLedger \/ UNCHANGED ledger
        /\ NextSettings \/ UNCHANGED settings
    BY DEF Next, vars
  <2> QED BY <2>1, LedgerNext, SettingsNext
<1> QED BY <1>1, <1>2, PTL DEF Spec

\* A player whose aggregate is ready has the newest rows and the sums of all his hands,
\* as if they had just been computed from the canonical tables: committing a hand for
\* the first time or in another version, with the invalidation of the window, loses and
\* doubles nothing (replaceHandsInGeneration, ensurePlayerBaseline).
LedgerIsBaseline == head /\ aggregate.ready => rows = BaselineRows /\ aggregate = Baseline
THEOREM LedgerMaintained == Spec => []LedgerIsBaseline
<1>1. LedgerInv => LedgerIsBaseline
  BY BaselineIsSum DEF LedgerInv, LedgerIsBaseline
<1> QED BY <1>1, Inductive, PTL

\* Once the settings have settled, the HUD and its drill-down show exactly the hands
\* the stored settings choose (readPlayerAtHead, setBattleTypeFilter, background.ts).
THEOREM HudCounts == Spec => []HudCountsTheChosenHands
<1>1. LedgerInv /\ SettingsInv => HudCountsTheChosenHands
  BY ShownIsChosen
<1> QED BY <1>1, Inductive, PTL
=============================================================================
