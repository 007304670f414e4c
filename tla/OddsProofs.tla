----------------------------- MODULE OddsProofs -----------------------------
(***************************************************************************)
(* The odds shown are those of the table, for every deal, stack and order   *)
(* of play.  The invariant says of the table that nobody has more in than    *)
(* who can still bet could match, and of the stream that it has what the     *)
(* table has of every seat; the pots add up to what was paid, so the pot,    *)
(* the call and what a short stack can win come out the same on both sides.  *)
(***************************************************************************)
EXTENDS HandRecord, FiniteSetTheorems, TLAPS

\* A non-empty set of natural numbers has a least element.
LEMMA LeastOf ==
  ASSUME NEW T \in SUBSET Nat, T # {}
  PROVE  \E t \in T : \A u \in T : t <= u
<1>1. PICK t \in T : \A u \in T : ~(<<u, t>> \in OpToRel(<, Nat))
  BY NatLessThanWellFounded, WFMin
<1>2. \A u \in T : ~(u < t)
  BY <1>1, Zenon DEF OpToRel
<1> QED BY <1>2

\* A set that holds 0 and the successor of what it holds, up to n.
LEMMA CountUp ==
  ASSUME NEW n \in Nat, NEW G, 0 \in G, \A i \in 1..n : i - 1 \in G => i \in G
  PROVE  \A i \in 0..n : i \in G
<1> DEFINE Bad == {i \in 0..n : i \notin G}
<1> SUFFICES ASSUME Bad # {} PROVE FALSE
  OBVIOUS
<1>1. PICK i \in Bad : \A k \in Bad : i <= k
  BY LeastOf, Bad \in SUBSET Nat
<1>2. i \in 1..n /\ i - 1 \notin Bad /\ i - 1 \in 0..n
  BY <1>1
<1> QED BY <1>1, <1>2

\* What holds of the empty set, and of a set if of it without one element, holds of all.
LEMMA SetInduction ==
  ASSUME NEW D, IsFiniteSet(D), NEW G, {} \in G,
         \A U \in SUBSET D : U # {} /\ U \ {CHOOSE x \in U : TRUE} \in G => U \in G
  PROVE  \A U \in SUBSET D : U \in G
<1> DEFINE Bad == {U \in FiniteSubsetsOf(D) : U \notin G}
<1>1. \A U \in SUBSET D : U \in FiniteSubsetsOf(D)
  BY FS_Subset DEF FiniteSubsetsOf
<1> SUFFICES ASSUME Bad # {} PROVE FALSE
  BY <1>1
<1>2. PICK U \in Bad : \A V \in Bad : ~(<<V, U>> \in StrictSubsetOrdering(D))
  <2>1. IsWellFoundedOn(StrictSubsetOrdering(D), FiniteSubsetsOf(D))
    BY FS_StrictSubsetOrderingWellFounded
  <2>2. Bad \subseteq FiniteSubsetsOf(D) /\ Bad # {}
    OBVIOUS
  <2> HIDE DEF Bad
  <2> QED BY <2>1, <2>2, WFMin, Zenon
<1> DEFINE x == CHOOSE x \in U : TRUE
           V == U \ {x}
<1>3. U \in SUBSET D /\ U # {} /\ x \in U
  <2>1. U \in SUBSET D /\ U # {}
    BY <1>2 DEF FiniteSubsetsOf
  <2> QED BY <2>1
<1>4. V \in FiniteSubsetsOf(D) /\ U \in FiniteSubsetsOf(D)
  BY <1>1, <1>3
<1>5. V \notin Bad
  BY <1>2, <1>3, <1>4 DEF StrictSubsetOrdering, FiniteSubsetsOf
<1> QED BY <1>2, <1>3, <1>4, <1>5

\* The parts, together.
AllOf(parts, D) == UNION {parts[d] : d \in D}

\* A sum of the sizes of disjoint sets is the size of their union.
LEMMA TotalCounts ==
  ASSUME NEW D, IsFiniteSet(D), NEW B, NEW f, DOMAIN f = D,
         \A d \in D : IsFiniteSet(B[d]) /\ f[d] = Cardinality(B[d]),
         \A d, e \in D : d # e => B[d] \cap B[e] = {}
  PROVE  /\ IsFiniteSet(AllOf(B, D))
         /\ Total(f) = Cardinality(AllOf(B, D))
<1> DEFINE Of(U) == UNION {B[d] : d \in U}
           Fits(s) == s = [U \in SUBSET DOMAIN f |->
                             IF U = {} THEN 0
                             ELSE LET x == CHOOSE x \in U : TRUE IN f[x] + s[U \ {x}]]
           sum == CHOOSE s : Fits(s)
           size == [U \in SUBSET D |-> Cardinality(Of(U))]
           Finite == {U \in SUBSET D : IsFiniteSet(Of(U))}
<1>1. \A U \in SUBSET D : U # {} =>
        LET x == CHOOSE x \in U : TRUE
        IN /\ x \in D /\ U \ {x} \in SUBSET D
           /\ Of(U) = Of(U \ {x}) \cup B[x] /\ Of(U \ {x}) \cap B[x] = {}
  <2> SUFFICES ASSUME NEW U \in SUBSET D, U # {}
               PROVE  LET x == CHOOSE x \in U : TRUE
                      IN /\ x \in D /\ U \ {x} \in SUBSET D
                         /\ Of(U) = Of(U \ {x}) \cup B[x] /\ Of(U \ {x}) \cap B[x] = {}
    OBVIOUS
  <2> DEFINE x == CHOOSE x \in U : TRUE
  <2>1. x \in U
    OBVIOUS
  <2> HIDE DEF x
  <2>2. Of(U) = Of(U \ {x}) \cup B[x]
    BY <2>1
  <2>3. Of(U \ {x}) \cap B[x] = {}
    BY <2>1
  <2> QED BY <2>1, <2>2, <2>3 DEF x
<1>2. \A U \in SUBSET D : U \in Finite
  <2>1. {} \in Finite
    BY FS_EmptySet
  <2>2. ASSUME NEW U \in SUBSET D, U # {}, U \ {CHOOSE x \in U : TRUE} \in Finite
        PROVE  U \in Finite
    <3> DEFINE x == CHOOSE x \in U : TRUE
    <3>1. x \in D /\ Of(U) = Of(U \ {x}) \cup B[x]
      BY <1>1, <2>2
    <3>2. IsFiniteSet(Of(U \ {x}))
      BY <2>2
    <3> HIDE DEF x, Of
    <3>4. IsFiniteSet(B[x])
      BY <3>1
    <3>5. IsFiniteSet(Of(U \ {x}) \cup B[x])
      BY <3>2, <3>4, FS_Union
    <3>3. IsFiniteSet(Of(U))
      BY <3>1, <3>5
    <3> QED BY <3>3
  <2> HIDE DEF Finite
  <2> QED BY <2>1, <2>2, SetInduction
<1> HIDE DEF Of
<1>3. size[{}] = 0
  BY FS_EmptySet DEF Of
<1>4. ASSUME NEW U \in SUBSET D, U # {}
      PROVE  LET x == CHOOSE x \in U : TRUE IN size[U] = f[x] + size[U \ {x}]
  <2> DEFINE x == CHOOSE x \in U : TRUE
  <2>1. /\ x \in D /\ U \ {x} \in SUBSET D
        /\ Of(U) = Of(U \ {x}) \cup B[x] /\ Of(U \ {x}) \cap B[x] = {}
    BY <1>1, <1>4
  <2> HIDE DEF x
  <2>2. IsFiniteSet(Of(U \ {x})) /\ IsFiniteSet(B[x])
    BY <1>2, <2>1
  <2>3. Cardinality(Of(U)) = Cardinality(Of(U \ {x})) + Cardinality(B[x])
    <3>1. Cardinality(Of(U \ {x}) \cup B[x])
            = Cardinality(Of(U \ {x})) + Cardinality(B[x]) - Cardinality(Of(U \ {x}) \cap B[x])
      BY <2>2, FS_Union
    <3>2. Cardinality(Of(U \ {x})) \in Nat /\ Cardinality(B[x]) \in Nat
      BY <2>2, FS_CardinalityType
    <3>3. Cardinality(Of(U \ {x}) \cap B[x]) = 0
      BY <2>1, FS_EmptySet
    <3> QED BY <2>1, <3>1, <3>2, <3>3
  <2>4. Cardinality(Of(U)) = f[x] + Cardinality(Of(U \ {x}))
    <3>1. Cardinality(Of(U \ {x})) \in Nat /\ Cardinality(B[x]) \in Nat
      BY <2>2, FS_CardinalityType
    <3> QED BY <2>1, <2>3, <3>1
  <2> QED BY <2>1, <2>4 DEF x
<1>5. Fits(size)
  BY <1>3, <1>4
<1>6. Fits(sum)
  BY <1>5
<1> HIDE DEF sum, size
<1>7. \A U \in SUBSET D : U \in {V \in SUBSET D : sum[V] = size[V]}
  <2> DEFINE G == {V \in SUBSET D : sum[V] = size[V]}
  <2>1. \A U \in SUBSET D : sum[U] = IF U = {} THEN 0
                                     ELSE LET x == CHOOSE x \in U : TRUE IN f[x] + sum[U \ {x}]
    BY <1>6
  <2>2. {} \in G
    BY <1>3, <2>1
  <2>3. ASSUME NEW U \in SUBSET D, U # {}, U \ {CHOOSE x \in U : TRUE} \in G
        PROVE  U \in G
    BY <1>4, <2>1, <2>3
  <2> HIDE DEF G
  <2>4. \A U \in SUBSET D : U \in G
    BY <2>2, <2>3, SetInduction
  <2> QED BY <2>4 DEF G
<1>8. sum[D] = Cardinality(Of(D))
  BY <1>7 DEF size
<1>9. Total(f) = sum[D]
  BY DEF Total, FoldFunction, FoldFunctionOnSet, MapThenFoldSet, sum
<1> QED BY <1>2, <1>8, <1>9 DEF Of, AllOf

-----------------------------------------------------------------------------
(* Sums of natural numbers over the seats.                                 *)

\* The chips lo + 1 .. lo + n of seat d, as a set.
Chips(d, lo, n) == {d} \X (lo + 1..lo + n)

\* Seat d has n chips from lo on.
LEMMA ChipsCount ==
  ASSUME NEW d, NEW lo \in Nat, NEW n \in Nat
  PROVE  IsFiniteSet(Chips(d, lo, n)) /\ Cardinality(Chips(d, lo, n)) = n
<1>1. IsFiniteSet(lo + 1..lo + n) /\ Cardinality(lo + 1..lo + n) = n
  BY FS_Interval
<1>2. IsFiniteSet({d}) /\ Cardinality({d}) = 1
  BY FS_Singleton
<1> QED BY <1>1, <1>2, FS_Product DEF Chips

\* A sum of natural numbers is one.
LEMMA TotalNat ==
  ASSUME NEW f, IsFiniteSet(DOMAIN f), \A d \in DOMAIN f : f[d] \in Nat
  PROVE  Total(f) \in Nat
<1> DEFINE B == [d \in DOMAIN f |-> Chips(d, 0, f[d])]
<1>1. \A d \in DOMAIN f : IsFiniteSet(B[d]) /\ f[d] = Cardinality(B[d])
  BY ChipsCount
<1>2. \A d, e \in DOMAIN f : d # e => B[d] \cap B[e] = {}
  BY DEF Chips
<1>3. IsFiniteSet(AllOf(B, DOMAIN f)) /\ Total(f) = Cardinality(AllOf(B, DOMAIN f))
  <2> DEFINE D == DOMAIN f
  <2>1. IsFiniteSet(D) /\ DOMAIN f = D
    OBVIOUS
  <2> HIDE DEF B
  <2> QED BY <1>1, <1>2, <2>1, TotalCounts
<1> QED BY <1>3, FS_CardinalityType

\* The chips of m and of e are those of p, seat by seat.
Splits(p, m, e) ==
  /\ DOMAIN m = DOMAIN p /\ IsFiniteSet(DOMAIN e) /\ DOMAIN p \subseteq DOMAIN e
  /\ \A d \in DOMAIN p : m[d] \in Nat /\ e[d] \in Nat /\ p[d] = m[d] + e[d]
  /\ \A d \in DOMAIN e : d \notin DOMAIN p => e[d] = 0

\* A sum split into what is below a cap and what is above it; the second sum may
\* run over more seats, at which nothing is above.
LEMMA TotalSplit ==
  ASSUME NEW p, NEW m, NEW e, Splits(p, m, e)
  PROVE  /\ Total(m) \in Nat /\ Total(e) \in Nat
         /\ Total(p) = Total(m) + Total(e)
<1> DEFINE D == DOMAIN p
<1> USE DEF Splits
<1> DEFINE E == DOMAIN e
           P == [d \in D |-> Chips(d, 0, p[d])]
           M == [d \in D |-> Chips(d, 0, m[d])]
           X == [d \in E |-> IF d \in D THEN Chips(d, m[d], e[d]) ELSE {}]
<1>1. IsFiniteSet(D) /\ IsFiniteSet(E)
  BY FS_Subset
<1>2. \A d \in D : /\ IsFiniteSet(P[d]) /\ p[d] = Cardinality(P[d])
                   /\ IsFiniteSet(M[d]) /\ m[d] = Cardinality(M[d])
  BY ChipsCount
<1>3. \A d \in E : IsFiniteSet(X[d]) /\ e[d] = Cardinality(X[d])
  BY ChipsCount, FS_EmptySet
<1>4. \A d, c \in D : d # c => P[d] \cap P[c] = {} /\ M[d] \cap M[c] = {}
  BY DEF Chips
<1>5. \A d, c \in E : d # c => X[d] \cap X[c] = {}
  BY DEF Chips
<1>6. AllOf(M, D) \cup AllOf(X, E) = AllOf(P, D)
  <2>1. \A d \in D : Chips(d, 0, m[d]) \cup Chips(d, m[d], e[d]) = Chips(d, 0, p[d])
    <3> SUFFICES ASSUME NEW d \in D
                 PROVE  Chips(d, 0, m[d]) \cup Chips(d, m[d], e[d]) = Chips(d, 0, p[d])
      OBVIOUS
    <3>1. (0 + 1..0 + m[d]) \cup (m[d] + 1..m[d] + e[d]) = 0 + 1..0 + p[d]
      OBVIOUS
    <3> QED BY <3>1 DEF Chips
  <2>2. AllOf(X, E) = AllOf([d \in D |-> Chips(d, m[d], e[d])], D)
    BY DEF AllOf
  <2> QED BY <2>1, <2>2 DEF AllOf
<1>7. AllOf(M, D) \cap AllOf(X, E) = {}
  <2>1. \A d \in D : Chips(d, 0, m[d]) \cap Chips(d, m[d], e[d]) = {}
    BY DEF Chips
  <2>2. \A d \in D, c \in E : M[d] \cap X[c] = {}
    BY <2>1 DEF Chips
  <2> HIDE DEF M, X, E
  <2> QED BY <2>2 DEF AllOf
<1> HIDE DEF P, M, X, E
<1>8. Total(p) = Cardinality(AllOf(P, D))
  BY <1>1, <1>2, <1>4, TotalCounts
<1>9. IsFiniteSet(AllOf(M, D)) /\ Total(m) = Cardinality(AllOf(M, D))
  BY <1>1, <1>2, <1>4, TotalCounts
<1>10. IsFiniteSet(AllOf(X, E)) /\ Total(e) = Cardinality(AllOf(X, E))
  BY <1>1, <1>3, <1>5, TotalCounts DEF E
<1>11. Total(m) \in Nat /\ Total(e) \in Nat
  BY <1>9, <1>10, FS_CardinalityType
<1>12. Cardinality(AllOf(P, D)) = Cardinality(AllOf(M, D)) + Cardinality(AllOf(X, E)) - 0
  BY <1>6, <1>7, <1>9, <1>10, FS_Union, FS_EmptySet
<1> QED BY <1>8, <1>9, <1>10, <1>11, <1>12

-----------------------------------------------------------------------------
(* The largest of finitely many natural numbers, and the k-th smallest.    *)

\* Finitely many natural numbers have a bound.
LEMMA Bounded ==
  ASSUME NEW f, NEW D, IsFiniteSet(D), \A d \in D : f[d] \in Nat
  PROVE  \E b \in Nat : \A d \in D : f[d] <= b
<1> DEFINE G == {U \in SUBSET D : \E b \in Nat : \A d \in U : f[d] <= b}
<1>1. {} \in G
  BY 0 \in Nat
<1>2. ASSUME NEW U \in SUBSET D, U # {}, U \ {CHOOSE x \in U : TRUE} \in G
      PROVE  U \in G
  <2> DEFINE x == CHOOSE x \in U : TRUE
  <2>1. x \in U
    BY <1>2
  <2>2. PICK b \in Nat : \A d \in U \ {x} : f[d] <= b
    BY <1>2
  <2> HIDE DEF x
  <2>3. f[x] \in Nat /\ b + f[x] \in Nat
    BY <2>1
  <2>4. \A d \in U : f[d] <= b + f[x]
    BY <2>1, <2>2, <2>3
  <2> QED BY <2>3, <2>4
<1> HIDE DEF G
<1>3. D \in G
  BY <1>1, <1>2, SetInduction
<1> QED BY <1>3 DEF G

\* The Max of a bounded set of natural numbers is its largest element.
LEMMA MaxIsLargest ==
  ASSUME NEW S \in SUBSET Nat, S # {}, NEW b \in Nat, \A y \in S : y <= b
  PROVE  Max(S) \in S /\ \A y \in S : y <= Max(S)
<1> DEFINE T == {b - y : y \in S}
<1>1. T \in SUBSET Nat /\ T # {}
  <2>1. \A y \in S : b - y \in Nat
    OBVIOUS
  <2> QED BY <2>1
<1>2. PICK t \in T : \A u \in T : t <= u
  BY <1>1, LeastOf
<1>3. PICK x \in S : t = b - x
  BY <1>2
<1>4. \A y \in S : x >= y
  BY <1>2, <1>3
<1>5. Max(S) \in S /\ \A y \in S : Max(S) >= y
  BY <1>4 DEF Max
<1> QED BY <1>5

\* What a number of seats have: a finite set with a largest element.
LEMMA MaxOfValues ==
  ASSUME NEW f, NEW D, IsFiniteSet(D), D # {}, \A d \in D : f[d] \in Nat
  PROVE  LET S == {f[d] : d \in D}
         IN /\ IsFiniteSet(S) /\ Max(S) \in S /\ \A d \in D : f[d] <= Max(S)
<1> DEFINE S == {f[d] : d \in D}
<1>1. PICK b \in Nat : \A d \in D : f[d] <= b
  BY Bounded
<1>2. S \in SUBSET Nat /\ S # {} /\ \A y \in S : y <= b
  BY <1>1
<1> HIDE DEF S
<1>3. IsFiniteSet(S)
  BY <1>2, FS_BoundedSetOfNaturals
<1>4. Max(S) \in S /\ \A y \in S : y <= Max(S)
  BY <1>2, MaxIsLargest
<1> QED BY <1>3, <1>4 DEF S

\* A finite set of natural numbers has a k-th smallest element.
LEMMA KthSmallest ==
  ASSUME NEW S \in SUBSET Nat, IsFiniteSet(S), NEW k \in 1..Cardinality(S)
  PROVE  \E x \in S : Cardinality({y \in S : y <= x}) = k
<1> DEFINE n == Cardinality(S)
           Below(x) == {y \in S : y <= x}
           G == {0} \cup {j \in 1..n : \E x \in S : Cardinality(Below(x)) = j}
<1>1. n \in Nat
  BY FS_CardinalityType
<1>2. ASSUME NEW j \in 1..n, j - 1 \in G PROVE j \in G
  <2>1. PICK L \in SUBSET S : /\ Cardinality(L) = j - 1
                              /\ \A x \in S \ L, y \in L : y < x
    <3>1. CASE j = 1
      BY <3>1, FS_EmptySet, {} \in SUBSET S, Cardinality({}) = 1 - 1
    <3>2. CASE j # 1
      <4>1. PICK x \in S : Cardinality(Below(x)) = j - 1
        BY <1>2, <3>2
      <4>2. \A z \in S \ Below(x), y \in Below(x) : y < z
        OBVIOUS
      <4> QED BY <4>1, <4>2
    <3> QED BY <3>1, <3>2
  <2>2. S \ L # {}
    <3>1. Cardinality(S) # Cardinality(L)
      BY <1>1, <2>1
    <3> QED BY <3>1, L = S \/ S \ L # {}
  <2>3. PICK x \in S \ L : \A y \in S \ L : x <= y
    BY <2>2, LeastOf, S \ L \in SUBSET Nat
  <2>4. Below(x) = L \cup {x}
    <3>1. \A y \in S : y <= x => y \in L \/ y = x
      BY <2>3
    <3>2. \A y \in L : y <= x
      BY <2>1, <2>3
    <3>3. x \in S /\ x <= x
      OBVIOUS
    <3> QED BY <3>1, <3>2, <3>3
  <2>5. IsFiniteSet(L) /\ x \notin L
    BY FS_Subset
  <2>6. Cardinality(Below(x)) = j
    <3>1. Cardinality(L \cup {x}) = Cardinality(L) + 1
      BY <2>5, FS_AddElement
    <3> HIDE DEF Below
    <3> QED BY <1>1, <2>1, <2>4, <3>1
  <2> QED BY <2>6
<1> HIDE DEF G, n
<1>3. k \in G
  <2>1. 0 \in G /\ k \in 0..n
    BY <1>1 DEF G, n
  <2> QED BY <1>1, <1>2, <2>1, CountUp
<1> QED BY <1>3 DEF G

-----------------------------------------------------------------------------
(* The pots of the table add up to what was paid.                          *)

\* What a table has of the seats in any reachable state.
Chipped(t) ==
  LET D == Seated(t.deal)
  IN /\ IsFiniteSet(D)
     /\ t.paid \in [D -> Nat] /\ t.status \in [D -> {"able", "allin", "folded"}]
     /\ In(t) # {}

\* The amounts at which a pot is capped are finitely many.
LEMMA CapsAreFinite ==
  ASSUME NEW t, Chipped(t)
  PROVE  PotCaps(t) \in SUBSET Nat /\ IsFiniteSet(PotCaps(t)) /\ PotCaps(t) # {}
<1> DEFINE S == {t.paid[s] : s \in In(t)}
<1>1. In(t) \subseteq Seated(t.deal) /\ IsFiniteSet(In(t))
  BY FS_Subset DEF Chipped, In
<1>2. S \in SUBSET Nat /\ IsFiniteSet(S) /\ Max(S) \in S
  BY <1>1, MaxOfValues DEF Chipped
<1>3. PotCaps(t) \subseteq S /\ Max(S) \in PotCaps(t)
  BY <1>2 DEF PotCaps
<1> QED BY <1>2, <1>3, FS_Subset

\* There is a level for each cap, a natural number.
LEMMA LevelsAreCaps ==
  ASSUME NEW t, Chipped(t)
  PROVE  LET n == Cardinality(PotCaps(t))
         IN n \in Nat \ {0} /\ PotLevels(t) \in [1..n -> Nat]
<1> DEFINE n == Cardinality(PotCaps(t))
<1>1. n \in Nat \ {0}
  BY CapsAreFinite, FS_CardinalityType, FS_EmptySet
<1>2. \A k \in 1..n : \E x \in PotCaps(t) : Cardinality({y \in PotCaps(t) : y <= x}) = k
  BY CapsAreFinite, KthSmallest
<1>3. \A k \in 1..n :
        (CHOOSE x \in PotCaps(t) : Cardinality({y \in PotCaps(t) : y <= x}) = k) \in Nat
  BY <1>2, CapsAreFinite
<1> QED BY <1>1, <1>3 DEF PotLevels

\* The amount in the first k pots.
FirstPots(t, k) ==
  IF k = 0 THEN 0
  ELSE IF k = Len(PotLevels(t)) THEN Total(t.paid)
  ELSE Total([s \in DOMAIN t.paid |-> Least(t.paid[s], PotLevels(t)[k])])

\* The first k pots hold what was paid below the k-th level; all of them, all of it.
LEMMA PotsAreDifferences ==
  ASSUME NEW t, Chipped(t)
  PROVE  \E n \in Nat \ {0} :
           /\ Pots(t) \in Seq(Int) /\ Len(Pots(t)) = n
           /\ FirstPots(t, 0) = 0 /\ FirstPots(t, n) = Total(t.paid)
           /\ \A k \in 0..n : FirstPots(t, k) \in Int
           /\ \A k \in 1..n : Pots(t)[k] = FirstPots(t, k) - FirstPots(t, k - 1)
<1> DEFINE n == Cardinality(PotCaps(t))
<1>1. n \in Nat \ {0} /\ PotLevels(t) \in [1..n -> Nat]
  BY LevelsAreCaps
<1> HIDE DEF n
<1>2. DOMAIN PotLevels(t) = 1..n /\ Len(PotLevels(t)) = n
  BY <1>1
<1>3. FirstPots(t, 0) = 0 /\ FirstPots(t, n) = Total(t.paid)
  BY <1>1, <1>2 DEF FirstPots
<1>4. ASSUME NEW k \in 0..n PROVE FirstPots(t, k) \in Int
  <2>1. CASE k = 0
    BY <2>1, <1>3
  <2>2. CASE k = n
    <3>1. Total(t.paid) \in Nat
      BY TotalNat DEF Chipped
    <3> QED BY <2>2, <1>3, <3>1
  <2>3. CASE k # 0 /\ k # n
    <3> DEFINE f == [s \in DOMAIN t.paid |-> Least(t.paid[s], PotLevels(t)[k])]
    <3>1. PotLevels(t)[k] \in Nat
      BY <1>1, <2>3
    <3>2. \A s \in DOMAIN f : f[s] \in Nat
      BY <3>1 DEF Least, Chipped
    <3>3. IsFiniteSet(DOMAIN f)
      BY DEF Chipped
    <3> HIDE DEF f
    <3>4. Total(f) \in Nat
      BY <3>2, <3>3, TotalNat
    <3> QED BY <1>2, <2>3, <3>4 DEF FirstPots, f
  <2> QED BY <2>1, <2>2, <2>3
<1>5. Pots(t) = [k \in 1..n |-> FirstPots(t, k) - FirstPots(t, k - 1)]
  BY <1>2 DEF Pots, FirstPots
<1>6. \A k \in 1..n : FirstPots(t, k) - FirstPots(t, k - 1) \in Int
  BY <1>1, <1>4
<1>7. Pots(t) \in [1..n -> Int]
  BY <1>5, <1>6
<1>8. Pots(t) \in Seq(Int) /\ Len(Pots(t)) = n
  BY <1>1, <1>7
<1> QED BY <1>1, <1>3, <1>4, <1>5, <1>8

\* The pot of an event is what the table was paid.  (calculatePlayerPotOdds)
LEMMA PotSizeIsTotal ==
  ASSUME NEW t, Chipped(t), NEW phase, NEW next
  PROVE  potSize(Progress(t, phase, next)) = Total(t.paid)
<1> DEFINE p == Progress(t, phase, next)
<1>1. PICK n \in Nat \ {0} :
        /\ Pots(t) \in Seq(Int) /\ Len(Pots(t)) = n
        /\ FirstPots(t, 0) = 0 /\ FirstPots(t, n) = Total(t.paid)
        /\ \A k \in 0..n : FirstPots(t, k) \in Int
        /\ \A k \in 1..n : Pots(t)[k] = FirstPots(t, k) - FirstPots(t, k - 1)
  BY PotsAreDifferences
<1> DEFINE m == Len(p.SidePot)
           Fits(f) == f = [k \in 0..m |-> IF k = 0 THEN p.Pot ELSE f[k - 1] + p.SidePot[k]]
           pot == CHOOSE f : Fits(f)
           upto == [k \in 0..m |-> FirstPots(t, k + 1)]
<1>2. p.Pot = Pots(t)[1] /\ p.SidePot = Tail(Pots(t))
  BY DEF Progress
<1>3. m = n - 1 /\ \A k \in 1..m : p.SidePot[k] = Pots(t)[k + 1]
  BY <1>1, <1>2
<1> HIDE DEF m, p
<1>4. upto[0] = p.Pot
  <2>1. FirstPots(t, 1) - 0 = FirstPots(t, 1) /\ Pots(t)[1] = FirstPots(t, 1) - FirstPots(t, 1 - 1)
    BY <1>1
  <2> QED BY <1>1, <1>2, <1>3, <2>1
<1>5. ASSUME NEW k \in 1..m PROVE upto[k] = upto[k - 1] + p.SidePot[k]
  <2>1. k + 1 \in 1..n /\ k \in 1..n /\ k - 1 \in 0..m /\ k \in 0..m /\ (k - 1) + 1 = k /\ (k + 1) - 1 = k
    BY <1>1, <1>3
  <2>2. Pots(t)[k + 1] = FirstPots(t, k + 1) - FirstPots(t, k)
    BY <1>1, <2>1
  <2>3. upto[k] = FirstPots(t, k + 1) /\ upto[k - 1] = FirstPots(t, k)
    BY <2>1
  <2>4. FirstPots(t, k + 1) \in Int /\ FirstPots(t, k) \in Int
    BY <1>1, <2>1
  <2> QED BY <1>3, <2>2, <2>3, <2>4
<1>6. \A k \in 0..m : upto[k] = IF k = 0 THEN p.Pot ELSE upto[k - 1] + p.SidePot[k]
  <2>1. m \in Nat
    BY <1>1, <1>3
  <2> HIDE DEF upto
  <2> QED BY <1>4, <1>5, <2>1
<1>7. Fits(upto)
  <2>1. upto = [k \in 0..m |-> upto[k]]
    OBVIOUS
  <2> HIDE DEF upto
  <2> QED BY <1>6, <2>1
<1> HIDE DEF upto
<1>8. Fits(pot)
  BY <1>7
<1>9. potSize(p) = pot[m]
  BY DEF potSize, m
<1> HIDE DEF pot
<1>10. \A k \in 0..m : pot[k] = IF k = 0 THEN p.Pot ELSE pot[k - 1] + p.SidePot[k]
  BY <1>8
<1> DEFINE G == {k \in 0..m : pot[k] = upto[k]}
<1>11. m \in Nat
  BY <1>1, <1>3
<1>12. 0 \in G
  BY <1>6, <1>10, <1>11
<1>13. ASSUME NEW k \in 1..m, k - 1 \in G PROVE k \in G
  BY <1>6, <1>10, <1>11, <1>13
<1> HIDE DEF G
<1>14. m \in G
  BY <1>11, <1>12, <1>13, CountUp
<1>15. pot[m] = upto[m] /\ upto[m] = FirstPots(t, n)
  <2>1. m + 1 = n /\ m \in 0..m
    BY <1>1, <1>3, <1>11
  <2> QED BY <1>14, <2>1 DEF G, upto
<1> QED BY <1>1, <1>9, <1>15 DEF p

-----------------------------------------------------------------------------
(* The stream after one more event.                                        *)

\* f has the states of the stream over the first m events.
StreamFits(f, w, m) ==
  f = [i \in 0..m |-> IF i = 0 THEN NoTable ELSE RealTimeTransform(f[i - 1], w[i])]

\* The state of the stream after the events is that of a run over them.
LEMMA StreamExists ==
  ASSUME NEW w, Len(w) \in Nat
  PROVE  \E f : StreamFits(f, w, Len(w)) /\ Streamed(w) = f[Len(w)]
<1> DEFINE n == Len(w)
           G == {m \in 0..n : \E f : StreamFits(f, w, m)}
<1>1. 0 \in G
  <2>1. StreamFits([i \in 0..0 |-> NoTable], w, 0)
    BY DEF StreamFits
  <2> QED BY <2>1
<1>2. ASSUME NEW m \in 1..n, m - 1 \in G PROVE m \in G
  <2>1. PICK f : StreamFits(f, w, m - 1)
    BY <1>2
  <2> DEFINE g == [i \in 0..m |-> IF i = m THEN RealTimeTransform(f[m - 1], w[m]) ELSE f[i]]
  <2>2. \A i \in 0..m - 1 :
          f[i] = IF i = 0 THEN NoTable ELSE RealTimeTransform(f[i - 1], w[i])
    BY <2>1 DEF StreamFits
  <2>3. /\ g[m] = RealTimeTransform(f[m - 1], w[m])
        /\ \A i \in 0..m - 1 : g[i] = f[i]
        /\ g = [i \in 0..m |-> g[i]]
    OBVIOUS
  <2> HIDE DEF g
  <2>4. ASSUME NEW i \in 0..m
        PROVE  g[i] = IF i = 0 THEN NoTable ELSE RealTimeTransform(g[i - 1], w[i])
    <3>1. CASE i = 0
      <4>1. 0 \in 0..m - 1
        OBVIOUS
      <4>2. g[0] = f[0] /\ f[0] = NoTable
        BY <2>2, <2>3, <4>1
      <4> QED BY <3>1, <4>2
    <3>2. CASE i = m
      <4>1. m - 1 \in 0..m - 1 /\ m # 0
        OBVIOUS
      <4>2. g[m - 1] = f[m - 1]
        BY <2>3, <4>1
      <4> QED BY <2>3, <3>2, <4>1, <4>2
    <3>3. CASE i # 0 /\ i # m
      <4>1. i \in 0..m - 1 /\ i - 1 \in 0..m - 1
        BY <3>3
      <4>2. g[i] = f[i] /\ g[i - 1] = f[i - 1]
        BY <2>3, <4>1
      <4>3. f[i] = RealTimeTransform(f[i - 1], w[i])
        BY <2>2, <3>3, <4>1
      <4> QED BY <3>3, <4>2, <4>3
    <3> QED BY <3>1, <3>2, <3>3
  <2>5. StreamFits(g, w, m)
    BY <2>3, <2>4 DEF StreamFits
  <2> QED BY <2>5
<1>0. n \in Nat
  OBVIOUS
<1> HIDE DEF G, n
<1>3. n \in G
  <2>1. n \in 0..n
    BY <1>0
  <2> QED BY <1>0, <1>1, <1>2, <2>1, CountUp
<1>4. PICK f : StreamFits(f, w, n)
  BY <1>3 DEF G
<1> DEFINE state == CHOOSE h : StreamFits(h, w, n)
<1>5. StreamFits(state, w, n)
  BY <1>4
<1>6. Streamed(w) = state[n]
  BY DEF Streamed, StreamFits, n
<1> QED BY <1>5, <1>6 DEF n

\* One more event is one more step of the stream.
LEMMA StreamedAppend ==
  ASSUME NEW S, NEW w \in Seq(S), NEW e \in S
  PROVE  Streamed(Append(w, e)) = RealTimeTransform(Streamed(w), e)
<1> DEFINE x == Append(w, e)
           n == Len(w)
<1>1. n \in Nat /\ Len(x) = n + 1 /\ x[n + 1] = e /\ \A i \in 1..n : x[i] = w[i]
  OBVIOUS
<1>2. PICK f : StreamFits(f, w, n) /\ Streamed(w) = f[n]
  BY <1>1, StreamExists
<1> HIDE DEF x, n
<1>3. PICK g : StreamFits(g, x, n + 1) /\ Streamed(x) = g[n + 1]
  <2>1. Len(x) \in Nat /\ Len(x) = n + 1
    BY <1>1
  <2>2. \E g : StreamFits(g, x, Len(x)) /\ Streamed(x) = g[Len(x)]
    BY <2>1, StreamExists
  <2> QED BY <2>1, <2>2
<1>4. \A i \in 0..n : f[i] = IF i = 0 THEN NoTable ELSE RealTimeTransform(f[i - 1], w[i])
  BY <1>2 DEF StreamFits
<1>5. \A i \in 0..n + 1 : g[i] = IF i = 0 THEN NoTable ELSE RealTimeTransform(g[i - 1], x[i])
  BY <1>3 DEF StreamFits
<1> DEFINE G == {i \in 0..n : g[i] = f[i]}
<1>6. 0 \in G
  BY <1>1, <1>4, <1>5
<1>7. ASSUME NEW i \in 1..n, i - 1 \in G PROVE i \in G
  <2>1. i \in 0..n /\ i \in 0..n + 1 /\ i # 0
    BY <1>1
  <2> QED BY <1>1, <1>4, <1>5, <1>7, <2>1
<1> HIDE DEF G
<1>8. n \in G
  <2>1. n \in Nat /\ n \in 0..n
    BY <1>1
  <2> QED BY <1>6, <1>7, <2>1, CountUp
<1>9. g[n] = f[n]
  BY <1>8 DEF G
<1>10. n + 1 \in 0..n + 1 /\ n + 1 # 0 /\ (n + 1) - 1 = n
  BY <1>1
<1>11. g[n + 1] = RealTimeTransform(g[n], e)
  BY <1>1, <1>5, <1>10
<1> QED BY <1>2, <1>3, <1>9, <1>11 DEF x

\* Before the first event the stream has no table.
LEMMA StreamedNone == Streamed(<<>>) = NoTable
<1>1. PICK f : StreamFits(f, <<>>, 0) /\ Streamed(<<>>) = f[0]
  BY StreamExists, Len(<<>>) = 0
<1>2. f[0] = NoTable
  BY <1>1 DEF StreamFits
<1> QED BY <1>1, <1>2

\* Every event leaves the stream its fields.
HasStats(r) == "stats" \in DOMAIN r

\* An event leaves the stream its odds, shown or not.
LEMMA TransformHasStats ==
  ASSUME NEW r, HasStats(r), NEW ev
  PROVE  HasStats(RealTimeTransform(r, ev))
<1>1. ASSUME NEW q, HasStats(q) PROVE HasStats(calculateAndEmitStats(q))
  BY <1>1 DEF HasStats, calculateAndEmitStats
<1>2. ASSUME NEW q, HasStats(q) PROVE HasStats(TakeSnapshots(q, ev))
  BY <1>2 DEF HasStats, TakeSnapshots
<1>3. HasStats(OnDeal(r, ev))
  BY <1>1, <1>2 DEF HasStats, OnDeal, NoTable
<1>4. HasStats(OnDealRound(r, ev))
  BY <1>1, <1>2 DEF HasStats, OnDealRound
<1>5. HasStats(OnAction(r, ev))
  BY <1>1 DEF HasStats, OnAction
<1>6. HasStats(OnResults(r, ev))
  BY DEF HasStats, OnResults
<1> QED BY <1>3, <1>4, <1>5, <1>6 DEF RealTimeTransform

\* The stream has odds, shown or not, after any events.
LEMMA StreamedHasStats ==
  ASSUME NEW w, Len(w) \in Nat
  PROVE  HasStats(Streamed(w))
<1> DEFINE n == Len(w)
<1>1. PICK f : StreamFits(f, w, n) /\ Streamed(w) = f[n]
  BY StreamExists
<1>2. \A i \in 0..n : f[i] = IF i = 0 THEN NoTable ELSE RealTimeTransform(f[i - 1], w[i])
  BY <1>1 DEF StreamFits
<1> DEFINE G == {i \in 0..n : HasStats(f[i])}
<1>3. 0 \in G
  <2>1. HasStats(NoTable)
    BY DEF HasStats, NoTable
  <2> QED BY <1>2, <2>1
<1>4. ASSUME NEW i \in 1..n, i - 1 \in G PROVE i \in G
  BY <1>2, <1>4, TransformHasStats
<1>0. n \in Nat /\ n \in 0..n
  OBVIOUS
<1> HIDE DEF G, n
<1>5. n \in G
  BY <1>0, <1>3, <1>4, CountUp
<1> QED BY <1>1, <1>5 DEF G

-----------------------------------------------------------------------------
(* The table while a hand is played.                                       *)

\* The types of the table's fields while a hand is played.
Statuses == {"able", "allin", "folded"}
IsTable(t) ==
  DOMAIN t = {"deal", "phase", "chip", "bet", "paid", "status", "high", "minRaise", "aggressive",
              "pending", "actor", "added", "silent", "truth", "done", "quirk"}
SeatsTyped(t) ==
  /\ IsTable(t) /\ t.deal \in Deals /\ t.phase \in 0..3
  /\ t.chip \in [Seated(t.deal) -> Nat]
  /\ t.bet \in [Seated(t.deal) -> Nat]
  /\ t.paid \in [Seated(t.deal) -> Nat]
  /\ t.status \in [Seated(t.deal) -> Statuses]
  /\ t.high \in Nat /\ t.minRaise \in Nat
  /\ t.pending \subseteq Able(t)
TableTyped(t) == SeatsTyped(t) /\ t.actor \in Able(t) \cup {NoSeat}

\* What a seat put in before the street.
Behind(t, s) == t.paid[s] - t.bet[s]

\* Nobody is above the bet, who can still bet has matched it or is to act, and nobody
\* has more in from the streets before than those who can still bet: as much, if he
\* has put in anything in this one.
BetsMatch(t) ==
  /\ \A s \in Seated(t.deal) : t.bet[s] <= t.high
  /\ \A s \in Able(t) : t.chip[s] > 0 /\ (s \notin t.pending => t.bet[s] = t.high)
  /\ \A s \in Able(t), o \in Seated(t.deal) :
       /\ Behind(t, o) <= Behind(t, s)
       /\ t.bet[o] # 0 => Behind(t, o) = Behind(t, s)
\* Somebody is in the hand, and somebody is to act unless the street is done.
TurnOK(t) ==
  /\ In(t) # {}
  /\ t.actor # NoSeat => ~Only(t)
  /\ t.actor = NoSeat => t.pending = {} \/ Only(t)
Underway(t) == TableTyped(t) /\ BetsMatch(t) /\ TurnOK(t)

\* What the server promises of a deal.
LEMMA DealFacts ==
  ASSUME NEW d \in Deals
  PROVE  /\ Len(d.seats) \in Nat \ {0} /\ DOMAIN d.seats = 1..Len(d.seats)
         /\ Seated(d) \subseteq 1..Len(d.seats) /\ IsFiniteSet(Seated(d))
         /\ NoSeat \notin Seated(d) /\ d.bb \in Nat \ {0}
<1>1. d.seats \in Seq(Int) /\ d.bb \in Nat \ {0} /\ \E s \in Seated(d) : TRUE
  BY DealsAssumption DEF DealShape
<1>2. Len(d.seats) \in Nat /\ DOMAIN d.seats = 1..Len(d.seats)
  BY <1>1
<1>3. Seated(d) \subseteq 1..Len(d.seats)
  BY <1>2 DEF Seated
<1>4. IsFiniteSet(1..Len(d.seats))
  BY <1>2, FS_Interval
<1> QED BY <1>1, <1>2, <1>3, <1>4, FS_Subset DEF NoSeat

\* The first seat of some, from any on, is one of them.
LEMMA FirstIsOne ==
  ASSUME NEW t, t.deal \in Deals, NEW s \in Int, NEW S \in SUBSET Seated(t.deal), S # {}
  PROVE  FirstFrom(t, s, S) \in S
<1> DEFINE n == Len(t.deal.seats)
           turn(x) == (x + n - s) % n
           T == {turn(x) : x \in S}
<1>1. n \in Nat \ {0} /\ S \subseteq Int
  BY DealFacts
<1> HIDE DEF n
<1>2. \A x \in S : turn(x) \in Nat
  BY <1>1
<1>3. T \in SUBSET Nat /\ T # {}
  BY <1>2
<1> HIDE DEF turn
<1>4. PICK u \in T : \A v \in T : u <= v
  BY <1>3, LeastOf
<1>5. \E x \in S : \A y \in S : turn(x) <= turn(y)
  BY <1>4
<1>6. (CHOOSE x \in S : \A y \in S : turn(x) <= turn(y)) \in S
  BY <1>5
<1> QED BY <1>6 DEF FirstFrom, turn, n

\* The amounts of a hand in play are natural numbers.
LEMMA InPlayIsChipped ==
  ASSUME NEW t, Underway(t)
  PROVE  Chipped(t)
BY DealFacts DEF Underway, TableTyped, SeatsTyped, TurnOK, Chipped, Statuses

\* The table after a move and the turn.
SameOther(t, u) ==
  /\ IsTable(u) /\ u.deal = t.deal /\ u.phase = t.phase /\ u.quirk = t.quirk /\ u.done = t.done

Raised(t, s, type) == Meaning(t, s, type) \in {"BET", "RAISE"}

IsPlayed(t, s, type, c, u) ==
  /\ SameOther(t, u)
  /\ u.chip = [t.chip EXCEPT ![s] = @ - c]
  /\ u.bet = [t.bet EXCEPT ![s] = @ + c]
  /\ u.paid = [t.paid EXCEPT ![s] = @ + c]
  /\ u.status = [t.status EXCEPT ![s] = IF type = "FOLD" THEN "folded"
                                        ELSE IF t.chip[s] = c THEN "allin" ELSE @]
  /\ u.high = Most(t.high, t.bet[s] + c)
  /\ Raised(t, s, type) => /\ u.minRaise = Most(t.minRaise, (t.bet[s] + c) - t.high)
                           /\ u.pending = Able(u) \ {s}
  /\ ~Raised(t, s, type) => u.minRaise = t.minRaise /\ u.pending = t.pending \ {s}

\* What a move changes of the table.
LEMMA PlayedFields ==
  ASSUME NEW t, SeatsTyped(t), NEW s \in Seated(t.deal), NEW type
  PROVE  IsPlayed(t, s, type, Cost(t, s, type), Played(t, s, type))
<1> DEFINE u == Played(t, s, type)
           c == Cost(t, s, type)
           paid == Pay(t, s, c)
           moved == IF type = "FOLD" THEN [paid EXCEPT !.status[s] = "folded"] ELSE paid
<1> HIDE DEF c, u
<1>1. /\ SameOther(t, paid) /\ paid.high = t.high /\ paid.minRaise = t.minRaise
      /\ paid.pending = t.pending /\ paid.actor = t.actor
      /\ paid.chip = [t.chip EXCEPT ![s] = @ - c]
      /\ paid.bet = [t.bet EXCEPT ![s] = @ + c]
      /\ paid.paid = [t.paid EXCEPT ![s] = @ + c]
      /\ paid.status = [t.status EXCEPT ![s] = IF t.chip[s] = c THEN "allin" ELSE @]
  BY DEF Pay, SameOther, IsTable, SeatsTyped
<1> HIDE DEF paid
<1>2. /\ SameOther(t, moved) /\ moved.high = t.high /\ moved.minRaise = t.minRaise
      /\ moved.pending = t.pending /\ moved.actor = t.actor
      /\ moved.chip = paid.chip /\ moved.bet = paid.bet /\ moved.paid = paid.paid
      /\ moved.status = [t.status EXCEPT ![s] = IF type = "FOLD" THEN "folded"
                                                ELSE IF t.chip[s] = c THEN "allin" ELSE @]
  BY <1>1 DEF SameOther, IsTable, SeatsTyped
<1>3. paid.bet[s] = t.bet[s] + c
  BY <1>1 DEF SeatsTyped
<1> HIDE DEF moved
<1>4. u = [moved EXCEPT
             !.high = Most(@, paid.bet[s]),
             !.minRaise = IF Raised(t, s, type) THEN Most(@, paid.bet[s] - t.high) ELSE @,
             !.aggressive = IF Raised(t, s, type) THEN @ + 1 ELSE @,
             !.pending = IF Raised(t, s, type) THEN Able(moved) \ {s} ELSE @ \ {s},
             !.truth = Append(@, [playerId |-> t.deal.seats[s], phase |-> t.phase,
                                  actionType |-> Meaning(t, s, type), before |-> Total(t.paid)])]
  BY DEF Played, Raised, moved, paid, u, c
<1>5. /\ SameOther(t, u) /\ u.chip = moved.chip /\ u.bet = moved.bet /\ u.paid = moved.paid
      /\ u.status = moved.status /\ u.high = Most(moved.high, paid.bet[s])
      /\ Raised(t, s, type) => /\ u.minRaise = Most(moved.minRaise, paid.bet[s] - t.high)
                               /\ u.pending = Able(moved) \ {s}
      /\ ~Raised(t, s, type) => u.minRaise = moved.minRaise /\ u.pending = moved.pending \ {s}
  BY <1>2, <1>4 DEF SameOther, IsTable
<1>6. Able(u) = Able(moved)
  BY <1>5 DEF Able
<1>7. /\ SameOther(t, u)
      /\ u.chip = [t.chip EXCEPT ![s] = @ - c]
      /\ u.bet = [t.bet EXCEPT ![s] = @ + c]
      /\ u.paid = [t.paid EXCEPT ![s] = @ + c]
      /\ u.status = [t.status EXCEPT ![s] = IF type = "FOLD" THEN "folded"
                                            ELSE IF t.chip[s] = c THEN "allin" ELSE @]
      /\ u.high = Most(t.high, t.bet[s] + c)
  BY <1>1, <1>2, <1>3, <1>5
<1>8. ASSUME Raised(t, s, type)
      PROVE  /\ u.minRaise = Most(t.minRaise, (t.bet[s] + c) - t.high)
             /\ u.pending = Able(u) \ {s}
  <2>1. u.pending = Able(u) \ {s}
    BY <1>5, <1>6, <1>8, Zenon
  <2>2. u.minRaise = Most(moved.minRaise, paid.bet[s] - t.high)
    BY <1>5, <1>8, Zenon
  <2>3. moved.minRaise = t.minRaise
    BY <1>2
  <2> QED BY <1>3, <2>1, <2>2, <2>3, Zenon
<1>9. ASSUME ~Raised(t, s, type)
      PROVE  u.minRaise = t.minRaise /\ u.pending = t.pending \ {s}
  BY <1>2, <1>5, <1>9
<1> QED BY <1>7, <1>8, <1>9, Zenon DEF u, c, IsPlayed

\* Passing the turn changes who is to act and nothing else.
LEMMA PassedFields ==
  ASSUME NEW u, IsTable(u), NEW s
  PROVE  LET v == Passed(u, s)
         IN /\ SameOther(u, v) /\ v.chip = u.chip /\ v.bet = u.bet /\ v.paid = u.paid
            /\ v.status = u.status /\ v.high = u.high /\ v.minRaise = u.minRaise
            /\ v.pending = Undecided(u)
            /\ v.actor = IF StreetDone(u) \/ Only(u) THEN NoSeat
                         ELSE FirstFrom(u, (s % Len(u.deal.seats)) + 1, Undecided(u))
BY DEF Passed, IsTable, SameOther

\* Passing the turn keeps a hand in play, and it has ended only if nobody is to act.
LEMMA PassedInPlay ==
  ASSUME NEW u, SeatsTyped(u), BetsMatch(u), In(u) # {}, NEW s \in Seated(u.deal)
  PROVE  LET v == Passed(u, s)
         IN Underway(v) /\ (Ended(v) => v.actor = NoSeat)
<1> DEFINE v == Passed(u, s)
           k == (s % Len(u.deal.seats)) + 1
<1>1. /\ IsTable(v) /\ v.deal = u.deal /\ v.phase = u.phase
      /\ v.chip = u.chip /\ v.bet = u.bet /\ v.paid = u.paid
      /\ v.status = u.status /\ v.high = u.high /\ v.minRaise = u.minRaise
      /\ v.pending = Undecided(u)
      /\ v.actor = IF StreetDone(u) \/ Only(u) THEN NoSeat ELSE FirstFrom(u, k, Undecided(u))
  BY PassedFields DEF SeatsTyped, SameOther
<1>2. Able(v) = Able(u) /\ In(v) = In(u)
  BY <1>1 DEF Able, In
<1>3. Undecided(u) \subseteq Able(u) /\ Able(u) \subseteq Seated(u.deal)
  BY DEF Undecided, Able, SeatsTyped
<1>4. k \in Int
  <2>1. Len(u.deal.seats) \in Nat \ {0} /\ s \in Int
    BY DealFacts DEF SeatsTyped
  <2> QED BY <2>1
<1>5. v.actor \in Undecided(u) \cup {NoSeat}
  <2>1. CASE StreetDone(u) \/ Only(u)
    BY <1>1, <2>1
  <2>2. CASE ~(StreetDone(u) \/ Only(u))
    <3>1. Undecided(u) # {} /\ u.deal \in Deals
      BY <2>2 DEF StreetDone, SeatsTyped
    <3>2. FirstFrom(u, k, Undecided(u)) \in Undecided(u)
      BY <1>3, <1>4, <3>1, FirstIsOne
    <3> QED BY <1>1, <2>2, <3>2
  <2> QED BY <2>1, <2>2
<1> HIDE DEF v, k
<1>6. TableTyped(v)
  BY <1>1, <1>2, <1>3, <1>5 DEF TableTyped, SeatsTyped
<1>7. BetsMatch(v)
  <2>1. \A x \in Able(u) : x \notin Undecided(u) => u.bet[x] = u.high
    BY <1>3 DEF BetsMatch, Undecided, SeatsTyped
  <2>2. \A x : Behind(v, x) = Behind(u, x)
    BY <1>1 DEF Behind
  <2> QED BY <1>1, <1>2, <2>1, <2>2 DEF BetsMatch
<1>8. Only(v) = Only(u)
  BY <1>2 DEF Only
<1>9. NoSeat \notin Undecided(u)
  BY <1>3, DealFacts DEF SeatsTyped
<1>10. TurnOK(v)
  <2>1. v.actor # NoSeat => ~Only(v)
    BY <1>1, <1>8
  <2>2. v.actor = NoSeat => v.pending = {} \/ Only(v)
    <3>1. CASE StreetDone(u) \/ Only(u)
      BY <1>1, <1>8, <3>1 DEF StreetDone
    <3>2. CASE ~(StreetDone(u) \/ Only(u))
      <4>1. Undecided(u) # {} /\ u.deal \in Deals
        BY <3>2 DEF StreetDone, SeatsTyped
      <4>2. FirstFrom(u, k, Undecided(u)) \in Undecided(u)
        BY <1>3, <1>4, <4>1, FirstIsOne
      <4> QED BY <1>1, <1>9, <3>2, <4>2
    <3> QED BY <3>1, <3>2
  <2> QED BY <1>2, <2>1, <2>2 DEF TurnOK
<1>11. Ended(v) => v.actor = NoSeat
  <2>1. Undecided(v) = Undecided(u)
    BY <1>1, <1>2 DEF Undecided
  <2> QED BY <1>1, <1>8, <2>1 DEF Ended, RunOut, StreetDone
<1> QED BY <1>6, <1>7, <1>10, <1>11 DEF Underway, v

\* The moves of a player.
ActionTypes == {"CHECK", "BET", "FOLD", "CALL", "RAISE", "ALL_IN"}

\* What an allowed action costs: at most the stack, all of it for an all-in only; who
\* raises is at the bet or above, and who does not is below, all-in, folded or at it.
LEMMA CostFacts ==
  ASSUME NEW t, Underway(t), t.actor # NoSeat, NEW type \in ActionTypes, Allowed(t, t.actor, type)
  PROVE  LET s == t.actor
             c == Cost(t, s, type)
         IN /\ s \in Able(t) /\ s \in Seated(t.deal)
            /\ c \in Nat /\ c <= t.chip[s]
            /\ (c = t.chip[s]) = (type = "ALL_IN")
            /\ Raised(t, s, type) => t.high <= t.bet[s] + c /\ type # "FOLD"
            /\ ~Raised(t, s, type) => /\ t.bet[s] + c <= t.high
                                      /\ type \in {"FOLD", "ALL_IN"} \/ t.bet[s] + c = t.high
<1> DEFINE s == t.actor
           c == Cost(t, s, type)
<1>1. s \in Able(t) /\ s \in Seated(t.deal)
  BY DEF Underway, TableTyped, SeatsTyped, Able
<1>2. /\ t.chip[s] \in Nat /\ t.chip[s] > 0 /\ t.bet[s] \in Nat /\ t.bet[s] <= t.high
      /\ t.high \in Nat /\ t.minRaise \in Nat /\ t.deal.bb \in Nat \ {0}
  BY <1>1, DealFacts DEF Underway, TableTyped, SeatsTyped, BetsMatch
<1>3. CASE type = "CHECK"
  <2>1. t.high = t.bet[s] /\ c = 0 /\ ~Raised(t, s, type)
    BY <1>2, <1>3 DEF Allowed, NextActionTypes, Cost, Raised, Meaning
  <2> QED BY <1>1, <1>2, <1>3, <2>1
<1>4. CASE type = "FOLD"
  <2>1. c = 0 /\ ~Raised(t, s, type)
    BY <1>2, <1>4 DEF Allowed, NextActionTypes, Cost, Raised, Meaning
  <2> QED BY <1>1, <1>2, <1>4, <2>1
<1>5. CASE type = "CALL"
  <2>1. c = t.high - t.bet[s] /\ t.chip[s] > c /\ ~Raised(t, s, type)
    BY <1>2, <1>5 DEF Allowed, NextActionTypes, Cost, Raised, Meaning
  <2> QED BY <1>1, <1>2, <1>5, <2>1
<1>6. CASE type = "BET"
  <2>1. t.high = t.bet[s] /\ c = t.deal.bb /\ t.chip[s] > c /\ Raised(t, s, type)
    BY <1>2, <1>6 DEF Allowed, NextActionTypes, Cost, Raised, Meaning
  <2> QED BY <1>1, <1>2, <1>6, <2>1
<1>7. CASE type = "RAISE"
  <2>1. c = t.high + t.minRaise - t.bet[s] /\ t.chip[s] > c /\ Raised(t, s, type)
    BY <1>2, <1>7 DEF Allowed, Cost, Raised, Meaning
  <2> QED BY <1>1, <1>2, <1>7, <2>1
<1>8. CASE type = "ALL_IN"
  <2>1. c = t.chip[s]
    BY <1>8 DEF Cost
  <2>2. Raised(t, s, type) <=> t.high = 0 \/ t.bet[s] + t.chip[s] > t.high
    BY <1>8 DEF Raised, Meaning
  <2>3. Raised(t, s, type) => t.high <= t.bet[s] + c
    <3> HIDE DEF c, s
    <3> QED BY <1>2, <2>1, <2>2
  <2>4. ~Raised(t, s, type) => t.bet[s] + c <= t.high
    <3> HIDE DEF c, s
    <3> QED BY <1>2, <2>1, <2>2
  <2> HIDE DEF c, s
  <2> QED BY <1>1, <1>2, <1>8, <2>1, <2>3, <2>4 DEF c, s
<1> QED BY <1>3, <1>4, <1>5, <1>6, <1>7, <1>8 DEF ActionTypes

\* An allowed move leaves the bets matched.
LEMMA ActedInPlay ==
  ASSUME NEW t, Underway(t), t.actor # NoSeat, NEW type \in ActionTypes, Allowed(t, t.actor, type)
  PROVE  LET s == t.actor
             u == Played(t, s, type)
         IN /\ SeatsTyped(u) /\ BetsMatch(u) /\ In(u) # {}
            /\ In(u) = IF type = "FOLD" THEN In(t) \ {s} ELSE In(t)
<1> DEFINE s == t.actor
           c == Cost(t, s, type)
           u == Played(t, s, type)
           D == Seated(t.deal)
           R == Raised(t, s, type)
<1>1. /\ s \in Able(t) /\ s \in D
      /\ c \in Nat /\ c <= t.chip[s]
      /\ (c = t.chip[s]) = (type = "ALL_IN")
      /\ R => t.high <= t.bet[s] + c /\ type # "FOLD"
      /\ ~R => /\ t.bet[s] + c <= t.high
               /\ type \in {"FOLD", "ALL_IN"} \/ t.bet[s] + c = t.high
  BY CostFacts
<1>2. /\ SameOther(t, u)
      /\ u.chip = [t.chip EXCEPT ![s] = @ - c]
      /\ u.bet = [t.bet EXCEPT ![s] = @ + c]
      /\ u.paid = [t.paid EXCEPT ![s] = @ + c]
      /\ u.status = [t.status EXCEPT ![s] = IF type = "FOLD" THEN "folded"
                                            ELSE IF t.chip[s] = c THEN "allin" ELSE @]
      /\ u.high = Most(t.high, t.bet[s] + c)
      /\ R => u.minRaise = Most(t.minRaise, (t.bet[s] + c) - t.high) /\ u.pending = Able(u) \ {s}
      /\ ~R => u.minRaise = t.minRaise /\ u.pending = t.pending \ {s}
  <2>1. SeatsTyped(t) /\ s \in Seated(t.deal)
    BY <1>1 DEF Underway, TableTyped
  <2> HIDE DEF s, c, u, R
  <2>2. IsPlayed(t, s, type, c, u)
    BY <2>1, PlayedFields DEF c, u
  <2> QED BY <2>2, Zenon DEF IsPlayed, R
<1>3. /\ t.deal \in Deals /\ t.phase \in 0..3
      /\ t.chip \in [D -> Nat] /\ t.bet \in [D -> Nat] /\ t.paid \in [D -> Nat]
      /\ t.status \in [D -> Statuses] /\ t.high \in Nat /\ t.minRaise \in Nat
      /\ t.pending \subseteq Able(t)
  BY DEF Underway, TableTyped, SeatsTyped
<1>4. Seated(u.deal) = D /\ u.deal \in Deals /\ u.phase \in 0..3 /\ IsTable(u)
  BY <1>2, <1>3 DEF SameOther
<1> HIDE DEF s, c, u, D, R
<1>5. /\ u.chip \in [D -> Nat] /\ u.bet \in [D -> Nat] /\ u.paid \in [D -> Nat]
      /\ u.status \in [D -> Statuses]
  <2>1. t.chip[s] - c \in Nat /\ t.bet[s] + c \in Nat /\ t.paid[s] + c \in Nat
    BY <1>1, <1>3
  <2>2. u.chip \in [D -> Nat] /\ u.bet \in [D -> Nat] /\ u.paid \in [D -> Nat]
    BY <1>1, <1>2, <1>3, <2>1
  <2>3. u.status \in [D -> Statuses]
    BY <1>1, <1>2, <1>3 DEF Statuses
  <2> QED BY <2>2, <2>3
<1>6. u.high \in Nat /\ u.minRaise \in Nat /\ t.high <= u.high /\ u.bet[s] <= u.high
      /\ (R => u.high = u.bet[s]) /\ (~R => u.high = t.high)
  <2>1. t.bet[s] + c \in Nat /\ u.bet[s] = t.bet[s] + c
    BY <1>1, <1>2, <1>3
  <2> DEFINE new == t.bet[s] + c
  <2>2. u.high = IF t.high < new THEN new ELSE t.high
    BY <1>2 DEF Most
  <2>9. R => u.minRaise = Most(t.minRaise, new - t.high)
    BY <1>2, Zenon
  <2>10. ~R => u.minRaise = t.minRaise
    BY <1>2, Zenon
  <2>3. u.minRaise = t.minRaise \/ (u.minRaise = new - t.high /\ t.minRaise < new - t.high)
    <3>1. CASE R
      BY <2>9, <3>1 DEF Most
    <3>2. CASE ~R
      BY <2>10, <3>2 DEF Most
    <3> QED BY <3>1, <3>2
  <2>4. new \in Nat /\ t.high \in Nat /\ t.minRaise \in Nat
    BY <1>3, <2>1
  <2>5. (R => t.high <= new) /\ (~R => new <= t.high)
    BY <1>1
  <2> HIDE DEF new
  <2>6. u.high \in Nat /\ t.high <= u.high /\ new <= u.high
    BY <2>2, <2>4
  <2>7. u.minRaise \in Nat
    BY <2>3, <2>4
  <2>8. (R => u.high = new) /\ (~R => u.high = t.high)
    BY <2>2, <2>4, <2>5
  <2> QED BY <2>1, <2>6, <2>7, <2>8 DEF new
<1>7. /\ \A x \in D : x # s => /\ u.status[x] = t.status[x] /\ u.chip[x] = t.chip[x]
                               /\ u.bet[x] = t.bet[x] /\ u.paid[x] = t.paid[x]
      /\ u.status[s] = IF type = "FOLD" THEN "folded"
                       ELSE IF t.chip[s] = c THEN "allin" ELSE t.status[s]
      /\ u.chip[s] = t.chip[s] - c /\ u.bet[s] = t.bet[s] + c /\ u.paid[s] = t.paid[s] + c
  BY <1>1, <1>2, <1>3
<1>8. /\ t.status[s] = "able"
      /\ \A x \in D : (x \in Able(t) <=> t.status[x] = "able") /\ (x \in Able(u) <=> u.status[x] = "able")
      /\ Able(t) \subseteq D /\ Able(u) \subseteq D
  BY <1>1, <1>3, <1>5 DEF Able
<1>9. Able(u) \subseteq Able(t) /\ \A x \in Able(t) : x # s => x \in Able(u)
  BY <1>7, <1>8
<1>10. u.pending \subseteq Able(u)
  <2>1. t.pending \subseteq Able(t)
    BY <1>3
  <2> QED BY <1>2, <1>9, <2>1
<1>11. SeatsTyped(u)
  BY <1>4, <1>5, <1>6, <1>10 DEF SeatsTyped
<1>12. In(u) = IF type = "FOLD" THEN In(t) \ {s} ELSE In(t)
  <2>1. /\ \A x \in D : /\ x \in In(t) <=> t.status[x] \in {"able", "allin"}
                        /\ x \in In(u) <=> u.status[x] \in {"able", "allin"}
        /\ In(t) \subseteq D /\ In(u) \subseteq D
    BY <1>3, <1>5 DEF In
  <2>2. CASE type = "FOLD"
    BY <1>1, <1>7, <1>8, <2>1, <2>2
  <2>3. CASE type # "FOLD"
    BY <1>1, <1>7, <1>8, <2>1, <2>3
  <2> QED BY <2>2, <2>3
<1>13. In(u) # {}
  <2>1. IsFiniteSet(In(t)) /\ In(t) # {} /\ ~Only(t)
    <3>1. IsFiniteSet(D) /\ In(t) \subseteq D
      BY <1>3, DealFacts DEF In, D
    <3> QED BY <3>1, FS_Subset DEF Underway, TurnOK
  <2>2. In(t) # {s}
    BY <2>1, FS_Singleton DEF Only
  <2> QED BY <1>12, <2>1, <2>2
<1>14. \A x \in D : u.bet[x] <= u.high
  BY <1>3, <1>5, <1>6, <1>7 DEF Underway, BetsMatch, D
<1>15. \A x \in Able(u) : u.chip[x] > 0 /\ (x \notin u.pending => u.bet[x] = u.high)
  <2> SUFFICES ASSUME NEW x \in Able(u)
               PROVE  u.chip[x] > 0 /\ (x \notin u.pending => u.bet[x] = u.high)
    OBVIOUS
  <2>1. x \in Able(t) /\ x \in D /\ t.chip[x] > 0 /\ (x \notin t.pending => t.bet[x] = t.high)
    BY <1>8, <1>9 DEF Underway, BetsMatch
  <2>2. CASE x = s
    <3>1. type # "FOLD" /\ c # t.chip[s]
      BY <1>7, <1>8, <2>2
    <3>2. t.chip[s] - c > 0
      BY <1>1, <1>3, <3>1
    <3>3. u.bet[s] = u.high
      BY <1>1, <1>6, <1>7, <3>1
    <3> QED BY <1>7, <2>2, <3>2, <3>3
  <2>3. CASE x # s
    <3>1. u.chip[x] = t.chip[x] /\ u.bet[x] = t.bet[x]
      BY <1>7, <2>1, <2>3
    <3>2. CASE R
      BY <1>2, <2>1, <2>3, <3>1, <3>2
    <3>3. CASE ~R
      BY <1>2, <1>6, <2>1, <2>3, <3>1, <3>3
    <3> QED BY <3>2, <3>3
  <2> QED BY <2>2, <2>3
<1>16. \A x \in D : Behind(u, x) = Behind(t, x) /\ Behind(t, x) \in Int
  <2> SUFFICES ASSUME NEW x \in D PROVE Behind(u, x) = Behind(t, x) /\ Behind(t, x) \in Int
    OBVIOUS
  <2>1. CASE x = s
    BY <1>1, <1>3, <1>7, <2>1 DEF Behind
  <2>2. CASE x # s
    BY <1>3, <1>7, <2>2 DEF Behind
  <2> QED BY <2>1, <2>2
<1>17. ASSUME NEW x \in Able(u), NEW o \in D
       PROVE  /\ Behind(u, o) <= Behind(u, x)
              /\ u.bet[o] # 0 => Behind(u, o) = Behind(u, x)
  <2>1. x \in Able(t) /\ x \in D
    BY <1>8, <1>9
  <2>2. \A a \in Able(t), b \in D : /\ Behind(t, b) <= Behind(t, a)
                                    /\ t.bet[b] # 0 => Behind(t, b) = Behind(t, a)
    BY DEF Underway, BetsMatch, D
  <2>3. Behind(u, o) <= Behind(u, x)
    BY <1>16, <2>1, <2>2
  <2>4. ASSUME u.bet[o] # 0 PROVE Behind(u, o) = Behind(u, x)
    <3>1. CASE o = s
      <4>1. Behind(t, x) <= Behind(t, s) /\ Behind(t, s) <= Behind(t, x)
        BY <1>1, <2>1, <2>2
      <4> QED BY <1>1, <1>16, <2>1, <3>1, <4>1
    <3>2. CASE o # s
      BY <1>7, <1>16, <2>1, <2>2, <2>4, <3>2
    <3> QED BY <3>1, <3>2
  <2> QED BY <2>3, <2>4
<1>18. BetsMatch(u)
  BY <1>4, <1>14, <1>15, <1>17 DEF BetsMatch
<1> QED BY <1>11, <1>12, <1>13, <1>18 DEF u, s

\* After an allowed move and the turn the hand is in play or over.
LEMMA ActInPlay ==
  ASSUME NEW t, Underway(t), t.actor # NoSeat, NEW type \in ActionTypes, Allowed(t, t.actor, type)
  PROVE  LET s == t.actor
             u == Played(t, s, type)
             v == Passed(u, s)
         IN /\ Underway(v) /\ (Ended(v) => v.actor = NoSeat)
            /\ SameOther(t, v) /\ SameOther(u, v)
            /\ v.chip = u.chip /\ v.bet = u.bet /\ v.paid = u.paid /\ v.status = u.status
            /\ In(v) = IF type = "FOLD" THEN In(t) \ {s} ELSE In(t)
<1> DEFINE s == t.actor
           u == Played(t, s, type)
           v == Passed(u, s)
<1>1. /\ SeatsTyped(u) /\ BetsMatch(u) /\ In(u) # {}
      /\ In(u) = IF type = "FOLD" THEN In(t) \ {s} ELSE In(t)
  BY ActedInPlay
<1>2. s \in Seated(t.deal) /\ SeatsTyped(t)
  BY CostFacts DEF Underway, TableTyped
<1>3. SameOther(t, u)
  BY <1>2, PlayedFields DEF IsPlayed
<1> HIDE DEF s, u
<1>4. s \in Seated(u.deal)
  BY <1>2, <1>3 DEF SameOther
<1>5. Underway(v) /\ (Ended(v) => v.actor = NoSeat)
  BY <1>1, <1>4, PassedInPlay
<1>6. /\ SameOther(u, v) /\ v.chip = u.chip /\ v.bet = u.bet /\ v.paid = u.paid
      /\ v.status = u.status
  BY <1>1, PassedFields DEF SeatsTyped
<1> HIDE DEF v
<1>7. SameOther(t, v)
  BY <1>3, <1>6 DEF SameOther
<1>8. In(v) = In(u)
  BY <1>6 DEF In
<1> QED BY <1>1, <1>5, <1>6, <1>7, <1>8 DEF v, u, s

\* A player who times out is out; the hand goes on.
LEMMA TimeOutInPlay ==
  ASSUME NEW t, Underway(t), t.actor # NoSeat
  PROVE  LET gone == [t EXCEPT !.status[t.actor] = "folded", !.pending = @ \ {t.actor}, !.silent = TRUE]
             v == Passed(gone, t.actor)
         IN Underway(v) /\ SameOther(t, v)
<1> DEFINE s == t.actor
           u == [t EXCEPT !.status[s] = "folded", !.pending = @ \ {s}, !.silent = TRUE]
           v == Passed(u, s)
           D == Seated(t.deal)
<1>1. /\ IsTable(t) /\ t.deal \in Deals /\ t.phase \in 0..3 /\ t.chip \in [D -> Nat]
      /\ t.bet \in [D -> Nat] /\ t.paid \in [D -> Nat] /\ t.status \in [D -> Statuses]
      /\ t.high \in Nat /\ t.minRaise \in Nat /\ t.pending \subseteq Able(t)
      /\ s \in Able(t) /\ s \in D
  BY DEF Underway, TableTyped, SeatsTyped, Able
<1> HIDE DEF s
<1>2. /\ SameOther(t, u) /\ u.chip = t.chip /\ u.bet = t.bet /\ u.paid = t.paid
      /\ u.status = [t.status EXCEPT ![s] = "folded"] /\ u.high = t.high
      /\ u.minRaise = t.minRaise /\ u.pending = t.pending \ {s}
  BY <1>1 DEF IsTable, SameOther
<1> HIDE DEF u, D
<1>3. Able(u) = Able(t) \ {s} /\ In(u) = In(t) \ {s}
  BY <1>1, <1>2 DEF Able, In
<1>4. SeatsTyped(u)
  <2>1. u.status \in [D -> Statuses]
    BY <1>1, <1>2 DEF Statuses
  <2>2. u.pending \subseteq Able(u)
    BY <1>1, <1>2, <1>3
  <2>3. Seated(u.deal) = D /\ u.deal \in Deals /\ u.phase \in 0..3 /\ IsTable(u)
    BY <1>1, <1>2 DEF SameOther, D
  <2> QED BY <1>1, <1>2, <2>1, <2>2, <2>3 DEF SeatsTyped
<1>5. BetsMatch(u)
  <2>1. \A x : Behind(u, x) = Behind(t, x)
    BY <1>2 DEF Behind
  <2>2. Seated(u.deal) = Seated(t.deal)
    BY <1>2 DEF SameOther
  <2>3. BetsMatch(t)
    BY DEF Underway
  <2> QED BY <1>2, <1>3, <2>1, <2>2, <2>3 DEF BetsMatch
<1>6. In(u) # {}
  <2>1. IsFiniteSet(D) /\ In(t) \subseteq D
    BY <1>1, DealFacts DEF In, D
  <2>2. IsFiniteSet(In(t)) /\ In(t) # {} /\ ~Only(t)
    BY <2>1, FS_Subset DEF Underway, TurnOK, s
  <2>3. In(t) # {s}
    BY <2>2, FS_Singleton DEF Only
  <2> QED BY <1>3, <2>2, <2>3
<1>7. s \in Seated(u.deal)
  BY <1>1, <1>2 DEF SameOther, D
<1>8. Underway(v)
  BY <1>4, <1>5, <1>6, <1>7, PassedInPlay
<1>9. SameOther(u, v)
  BY <1>4, PassedFields DEF SeatsTyped
<1> HIDE DEF v
<1>10. SameOther(t, v)
  BY <1>2, <1>9 DEF SameOther
<1> QED BY <1>8, <1>10 DEF v, u, s

\* The next street.
LEMMA StreetInPlay ==
  ASSUME NEW t, Underway(t), t.actor = NoSeat, ~Ended(t)
  PROVE  LET u == NextStreet(t)
         IN /\ Underway(u) /\ u.actor # NoSeat
            /\ IsTable(u) /\ u.deal = t.deal /\ u.quirk = t.quirk /\ u.done = t.done
            /\ u.phase = t.phase + 1 /\ t.phase \in 0..2
            /\ u.bet = [s \in Seated(t.deal) |-> 0]
            /\ u.chip = t.chip /\ u.paid = t.paid /\ u.status = t.status
<1> DEFINE D == Seated(t.deal)
           k == (t.deal.btn % Len(t.deal.seats)) + 1
           w == [t EXCEPT !.phase = @ + 1, !.bet = [s \in DOMAIN @ |-> 0], !.high = 0,
                          !.minRaise = t.deal.bb, !.pending = Able(t)]
           u == NextStreet(t)
<1>1. /\ IsTable(t) /\ t.deal \in Deals /\ t.phase \in 0..3 /\ t.chip \in [D -> Nat]
      /\ t.bet \in [D -> Nat] /\ t.paid \in [D -> Nat] /\ t.status \in [D -> Statuses]
      /\ t.high \in Nat /\ Able(t) \subseteq D
  BY DEF Underway, TableTyped, SeatsTyped, Able
<1>2. ~Only(t) /\ t.pending = {}
  BY DEF Ended, Underway, TurnOK
<1>3. StreetDone(t)
  BY <1>2 DEF StreetDone, Undecided
<1>4. t.phase # 3 /\ ~(Cardinality(Able(t)) <= 1)
  BY <1>3 DEF Ended, RunOut, RIVER
<1>5. Able(t) # {}
  BY <1>4, FS_EmptySet
<1>6. k \in Int
  <2>1. Len(t.deal.seats) \in Nat \ {0} /\ t.deal.btn \in Nat
    BY <1>1, DealFacts, DealsAssumption DEF DealShape
  <2> QED BY <2>1
<1> HIDE DEF k
<1>7. /\ IsTable(w) /\ w.deal = t.deal /\ w.quirk = t.quirk /\ w.done = t.done
      /\ w.phase = t.phase + 1 /\ w.bet = [s \in D |-> 0] /\ w.chip = t.chip /\ w.paid = t.paid
      /\ w.status = t.status /\ w.high = 0 /\ w.minRaise = t.deal.bb /\ w.pending = Able(t)
  BY <1>1 DEF IsTable
<1>8. u = [w EXCEPT !.actor = FirstFrom(w, k, Able(t))]
  BY DEF NextStreet, k
<1> HIDE DEF w, u
<1>9. /\ IsTable(u) /\ u.deal = t.deal /\ u.quirk = t.quirk /\ u.done = t.done
      /\ u.phase = t.phase + 1 /\ u.bet = [s \in D |-> 0] /\ u.chip = t.chip /\ u.paid = t.paid
      /\ u.status = t.status /\ u.high = 0 /\ u.minRaise = t.deal.bb /\ u.pending = Able(t)
      /\ u.actor = FirstFrom(w, k, Able(t))
  BY <1>7, <1>8 DEF IsTable
<1>10. u.actor \in Able(t)
  BY <1>1, <1>5, <1>6, <1>7, <1>9, FirstIsOne
<1>11. Able(u) = Able(t) /\ In(u) = In(t)
  BY <1>9 DEF Able, In
<1>12. u.phase \in 0..3 /\ t.phase \in 0..2
  BY <1>1, <1>4, <1>9
<1>13. TableTyped(u)
  <2>1. t.deal.bb \in Nat
    BY <1>1, DealFacts
  <2>2. u.bet \in [Seated(u.deal) -> Nat]
    BY <1>9
  <2>3. Seated(u.deal) = D
    BY <1>9
  <2> HIDE DEF D
  <2> QED BY <1>1, <1>9, <1>10, <1>11, <1>12, <2>1, <2>2, <2>3 DEF TableTyped, SeatsTyped
<1>14. BetsMatch(u)
  <2>1. ASSUME NEW s \in Able(t), NEW o \in D PROVE Behind(u, o) <= Behind(u, s)
    <3>1. /\ t.bet[s] = t.high /\ t.bet[o] <= t.high
          /\ t.paid[o] - t.bet[o] <= t.paid[s] - t.bet[s]
      BY <1>2 DEF Underway, BetsMatch, Behind
    <3>2. /\ t.bet[s] \in Nat /\ t.bet[o] \in Nat /\ t.paid[o] \in Nat /\ t.paid[s] \in Nat
      BY <1>1
    <3>3. t.paid[o] <= t.paid[s]
      BY <1>1, <3>1, <3>2
    <3>4. Behind(u, o) = t.paid[o] /\ Behind(u, s) = t.paid[s]
      BY <1>1, <1>9, <3>2 DEF Behind
    <3> QED BY <3>3, <3>4
  <2>2. \A s \in Able(t) : t.chip[s] > 0
    BY DEF Underway, BetsMatch
  <2>3. Seated(u.deal) = D /\ \A s \in D : u.bet[s] = 0
    BY <1>9
  <2> HIDE DEF D
  <2> QED BY <1>1, <1>9, <1>11, <2>1, <2>2, <2>3 DEF BetsMatch
<1>15. NoSeat \notin Able(t)
  BY <1>1, DealFacts
<1>16. TurnOK(u)
  BY <1>2, <1>10, <1>11, <1>15 DEF TurnOK, Only, Underway
<1> QED BY <1>9, <1>10, <1>12, <1>13, <1>14, <1>15, <1>16 DEF Underway, u

\* Chips that are added leave the hand as it is.
LEMMA TopUpInPlay ==
  ASSUME NEW t, Underway(t), NEW s \in DOMAIN t.chip
  PROVE  LET u == [t EXCEPT !.chip[s] = @ + 1, !.added[s] = 1]
         IN Underway(u) /\ SameOther(t, u) /\ (Ended(t) => Ended(u))
<1> DEFINE D == Seated(t.deal)
           u == [t EXCEPT !.chip[s] = @ + 1, !.added[s] = 1]
<1>1. /\ IsTable(t) /\ t.deal \in Deals /\ t.phase \in 0..3 /\ t.chip \in [D -> Nat]
      /\ t.bet \in [D -> Nat] /\ t.paid \in [D -> Nat] /\ t.status \in [D -> Statuses]
      /\ t.high \in Nat /\ t.minRaise \in Nat /\ t.pending \subseteq Able(t)
      /\ t.actor \in Able(t) \cup {NoSeat} /\ s \in D
  BY DEF Underway, TableTyped, SeatsTyped
<1>2. /\ SameOther(t, u) /\ u.bet = t.bet /\ u.paid = t.paid /\ u.status = t.status
      /\ u.high = t.high /\ u.minRaise = t.minRaise /\ u.pending = t.pending /\ u.actor = t.actor
      /\ u.chip = [t.chip EXCEPT ![s] = @ + 1]
  BY <1>1 DEF IsTable, SameOther
<1> HIDE DEF u
<1>3. Able(u) = Able(t) /\ In(u) = In(t)
  BY <1>2 DEF Able, In
<1>4. u.chip \in [D -> Nat] /\ \A x \in D : t.chip[x] > 0 => u.chip[x] > 0
  <2>1. t.chip[s] + 1 \in Nat /\ t.chip[s] + 1 > 0
    BY <1>1
  <2> QED BY <1>1, <1>2, <2>1
<1>5. Seated(u.deal) = D /\ u.deal \in Deals /\ u.phase \in 0..3 /\ IsTable(u)
  BY <1>1, <1>2 DEF SameOther
<1>6. TableTyped(u)
  BY <1>1, <1>2, <1>3, <1>4, <1>5 DEF TableTyped, SeatsTyped
<1>7. BetsMatch(u)
  <2>1. \A x : Behind(u, x) = Behind(t, x)
    BY <1>2 DEF Behind
  <2>2. BetsMatch(t) /\ Able(t) \subseteq D
    BY <1>1 DEF Underway, Able
  <2> QED BY <1>2, <1>3, <1>4, <1>5, <2>1, <2>2 DEF BetsMatch
<1>8. TurnOK(u)
  BY <1>2, <1>3 DEF Underway, TurnOK, Only
<1>9. Ended(t) => Ended(u)
  BY <1>2, <1>3 DEF Ended, Only, RunOut, StreetDone, Undecided, SameOther
<1> QED BY <1>2, <1>6, <1>7, <1>8, <1>9 DEF Underway, u

\* The deal.
LEMMA DealtInPlay ==
  ASSUME NEW d \in Deals, NEW q
  PROVE  LET t == [Dealt(d) EXCEPT !.quirk = q]
         IN /\ Underway(t) /\ t.actor # NoSeat /\ t.deal = d /\ t.phase = 0 /\ t.quirk = q /\ ~t.done
            /\ In(t) = Seated(d) /\ Seated(t.deal) = Seated(d)
<1> DEFINE D == Seated(d)
           left == [s \in D |-> d.start[s] - AntePaid(d, s) - BlindPaid(d, s)]
           t == [Dealt(d) EXCEPT !.quirk = q]
           k == (d.bbSeat % Len(d.seats)) + 1
           able == {s \in D : left[s] > 0}
<1>1. /\ IsFiniteSet(D) /\ Cardinality(D) >= 2 /\ D \subseteq Int /\ NoSeat \notin D
      /\ Len(d.seats) \in Nat \ {0}
  BY DealFacts, DealsAssumption DEF DealShape
<1>2. /\ \A s \in D : d.start[s] \in Nat
      /\ d.ante \in Nat /\ d.sb \in Nat /\ d.bb \in Nat \ {0} /\ d.bbSeat \in Nat /\ d.sb <= d.bb
  BY DealsAssumption DEF DealShape
<1>3. \E s \in able : BlindPaid(d, s) < d.bb \/ able \ {s} # {}
  BY DealsAssumption DEF DealShape
<1>4. ASSUME NEW s \in D
      PROVE  /\ AntePaid(d, s) \in Nat /\ BlindPaid(d, s) \in Nat /\ left[s] \in Nat
             /\ BlindPaid(d, s) <= d.bb /\ AntePaid(d, s) <= d.ante
             /\ (left[s] > 0 \/ BlindPaid(d, s) # 0 => AntePaid(d, s) = d.ante)
  <2>1. BlindDue(d, s) \in Nat /\ BlindDue(d, s) <= d.bb
    BY <1>2 DEF BlindDue
  <2>2. /\ AntePaid(d, s) \in Nat /\ AntePaid(d, s) <= d.ante /\ AntePaid(d, s) <= d.start[s]
        /\ AntePaid(d, s) = d.ante \/ AntePaid(d, s) = d.start[s]
    BY <1>2 DEF AntePaid, Least
  <2>3. /\ BlindPaid(d, s) \in Nat /\ BlindPaid(d, s) <= d.bb
        /\ BlindPaid(d, s) <= d.start[s] - AntePaid(d, s)
    BY <1>2, <2>1, <2>2 DEF BlindPaid, Least
  <2>4. left[s] = d.start[s] - AntePaid(d, s) - BlindPaid(d, s)
    OBVIOUS
  <2> HIDE DEF left
  <2> QED BY <1>2, <2>2, <2>3, <2>4
<1> DEFINE t0 == [deal |-> d, phase |-> PREFLOP, chip |-> left,
                  bet |-> [s \in D |-> BlindPaid(d, s)],
                  paid |-> [s \in D |-> AntePaid(d, s) + BlindPaid(d, s)],
                  status |-> [s \in D |-> IF left[s] = 0 THEN "allin" ELSE "able"],
                  high |-> d.bb, minRaise |-> d.bb, aggressive |-> 0,
                  pending |-> able, actor |-> NoSeat,
                  added |-> [s \in D |-> 0], silent |-> FALSE,
                  truth |-> <<>>, done |-> FALSE, quirk |-> "none"]
<1>5. Dealt(d) = [t0 EXCEPT !.actor = FirstFrom(t0, k, Undecided(t0))]
  BY DEF Dealt
<1>6. /\ IsTable(t) /\ t.deal = d /\ t.phase = 0 /\ t.chip = left
      /\ t.bet = [s \in D |-> BlindPaid(d, s)]
      /\ t.paid = [s \in D |-> AntePaid(d, s) + BlindPaid(d, s)]
      /\ t.status = [s \in D |-> IF left[s] = 0 THEN "allin" ELSE "able"]
      /\ t.high = d.bb /\ t.minRaise = d.bb /\ t.pending = able /\ t.done = FALSE /\ t.quirk = q
      /\ t.actor = FirstFrom(t0, k, Undecided(t0))
  BY <1>5 DEF IsTable, PREFLOP
<1>7. /\ t0.deal = d /\ t0.pending = able /\ t0.high = d.bb
      /\ t0.bet = [s \in D |-> BlindPaid(d, s)]
      /\ t0.status = [s \in D |-> IF left[s] = 0 THEN "allin" ELSE "able"]
  OBVIOUS
<1> HIDE DEF t, t0
<1>8. Able(t0) = able /\ Able(t) = able /\ In(t) = D
  <2>1. \A s \in D : left[s] # 0 <=> left[s] > 0
    BY <1>4
  <2> HIDE DEF left
  <2> QED BY <1>6, <1>7, <2>1 DEF Able, In
<1>9. Undecided(t0) # {} /\ Undecided(t0) \subseteq able /\ able \subseteq D
  BY <1>3, <1>7, <1>8 DEF Undecided
<1>10. k \in Int
  BY <1>1, <1>2
<1> HIDE DEF k, able
<1>11. t.actor \in able
  BY <1>6, <1>7, <1>9, <1>10, FirstIsOne
<1>12. TableTyped(t)
  <2>1. /\ left \in [D -> Nat] /\ [s \in D |-> BlindPaid(d, s)] \in [D -> Nat]
        /\ [s \in D |-> AntePaid(d, s) + BlindPaid(d, s)] \in [D -> Nat]
    BY <1>4
  <2>2. t.status \in [D -> Statuses]
    BY <1>6 DEF Statuses
  <2> HIDE DEF left, D
  <2>3. Seated(t.deal) = D /\ 0 \in 0..3
    BY <1>6 DEF D
  <2> QED BY <1>2, <1>6, <1>8, <1>11, <2>1, <2>2, <2>3 DEF TableTyped, SeatsTyped
<1>13. BetsMatch(t)
  <2>1. \A s \in D : /\ t.bet[s] = BlindPaid(d, s) /\ Behind(t, s) = AntePaid(d, s)
    <3> SUFFICES ASSUME NEW s \in D
                 PROVE  t.bet[s] = BlindPaid(d, s) /\ Behind(t, s) = AntePaid(d, s)
      OBVIOUS
    <3>1. t.bet[s] = BlindPaid(d, s) /\ t.paid[s] = AntePaid(d, s) + BlindPaid(d, s)
      BY <1>6
    <3> QED BY <1>4, <3>1 DEF Behind
  <2>2. \A s \in able : s \in D /\ left[s] > 0 /\ s \in t.pending /\ AntePaid(d, s) = d.ante
    BY <1>4, <1>6 DEF able
  <2>3. Seated(t.deal) = D
    BY <1>6
  <2> HIDE DEF D, left
  <2> QED BY <1>4, <1>6, <1>8, <2>1, <2>2, <2>3 DEF BetsMatch
<1>14. TurnOK(t)
  <2>1. ~Only(t) /\ In(t) # {}
    BY <1>1, <1>8, FS_EmptySet DEF Only
  <2>2. t.actor # NoSeat
    BY <1>1, <1>9, <1>11
  <2> QED BY <2>1, <2>2 DEF TurnOK
<1>15. t.actor # NoSeat
  BY <1>1, <1>9, <1>11
<1> QED BY <1>6, <1>8, <1>12, <1>13, <1>14, <1>15 DEF Underway, t

-----------------------------------------------------------------------------
(* The stream and the table.                                               *)

\* The fields of the stream, and what it calls the statuses of the table.
IsStream(r) ==
  DOMAIN r = {"hero", "seats", "cards", "phase", "progress", "bets", "chips", "statuses",
              "active", "stats"}
Label(status) ==
  CASE status = "able" -> "BET_ABLE" [] status = "allin" -> "ALL_IN" [] OTHER -> "FOLDED"

\* The stream has what the table has of every seat.
Matches(t, r) ==
  LET D == Seated(t.deal)
  IN /\ r.bets = [s \in DOMAIN t.deal.seats |-> IF s \in D THEN t.bet[s] ELSE 0]
     /\ D \subseteq DOMAIN r.chips /\ D \subseteq DOMAIN r.statuses
     /\ \A s \in D : r.chips[s] = t.chip[s] /\ r.statuses[s] = Label(t.status[s])
     /\ r.active = Cardinality(In(t))
     /\ potSize(r.progress[1]) = Total(t.paid)
     /\ \A s \in D : r.progress[1].NextActionSeat = s <=> t.actor = s

\* The odds as the stream shows them.
OddsOf(r) ==
  [shown |-> TRUE, communityCards |-> r.cards, currentPhase |-> r.phase,
   opponents |-> r.active - 1,
   seats |-> [s \in {x \in DOMAIN r.seats : r.seats[x] # -1} |-> calculatePlayerPotOdds(r, s)]]

\* The largest bet of the stream is that of the table.
LEMMA MaxBetIsTrue ==
  ASSUME NEW t, Underway(t), NEW r, Matches(t, r)
  PROVE  LET M == Max({t.bet[o] : o \in DOMAIN t.bet})
         IN /\ Max({r.bets[o] : o \in DOMAIN r.bets} \cup {0}) = M
            /\ M \in Nat /\ \A s \in Seated(t.deal) : t.bet[s] <= M
<1> DEFINE D == Seated(t.deal)
           S == {t.bet[o] : o \in D}
           R == {r.bets[o] : o \in DOMAIN r.bets} \cup {0}
<1>1. /\ t.bet \in [D -> Nat] /\ IsFiniteSet(D) /\ D \subseteq DOMAIN t.deal.seats /\ D # {}
  <2>1. D # {}
    BY DEF Underway, TurnOK, In, TableTyped, SeatsTyped
  <2> QED BY <2>1, DealFacts DEF Underway, TableTyped, SeatsTyped
<1>2. Max(S) \in S /\ \A d \in D : t.bet[d] <= Max(S)
  BY <1>1, MaxOfValues
<1>3. R = S \cup {0}
  BY <1>1 DEF Matches
<1>4. S \in SUBSET Nat /\ S # {} /\ Max(S) \in Nat
  BY <1>1, <1>2
<1>5. \A y \in S : y <= Max(S)
  BY <1>2
<1> HIDE DEF S, R
<1>6. R \in SUBSET Nat /\ R # {} /\ \A y \in R : y <= Max(S)
  BY <1>3, <1>4, <1>5
<1>7. Max(R) \in R /\ \A y \in R : y <= Max(R)
  BY <1>4, <1>6, MaxIsLargest
<1>8. Max(S) \in R
  BY <1>2, <1>3
<1>9. Max(R) = Max(S)
  <2>1. Max(S) <= Max(R) /\ Max(R) <= Max(S) /\ Max(R) \in Nat
    BY <1>6, <1>7, <1>8
  <2> QED BY <1>4, <2>1
<1>10. S = {t.bet[o] : o \in DOMAIN t.bet}
  BY <1>1 DEF S
<1> QED BY <1>2, <1>4, <1>9, <1>10 DEF R, D

\* What a seat that can still bet may win is the pots without what is out of its reach.
LEMMA WinnableIsEligible ==
  ASSUME NEW t, Underway(t), NEW r, Matches(t, r), NEW s \in Able(t)
  PROVE  LET call == ToCall(t, s)
             unmatched == unmatchedExcess(r, s, r.bets[s] + call)
         IN /\ call \in Nat /\ Winnable(t, s) \in Nat /\ unmatched \in Nat
            /\ Total(t.paid) = Winnable(t, s) + unmatched
<1> DEFINE D == Seated(t.deal)
           M == Max({t.bet[o] : o \in DOMAIN t.bet})
           call == ToCall(t, s)
           m == [o \in D |-> Least(t.paid[o], t.paid[s] + call)]
           reach == r.bets[s] + call
           e == [o \in DOMAIN r.bets |-> IF r.bets[o] > reach THEN r.bets[o] - reach ELSE 0]
           Seats == DOMAIN t.deal.seats
<1>1. /\ t.bet \in [D -> Nat] /\ t.paid \in [D -> Nat] /\ t.chip \in [D -> Nat]
      /\ s \in D /\ D \subseteq Seats /\ IsFiniteSet(Seats)
  <2>1. t.deal \in Deals /\ t.status \in [D -> Statuses]
    BY DEF Underway, TableTyped, SeatsTyped
  <2>2. Seats = 1..Len(t.deal.seats) /\ Len(t.deal.seats) \in Nat /\ D \subseteq Seats
    BY <2>1, DealFacts
  <2>3. IsFiniteSet(Seats)
    BY <2>2, FS_Interval
  <2>4. s \in D
    BY <2>1 DEF Able
  <2> QED BY <2>2, <2>3, <2>4 DEF Underway, TableTyped, SeatsTyped
<1>2. M \in Nat /\ \A x \in D : t.bet[x] <= M
  BY MaxBetIsTrue
<1>3. call = IF t.chip[s] < M - t.bet[s] THEN t.chip[s] ELSE M - t.bet[s]
  BY DEF ToCall, Least
<1> HIDE DEF call, M
<1>4. call \in Nat
  BY <1>1, <1>2, <1>3
<1>5. r.bets = [x \in Seats |-> IF x \in D THEN t.bet[x] ELSE 0]
  BY DEF Matches
<1>6. reach = t.bet[s] + call /\ reach \in Nat
  BY <1>1, <1>4, <1>5
<1>7. /\ DOMAIN r.bets = Seats /\ \A x \in D : r.bets[x] = t.bet[x]
      /\ \A x \in Seats : x \notin D => r.bets[x] = 0
  BY <1>1, <1>5
<1> HIDE DEF reach, D, Seats
<1>8. ASSUME NEW o \in D
      PROVE  m[o] \in Nat /\ e[o] \in Nat /\ t.paid[o] = m[o] + e[o]
  <2>1. /\ m[o] = IF t.paid[o] < t.paid[s] + call THEN t.paid[o] ELSE t.paid[s] + call
        /\ e[o] = IF t.bet[o] > reach THEN t.bet[o] - reach ELSE 0
    BY <1>1, <1>7 DEF Least
  <2>2. /\ t.paid[o] \in Nat /\ t.paid[s] \in Nat /\ t.bet[o] \in Nat /\ t.bet[s] \in Nat
    BY <1>1
  <2>3. /\ t.paid[o] - t.bet[o] <= t.paid[s] - t.bet[s]
        /\ t.bet[o] # 0 => t.paid[o] - t.bet[o] = t.paid[s] - t.bet[s]
    BY DEF Underway, BetsMatch, Behind, D
  <2> HIDE DEF m, e
  <2>4. CASE t.bet[o] = 0
    <3>1. t.paid[o] <= t.paid[s] + call
      BY <1>4, <2>2, <2>3, <2>4
    <3>2. m[o] = t.paid[o]
      BY <1>4, <2>1, <2>2, <3>1
    <3>3. e[o] = 0
      BY <1>6, <2>1, <2>4
    <3> QED BY <2>2, <3>2, <3>3
  <2>5. CASE t.bet[o] # 0
    <3>1. t.paid[o] = t.paid[s] - t.bet[s] + t.bet[o]
      BY <2>2, <2>3, <2>5
    <3> QED BY <1>4, <1>6, <2>1, <2>2, <3>1
  <2> QED BY <2>4, <2>5
<1>9. \A o \in DOMAIN e : o \notin D => e[o] = 0
  BY <1>6, <1>7
<1>10. DOMAIN t.paid = D /\ DOMAIN m = D /\ DOMAIN e = Seats
  BY <1>1, <1>7
<1>11. Winnable(t, s) = Total(m) /\ unmatchedExcess(r, s, reach) = Total(e)
  BY <1>10 DEF Winnable, call, unmatchedExcess, Total
<1> HIDE DEF m, e
<1>12. /\ Total(m) \in Nat /\ Total(e) \in Nat /\ Total(t.paid) = Total(m) + Total(e)
  <2>1. IsFiniteSet(DOMAIN e) /\ D \subseteq DOMAIN e
    BY <1>1, <1>10
  <2>2. \A o \in D : m[o] \in Nat /\ e[o] \in Nat /\ t.paid[o] = m[o] + e[o]
    BY <1>8
  <2>3. DOMAIN t.paid = D /\ DOMAIN m = D
    BY <1>10
  <2>4. Splits(t.paid, m, e)
    BY <1>9, <2>1, <2>2, <2>3 DEF Splits
  <2> QED BY <2>4, TotalSplit
<1> QED BY <1>4, <1>11, <1>12 DEF reach, call

\* A stream that has what the table has shows the odds of the table.
LEMMA OddsFromMatch ==
  ASSUME NEW t, Underway(t), NEW q, q.cards = Board(t.phase), q.seats = t.deal.seats,
         Exact(t) => Matches(t, q)
  PROVE  StatsTrue(t, OddsOf(q))
<1> DEFINE o == OddsOf(q)
           S == {x \in DOMAIN q.seats : q.seats[x] # -1}
<1>1. o.shown = TRUE /\ o.communityCards = Board(t.phase) /\ o.opponents = q.active - 1
      /\ o.seats = [s \in S |-> calculatePlayerPotOdds(q, s)]
  BY DEF OddsOf
<1>2. S = Seated(t.deal)
  BY DEF Seated, NoUser
<1> HIDE DEF o, S
<1>3. ASSUME Exact(t), NEW s \in Able(t)
      PROVE  /\ o.seats[s].call = ToCall(t, s)
             /\ o.seats[s].pot = Winnable(t, s) + ToCall(t, s)
             /\ o.seats[s].isPlayerTurn = (t.actor = s)
  <2> DEFINE p == calculatePlayerPotOdds(q, s)
             call == ToCall(t, s)
             unmatched == unmatchedExcess(q, s, q.bets[s] + call)
  <2>1. Matches(t, q)
    BY <1>3
  <2>2. s \in Seated(t.deal) /\ t.status[s] = "able" /\ Seated(t.deal) \subseteq DOMAIN t.deal.seats
    BY DEF Underway, TableTyped, SeatsTyped, Able, Seated
  <2>3. q.chips[s] = t.chip[s] /\ q.statuses[s] = "BET_ABLE" /\ q.bets[s] = t.bet[s]
        /\ potSize(q.progress[1]) = Total(t.paid)
    BY <2>1, <2>2 DEF Matches, Label
  <2>4. Max({q.bets[x] : x \in DOMAIN q.bets} \cup {0}) = Max({t.bet[x] : x \in DOMAIN t.bet})
    BY <2>1, MaxBetIsTrue
  <2>5. call \in Nat /\ Winnable(t, s) \in Nat /\ unmatched \in Nat
        /\ Total(t.paid) = Winnable(t, s) + unmatched
    BY <2>1, WinnableIsEligible
  <2>6. q.progress[1].NextActionSeat = s <=> t.actor = s
    BY <2>1, <2>2 DEF Matches
  <2>7. call = IF q.chips[s] < Max({q.bets[x] : x \in DOMAIN q.bets} \cup {0}) - q.bets[s]
               THEN q.chips[s] ELSE Max({q.bets[x] : x \in DOMAIN q.bets} \cup {0}) - q.bets[s]
    BY <2>3, <2>4 DEF ToCall, Least
  <2> HIDE DEF call
  <2>8. /\ p.call = call /\ p.isPlayerTurn = (q.progress[1].NextActionSeat = s)
        /\ p.pot = (IF potSize(q.progress[1]) > unmatched THEN potSize(q.progress[1]) - unmatched ELSE 0)
                   + call
    BY <2>3, <2>7 DEF calculatePlayerPotOdds
  <2> HIDE DEF p, unmatched
  <2>9. p.pot = Winnable(t, s) + call
    BY <2>3, <2>5, <2>8
  <2>10. o.seats[s] = p
    BY <1>1, <1>2, <2>2 DEF p
  <2> QED BY <2>6, <2>8, <2>9, <2>10 DEF call
<1>4. Exact(t) => o.opponents = Cardinality(In(t)) - 1
  BY <1>1 DEF Matches
<1> QED BY <1>1, <1>3, <1>4 DEF StatsTrue, o

\* The stream keeps up with the table, and shows its odds.
Follows(t, r) ==
  /\ IsStream(r)
  /\ t.deal.hero = NoSeat => r.hero = NoSeat
  /\ t.deal.hero # NoSeat =>
       /\ r.hero = t.deal.hero /\ r.seats = t.deal.seats /\ r.cards = Board(t.phase)
       /\ r.phase = t.phase \/ (Ended(t) /\ t.actor = NoSeat)
       /\ Exact(t) => Matches(t, r)
Keeps(t, r) ==
  /\ Follows(t, r)
  /\ t.deal.hero = NoSeat => r.stats = NoStats
  /\ t.deal.hero # NoSeat => StatsTrue(t, r.stats)

\* Recomputing the odds keeps up with the table.  (calculateAndEmitStats)
LEMMA EmittedKeeps ==
  ASSUME NEW t, Underway(t), NEW q, Follows(t, q), t.deal.hero = NoSeat => q.stats = NoStats
  PROVE  Keeps(t, calculateAndEmitStats(q))
<1>1. CASE t.deal.hero = NoSeat
  <2>1. calculateAndEmitStats(q) = q
    BY <1>1 DEF Follows, calculateAndEmitStats
  <2> QED BY <1>1, <2>1 DEF Keeps
<1>2. CASE t.deal.hero # NoSeat
  <2> DEFINE r == calculateAndEmitStats(q)
  <2>1. /\ IsStream(q) /\ q.hero = t.deal.hero /\ q.seats = t.deal.seats /\ q.cards = Board(t.phase)
        /\ q.phase = t.phase \/ (Ended(t) /\ t.actor = NoSeat)
        /\ Exact(t) => Matches(t, q)
    BY <1>2, Zenon DEF Follows
  <2>2. r = [q EXCEPT !.stats = OddsOf(q)]
    BY <1>2, <2>1 DEF calculateAndEmitStats, OddsOf
  <2>3. /\ IsStream(r) /\ r.stats = OddsOf(q) /\ r.hero = q.hero /\ r.seats = q.seats
        /\ r.cards = q.cards /\ r.phase = q.phase /\ r.bets = q.bets /\ r.chips = q.chips
        /\ r.statuses = q.statuses /\ r.active = q.active /\ r.progress = q.progress
    BY <2>1, <2>2 DEF IsStream
  <2> HIDE DEF r
  <2>4. Exact(t) => Matches(t, r)
    <3>1. Matches(t, q) => Matches(t, r)
      BY <2>3 DEF Matches
    <3> QED BY <2>1, <3>1, Zenon
  <2>5. StatsTrue(t, r.stats)
    <3>1. StatsTrue(t, OddsOf(q))
      BY <2>1, OddsFromMatch
    <3> QED BY <2>3, <3>1
  <2>6. r.phase = t.phase \/ (Ended(t) /\ t.actor = NoSeat)
    BY <2>1, <2>3
  <2>7. Follows(t, r)
    BY <1>2, <2>1, <2>3, <2>4, <2>6, Zenon DEF Follows
  <2> QED BY <1>2, <2>5, <2>7 DEF Keeps, r
<1> QED BY <1>1, <1>2

-----------------------------------------------------------------------------
(* The stream after each event.                                            *)

\* The snapshots of an event give the stream the stacks and bets of the table.
LEMMA SnapshotsTaken ==
  ASSUME NEW t, Underway(t), NEW r, IsStream(r), r.seats = t.deal.seats,
         NEW ev, ev.Hero # NoSeat, ev.Snapshots = Snapshot(t)
  PROVE  LET q == TakeSnapshots(r, ev)
             D == Seated(t.deal)
             Seats == DOMAIN t.deal.seats
         IN /\ IsStream(q) /\ q.hero = r.hero /\ q.seats = r.seats /\ q.cards = r.cards
            /\ q.phase = r.phase /\ q.progress = r.progress /\ q.active = r.active
            /\ q.stats = r.stats
            /\ q.bets = [s \in Seats |-> IF s \in D THEN t.bet[s] ELSE r.bets[s]]
            /\ DOMAIN q.chips = Seats /\ DOMAIN q.statuses = Seats
            /\ \A s \in D : q.chips[s] = t.chip[s] /\ q.statuses[s] = Label(t.status[s])
<1> DEFINE D == Seated(t.deal)
           Seats == DOMAIN t.deal.seats
           q == TakeSnapshots(r, ev)
<1>1. DOMAIN t.status = D /\ D \subseteq Seats
  BY DEF Underway, TableTyped, SeatsTyped, Seated
<1>2. \A s \in D : /\ Snapshot(t)[s].Chip = t.chip[s] /\ Snapshot(t)[s].BetChip = t.bet[s]
                   /\ Snapshot(t)[s].BetStatus = Label(t.status[s])
  BY <1>1 DEF Snapshot, Label
<1>3. DOMAIN Snapshot(t) = D
  BY <1>1 DEF Snapshot
<1>4. q = [r EXCEPT
             !.bets = [s \in Seats |-> IF s \in D THEN Snapshot(t)[s].BetChip ELSE r.bets[s]],
             !.chips = [s \in Seats |-> IF s \in D THEN Snapshot(t)[s].Chip ELSE r.chips[s]],
             !.statuses = [s \in Seats |-> IF s \in D THEN Snapshot(t)[s].BetStatus ELSE r.statuses[s]]]
  BY <1>3 DEF TakeSnapshots
<1> HIDE DEF q, D, Seats
<1>5. /\ IsStream(q) /\ q.hero = r.hero /\ q.seats = r.seats /\ q.cards = r.cards
      /\ q.phase = r.phase /\ q.progress = r.progress /\ q.active = r.active /\ q.stats = r.stats
      /\ q.bets = [s \in Seats |-> IF s \in D THEN Snapshot(t)[s].BetChip ELSE r.bets[s]]
      /\ q.chips = [s \in Seats |-> IF s \in D THEN Snapshot(t)[s].Chip ELSE r.chips[s]]
      /\ q.statuses = [s \in Seats |-> IF s \in D THEN Snapshot(t)[s].BetStatus ELSE r.statuses[s]]
  BY <1>4 DEF IsStream
<1>6. q.bets = [s \in Seats |-> IF s \in D THEN t.bet[s] ELSE r.bets[s]]
  BY <1>2, <1>5
<1>7. \A s \in D : q.chips[s] = t.chip[s] /\ q.statuses[s] = Label(t.status[s])
  BY <1>1, <1>2, <1>5
<1> QED BY <1>5, <1>6, <1>7 DEF q, D, Seats

\* A deal starts the stream afresh at the table dealt.
LEMMA DealKeeps ==
  ASSUME NEW d \in Deals, NEW quirk, NEW r
  PROVE  LET t == [Dealt(d) EXCEPT !.quirk = quirk]
         IN Keeps(t, RealTimeTransform(r, DealEvent(t)))
<1> DEFINE t == [Dealt(d) EXCEPT !.quirk = quirk]
           ev == DealEvent(t)
<1>1. /\ Underway(t) /\ t.actor # NoSeat /\ t.deal = d /\ t.phase = 0
      /\ In(t) = Seated(d) /\ Seated(t.deal) = Seated(d)
  BY DealtInPlay
<1> HIDE DEF t
<1>2. RealTimeTransform(r, ev) = OnDeal(r, ev)
  BY DEF RealTimeTransform, DealEvent
<1>3. /\ ev.SeatUserIds = d.seats /\ ev.Hero = d.hero /\ ev.Snapshots = Snapshot(t)
      /\ ev.Progress = Progress(t, 0, t.actor)
  BY <1>1 DEF DealEvent, PREFLOP
<1>4. /\ ev.Progress.Phase = 0 /\ ev.Progress.NextActionSeat = t.actor
      /\ potSize(ev.Progress) = Total(t.paid)
  BY <1>1, <1>3, InPlayIsChipped, PotSizeIsTotal DEF Progress
<1> HIDE DEF ev
<1> DEFINE none(value) == [s \in DOMAIN d.seats |-> value]
           cleared == [NoTable EXCEPT !.bets = none(0), !.chips = none(0), !.statuses = none("undefined"),
                         !.seats = d.seats, !.hero = d.hero,
                         !.active = Cardinality({s \in DOMAIN d.seats : d.seats[s] # -1}),
                         !.progress = <<ev.Progress>>, !.phase = ev.Progress.Phase]
<1>5. /\ IsStream(cleared) /\ cleared.hero = d.hero /\ cleared.seats = d.seats /\ cleared.cards = <<>>
      /\ cleared.phase = 0 /\ cleared.progress = <<ev.Progress>> /\ cleared.stats = NoStats
      /\ cleared.active = Cardinality(Seated(d)) /\ cleared.bets = none(0)
  BY <1>4 DEF NoTable, IsStream, Seated, NoUser
<1>6. OnDeal(r, ev) = IF d.hero = NoSeat THEN [cleared EXCEPT !.seats = none(-1), !.active = 0]
                      ELSE calculateAndEmitStats(TakeSnapshots(cleared, ev))
  BY <1>3 DEF OnDeal
<1> HIDE DEF cleared
<1>7. CASE d.hero = NoSeat
  <2> DEFINE q == [cleared EXCEPT !.seats = none(-1), !.active = 0]
  <2>1. IsStream(q) /\ q.hero = NoSeat /\ q.stats = NoStats
    BY <1>5, <1>7 DEF IsStream
  <2> HIDE DEF q
  <2>2. Keeps(t, q)
    BY <1>1, <1>7, <2>1 DEF Keeps, Follows
  <2> QED BY <1>2, <1>6, <1>7, <2>2 DEF q, t, ev
<1>8. CASE d.hero # NoSeat
  <2> DEFINE q == TakeSnapshots(cleared, ev)
             D == Seated(d)
             Seats == DOMAIN d.seats
  <2>1. /\ IsStream(q) /\ q.hero = d.hero /\ q.seats = d.seats /\ q.cards = <<>>
        /\ q.phase = 0 /\ q.progress = <<ev.Progress>> /\ q.active = Cardinality(D)
        /\ q.bets = [s \in Seats |-> IF s \in D THEN t.bet[s] ELSE cleared.bets[s]]
        /\ DOMAIN q.chips = Seats /\ DOMAIN q.statuses = Seats
        /\ \A s \in D : q.chips[s] = t.chip[s] /\ q.statuses[s] = Label(t.status[s])
    BY <1>1, <1>3, <1>5, <1>8, SnapshotsTaken
  <2> HIDE DEF q
  <2>2. q.bets = [s \in Seats |-> IF s \in D THEN t.bet[s] ELSE 0]
    BY <1>5, <2>1
  <2>3. D \subseteq Seats
    BY DEF Seated
  <2>4. q.progress[1] = ev.Progress
    BY <2>1
  <2>5. Matches(t, q)
    BY <1>1, <1>4, <2>1, <2>2, <2>3, <2>4 DEF Matches
  <2>6. Board(t.phase) = <<>>
    BY <1>1 DEF Board, PREFLOP
  <2>7. Follows(t, q)
    BY <1>1, <1>8, <2>1, <2>5, <2>6 DEF Follows
  <2>8. Keeps(t, calculateAndEmitStats(q))
    BY <1>1, <1>8, <2>7, EmittedKeeps
  <2> QED BY <1>2, <1>6, <1>8, <2>8 DEF q, t, ev
<1> QED BY <1>7, <1>8

\* The cards of the streets, appended, are the board.
LEMMA BoardGrows ==
  /\ CardsOf(1) = Board(1) /\ Board(1) \o CardsOf(2) = Board(2) /\ Board(2) \o CardsOf(3) = Board(3)
  /\ Len(CardsOf(1)) = 3 /\ Len(CardsOf(2)) = 1 /\ Len(CardsOf(3)) = 1
<1>1. CardsOf(1) = <<1, 2, 3>> /\ CardsOf(2) = <<4>> /\ CardsOf(3) = <<5>>
  BY DEF CardsOf, FLOP, TURN, RIVER
<1>2. \A p \in 1..3 : Board(p) = [c \in 1..2 + p |-> c]
  BY DEF Board, PREFLOP
<1>3. Board(1) = [c \in 1..3 |-> c] /\ Board(2) = [c \in 1..4 |-> c] /\ Board(3) = [c \in 1..5 |-> c]
  BY <1>2
<1>4. Board(1) = <<1, 2, 3>>
  BY <1>3
<1>5. ASSUME NEW n \in Nat
      PROVE  [c \in 1..n |-> c] \o <<n + 1>> = [c \in 1..n + 1 |-> c]
  <2> DEFINE s == [c \in 1..n |-> c]
             z == s \o <<n + 1>>
  <2>1. s \in Seq(Nat) /\ Len(s) = n /\ <<n + 1>> \in Seq(Nat) /\ Len(<<n + 1>>) = 1
    OBVIOUS
  <2>2. \A i \in 1..n : s[i] = i
    OBVIOUS
  <2> HIDE DEF s
  <2>3. z \in Seq(Nat) /\ Len(z) = n + 1
    BY <2>1
  <2>4. ASSUME NEW i \in 1..n + 1 PROVE z[i] = i
    <3>1. CASE i = n + 1
      BY <2>1, <3>1
    <3>2. CASE i # n + 1
      <4>1. i \in 1..n
        BY <3>2
      <4> QED BY <2>1, <2>2, <4>1
    <3> QED BY <3>1, <3>2
  <2> HIDE DEF z
  <2>5. z = [i \in 1..n + 1 |-> z[i]]
    BY <2>3
  <2> QED BY <2>4, <2>5 DEF z, s
<1>6. [c \in 1..3 |-> c] \o <<4>> = [c \in 1..4 |-> c]
  BY <1>5
<1>7. [c \in 1..4 |-> c] \o <<5>> = [c \in 1..5 |-> c]
  BY <1>5
<1> QED BY <1>1, <1>3, <1>4, <1>6, <1>7

\* A new street clears the bets on both sides.
LEMMA StreetKeeps ==
  ASSUME NEW t, Underway(t), t.actor = NoSeat, ~Ended(t), NEW r, Keeps(t, r)
  PROVE  LET u == NextStreet(t)
         IN Keeps(u, RealTimeTransform(r, DealRoundEvent(u)))
<1> DEFINE u == NextStreet(t)
           ev == DealRoundEvent(u)
           D == Seated(t.deal)
           Seats == DOMAIN t.deal.seats
           hero == t.deal.hero
<1>1. /\ Underway(u) /\ u.deal = t.deal /\ u.quirk = t.quirk
      /\ u.phase = t.phase + 1 /\ t.phase \in 0..2
      /\ u.bet = [s \in D |-> 0] /\ u.paid = t.paid /\ u.status = t.status
  BY StreetInPlay
<1> HIDE DEF u
<1>2. /\ IsStream(r) /\ (hero = NoSeat => r.hero = NoSeat /\ r.stats = NoStats)
      /\ hero # NoSeat =>
           /\ r.hero = hero /\ r.seats = t.deal.seats /\ r.cards = Board(t.phase)
           /\ r.phase = t.phase
           /\ Exact(t) => Matches(t, r)
  <2>1. hero # NoSeat => r.phase = t.phase \/ (Ended(t) /\ t.actor = NoSeat)
    BY DEF Keeps, Follows
  <2>2. hero # NoSeat => r.phase = t.phase
    BY <2>1
  <2> QED BY <2>2, Zenon DEF Keeps, Follows
<1>3. /\ ev.CommunityCards = CardsOf(u.phase) /\ ev.Hero = hero /\ ev.Snapshots = Snapshot(u)
      /\ ev.Progress = Progress(u, u.phase, u.actor) /\ RealTimeTransform(r, ev) = OnDealRound(r, ev)
  BY <1>1 DEF DealRoundEvent, RealTimeTransform
<1>4. /\ ev.Progress.Phase = u.phase /\ ev.Progress.NextActionSeat = u.actor
      /\ potSize(ev.Progress) = Total(u.paid)
  BY <1>1, <1>3, InPlayIsChipped, PotSizeIsTotal DEF Progress
<1>5. /\ ev.CommunityCards # <<>>
      /\ Board(u.phase) = IF t.phase # 0 /\ Len(ev.CommunityCards) = 1
                          THEN Board(t.phase) \o ev.CommunityCards ELSE ev.CommunityCards
  <2>1. t.phase = 0 \/ t.phase = 1 \/ t.phase = 2
    BY <1>1
  <2>2. CASE t.phase = 0
    <3>1. ev.CommunityCards = CardsOf(1) /\ u.phase = 1
      BY <1>1, <1>3, <2>2
    <3>2. ev.CommunityCards # <<>>
      BY <3>1 DEF CardsOf, FLOP, TURN, RIVER
    <3> HIDE DEF ev
    <3> QED BY <2>2, <3>1, <3>2, BoardGrows
  <2>3. CASE t.phase = 1
    <3>1. ev.CommunityCards = CardsOf(2) /\ u.phase = 2
      BY <1>1, <1>3, <2>3
    <3>2. ev.CommunityCards # <<>>
      BY <3>1 DEF CardsOf, FLOP, TURN, RIVER
    <3> HIDE DEF ev
    <3> QED BY <2>3, <3>1, <3>2, BoardGrows
  <2>4. CASE t.phase = 2
    <3>1. ev.CommunityCards = CardsOf(3) /\ u.phase = 3
      BY <1>1, <1>3, <2>4
    <3>2. ev.CommunityCards # <<>>
      BY <3>1 DEF CardsOf, FLOP, TURN, RIVER
    <3> HIDE DEF ev
    <3> QED BY <2>4, <3>1, <3>2, BoardGrows
  <2> QED BY <2>1, <2>2, <2>3, <2>4
<1> HIDE DEF ev, D, Seats
<1> DEFINE cleared == [r EXCEPT !.bets = [s \in DOMAIN @ |-> 0], !.statuses = [s \in DOMAIN @ |-> "FOLDED"],
                           !.cards = IF r.phase # 0 /\ Len(ev.CommunityCards) = 1
                                     THEN @ \o ev.CommunityCards ELSE ev.CommunityCards]
           taken == TakeSnapshots(cleared, ev)
           filled == [taken EXCEPT !.progress = <<ev.Progress>>, !.phase = ev.Progress.Phase]
           left == {s \in DOMAIN ev.Snapshots : ev.Snapshots[s].BetStatus \in {"BET_ABLE", "ALL_IN"}}
           q == [filled EXCEPT !.active = IF ev.Hero = NoSeat THEN @ ELSE Cardinality(left)]
<1>6. /\ IsStream(cleared) /\ cleared.hero = r.hero /\ cleared.seats = r.seats
      /\ cleared.phase = r.phase /\ cleared.stats = r.stats
      /\ cleared.bets = [s \in DOMAIN r.bets |-> 0]
      /\ cleared.cards = IF r.phase # 0 /\ Len(ev.CommunityCards) = 1
                         THEN r.cards \o ev.CommunityCards ELSE ev.CommunityCards
  BY <1>2 DEF IsStream
<1> HIDE DEF cleared
<1>7. RealTimeTransform(r, ev) = calculateAndEmitStats(q)
  BY <1>3, <1>5 DEF OnDealRound, cleared
<1>8. ASSUME IsStream(taken)
      PROVE  /\ IsStream(q) /\ q.hero = taken.hero /\ q.seats = taken.seats /\ q.cards = taken.cards
             /\ q.phase = ev.Progress.Phase /\ q.progress = <<ev.Progress>>
             /\ q.bets = taken.bets /\ q.chips = taken.chips /\ q.statuses = taken.statuses
             /\ q.stats = taken.stats
             /\ q.active = IF ev.Hero = NoSeat THEN taken.active ELSE Cardinality(left)
  <2> HIDE DEF left, taken
  <2> QED BY <1>8 DEF IsStream
<1>9. CASE hero = NoSeat
  <2>1. taken = cleared
    BY <1>3, <1>9 DEF TakeSnapshots
  <2> HIDE DEF q, taken
  <2>2. IsStream(q) /\ q.hero = NoSeat /\ q.stats = NoStats
    BY <1>2, <1>6, <1>8, <1>9, <2>1
  <2>3. Follows(u, q)
    BY <1>1, <1>9, <2>2 DEF Follows
  <2> QED BY <1>1, <1>7, <2>2, <2>3, <1>9, EmittedKeeps DEF ev, u
<1>10. CASE hero # NoSeat
  <2>1. /\ IsStream(taken) /\ taken.hero = cleared.hero /\ taken.seats = cleared.seats
        /\ taken.cards = cleared.cards
        /\ taken.bets = [s \in Seats |-> IF s \in D THEN u.bet[s] ELSE cleared.bets[s]]
        /\ DOMAIN taken.chips = Seats /\ DOMAIN taken.statuses = Seats
        /\ \A s \in D : taken.chips[s] = u.chip[s] /\ taken.statuses[s] = Label(u.status[s])
    BY <1>1, <1>2, <1>3, <1>6, <1>10, SnapshotsTaken DEF D, Seats
  <2>2. left = In(u)
    <3>1. DOMAIN u.status = D /\ u.status \in [D -> Statuses]
      BY <1>1 DEF Underway, TableTyped, SeatsTyped, D
    <3>2. \A s \in D : ev.Snapshots[s].BetStatus = Label(u.status[s])
      BY <1>3, <3>1 DEF Snapshot, Label
    <3>3. DOMAIN ev.Snapshots = D
      BY <1>3, <3>1 DEF Snapshot
    <3> QED BY <3>1, <3>2, <3>3 DEF In, Label, Statuses
  <2> HIDE DEF taken, q, left
  <2>3. /\ IsStream(q) /\ q.hero = hero /\ q.seats = u.deal.seats /\ q.phase = u.phase
        /\ q.progress = <<ev.Progress>> /\ q.active = Cardinality(In(u))
        /\ q.chips = taken.chips /\ q.statuses = taken.statuses /\ q.bets = taken.bets
    BY <1>1, <1>2, <1>3, <1>4, <1>6, <1>8, <1>10, <2>1, <2>2
  <2>4. q.cards = Board(u.phase)
    <3>1. r.phase = t.phase /\ r.cards = Board(t.phase)
      BY <1>2, <1>10
    <3> QED BY <1>5, <1>6, <1>8, <2>1, <3>1
  <2>5. ASSUME Exact(u) PROVE Matches(u, q)
    <3>1. Matches(t, r)
      BY <1>1, <1>2, <1>10, <2>5 DEF Exact
    <3>2. DOMAIN r.bets = Seats /\ D \subseteq Seats
      BY <3>1 DEF Matches, Seats, D, Seated
    <3>3. q.bets = [s \in Seats |-> IF s \in D THEN u.bet[s] ELSE 0]
      BY <1>6, <2>1, <2>3, <3>2
    <3>4. q.progress[1] = ev.Progress
      BY <2>3
    <3> QED BY <1>1, <1>4, <2>1, <2>3, <3>2, <3>3, <3>4 DEF Matches, Seats, D
  <2>6. Follows(u, q)
    BY <1>1, <1>10, <2>3, <2>4, <2>5 DEF Follows
  <2> QED BY <1>1, <1>7, <1>10, <2>6, EmittedKeeps DEF ev, u
<1> QED BY <1>9, <1>10

\* A label the stream gives the actor from the event.
LEMMA ActorLabel ==
  ASSUME NEW t, Underway(t), t.actor # NoSeat, NEW type \in ActionTypes, Allowed(t, t.actor, type)
  PROVE  LET s == t.actor
             v == Passed(Played(t, s, type), s)
         IN Label(v.status[s]) = CASE type = "FOLD" -> "FOLDED"
                                   [] type # "FOLD" /\ (type = "ALL_IN" \/ v.chip[s] = 0) -> "ALL_IN"
                                   [] OTHER -> "BET_ABLE"
<1> DEFINE s == t.actor
           c == Cost(t, s, type)
           u == Played(t, s, type)
           v == Passed(u, s)
<1>1. /\ s \in Able(t) /\ s \in Seated(t.deal) /\ c \in Nat /\ c <= t.chip[s]
      /\ (c = t.chip[s]) = (type = "ALL_IN")
  BY CostFacts
<1>2. v.chip = u.chip /\ v.status = u.status
  BY ActInPlay
<1>3. SeatsTyped(t)
  BY DEF Underway, TableTyped
<1>4. IsPlayed(t, s, type, c, u)
  BY <1>1, <1>3, PlayedFields
<1> HIDE DEF c, u
<1>5. /\ t.chip \in [Seated(t.deal) -> Nat] /\ DOMAIN t.status = Seated(t.deal)
      /\ t.status[s] = "able"
  BY <1>1, <1>3 DEF SeatsTyped, Able
<1>6. /\ u.chip[s] = t.chip[s] - c
      /\ u.status[s] = IF type = "FOLD" THEN "folded" ELSE IF t.chip[s] = c THEN "allin" ELSE "able"
  BY <1>1, <1>4, <1>5 DEF IsPlayed
<1> HIDE DEF v, s
<1>7. v.chip[s] = 0 <=> type = "ALL_IN"
  BY <1>1, <1>2, <1>5, <1>6
<1>8. v.status[s] = IF type = "FOLD" THEN "folded" ELSE IF type = "ALL_IN" THEN "allin" ELSE "able"
  BY <1>1, <1>2, <1>6
<1>9. CASE type = "FOLD"
  BY <1>8, <1>9 DEF Label, u, v, s
<1>10. CASE type = "ALL_IN"
  BY <1>8, <1>10 DEF Label, u, v, s
<1>11. CASE type # "FOLD" /\ type # "ALL_IN"
  BY <1>7, <1>8, <1>11 DEF Label, u, v, s
<1> QED BY <1>9, <1>10, <1>11

\* Who folds leaves one opponent fewer, and at least the winner.
LEMMA OneFewer ==
  ASSUME NEW t, Underway(t), t.actor # NoSeat
  PROVE  Cardinality(In(t) \ {t.actor}) = Max({1, Cardinality(In(t)) - 1})
<1> DEFINE n == Cardinality(In(t))
           m == Cardinality(In(t) \ {t.actor})
<1>1. IsFiniteSet(In(t)) /\ t.actor \in In(t) /\ n # 1
  <2>1. IsFiniteSet(In(t))
    BY InPlayIsChipped, FS_Subset DEF Chipped, In
  <2>2. t.actor \in In(t)
    BY DEF Underway, TableTyped, Able, In
  <2> QED BY <2>1, <2>2 DEF Underway, TurnOK, Only
<1>2. n \in Nat /\ n # 0 /\ m = n - 1
  BY <1>1, FS_CardinalityType, FS_EmptySet, FS_RemoveElement
<1> HIDE DEF n, m
<1>3. {1, n - 1} \in SUBSET Nat /\ \A x \in {1, n - 1} : x <= n - 1
  BY <1>1, <1>2
<1> DEFINE a == Max({1, n - 1})
<1>4. a \in {1, n - 1} /\ \A x \in {1, n - 1} : x <= a
  BY <1>1, <1>2, <1>3, MaxIsLargest
<1>5. a = n - 1
  <2> HIDE DEF a
  <2> QED BY <1>1, <1>2, <1>3, <1>4
<1> QED BY <1>2, <1>5 DEF n, m

\* A move on the wire is the move of the table.
LEMMA ActKeeps ==
  ASSUME NEW t, Underway(t), t.actor # NoSeat, NEW type \in ActionTypes, Allowed(t, t.actor, type),
         NEW r, Keeps(t, r)
  PROVE  LET v == Passed(Played(t, t.actor, type), t.actor)
         IN Keeps(v, RealTimeTransform(r, ActionEvent(v, t.actor, type)))
<1> DEFINE s == t.actor
           u == Played(t, s, type)
           v == Passed(u, s)
           ev == ActionEvent(v, s, type)
           D == Seated(t.deal)
           Seats == DOMAIN t.deal.seats
           hero == t.deal.hero
           c == Cost(t, s, type)
<1>1. /\ Underway(v) /\ (Ended(v) => v.actor = NoSeat)
      /\ v.deal = t.deal /\ v.phase = t.phase /\ v.quirk = t.quirk
      /\ v.chip = u.chip /\ v.bet = u.bet /\ v.paid = u.paid /\ v.status = u.status
      /\ In(v) = IF type = "FOLD" THEN In(t) \ {s} ELSE In(t)
  BY ActInPlay DEF SameOther
<1>2. s \in D /\ D \subseteq Seats /\ SeatsTyped(t) /\ NoSeat \notin D
  BY CostFacts, DealFacts DEF Underway, TableTyped, SeatsTyped, Seated
<1>3. IsPlayed(t, s, type, c, u)
  BY <1>2, PlayedFields
<1>4. \A x \in D : x # s => /\ v.chip[x] = t.chip[x] /\ v.bet[x] = t.bet[x]
                            /\ v.status[x] = t.status[x]
  <2> HIDE DEF u, v, c
  <2> QED BY <1>1, <1>2, <1>3 DEF IsPlayed, SeatsTyped
<1>5. Label(v.status[s]) = CASE type = "FOLD" -> "FOLDED"
                             [] type # "FOLD" /\ (type = "ALL_IN" \/ v.chip[s] = 0) -> "ALL_IN"
                             [] OTHER -> "BET_ABLE"
  BY ActorLabel
<1> HIDE DEF u, v, c
<1>6. /\ IsStream(r) /\ (hero = NoSeat => r.hero = NoSeat /\ r.stats = NoStats)
      /\ hero # NoSeat =>
           /\ r.hero = hero /\ r.seats = t.deal.seats /\ r.cards = Board(t.phase)
           /\ Exact(t) => Matches(t, r)
  BY Zenon DEF Keeps, Follows
<1>7. /\ ev.SeatIndex = s /\ ev.ActionType = type /\ ev.Chip = v.chip[s] /\ ev.BetChip = v.bet[s]
      /\ RealTimeTransform(r, ev) = OnAction(r, ev)
  BY DEF ActionEvent, RealTimeTransform
<1>8. /\ potSize(ev.Progress) = Total(v.paid)
      /\ ev.Progress.Phase = IF Ended(v) THEN RIVER ELSE v.phase
      /\ ev.Progress.NextActionSeat = IF Ended(v) THEN HandEnding
                                      ELSE IF v.actor = NoSeat THEN StreetOver ELSE v.actor
  <2>1. Chipped(v)
    BY <1>1, InPlayIsChipped
  <2>2. CASE Ended(v)
    <3>1. ev.Progress = Progress(v, RIVER, HandEnding)
      BY <2>2 DEF ActionEvent
    <3>2. potSize(ev.Progress) = Total(v.paid)
      BY <2>1, <3>1, PotSizeIsTotal
    <3> QED BY <2>2, <3>1, <3>2 DEF Progress
  <2>3. CASE ~Ended(v)
    <3> DEFINE next == IF v.actor = NoSeat THEN StreetOver ELSE v.actor
    <3>1. ev.Progress = Progress(v, v.phase, next)
      BY <2>3 DEF ActionEvent
    <3>2. potSize(ev.Progress) = Total(v.paid)
      BY <2>1, <3>1, PotSizeIsTotal
    <3> HIDE DEF ev
    <3> QED BY <2>3, <3>1, <3>2 DEF Progress
  <2> QED BY <2>2, <2>3
<1>9. \A x \in D : ev.Progress.NextActionSeat = x <=> v.actor = x
  <2>1. \A x \in D : x \in Nat /\ x # NoSeat
    BY <1>2, DealFacts DEF SeatsTyped
  <2> HIDE DEF ev, D
  <2> QED BY <1>1, <1>8, <2>1 DEF HandEnding, StreetOver
<1> HIDE DEF ev
<1> DEFINE status == CASE type = "FOLD" -> "FOLDED"
                       [] type # "FOLD" /\ (type = "ALL_IN" \/ v.chip[s] = 0) -> "ALL_IN"
                       [] OTHER -> "BET_ABLE"
           active == IF type = "FOLD" THEN Max({1, r.active - 1}) ELSE r.active
           q == [r EXCEPT !.progress = <<ev.Progress>>, !.phase = ev.Progress.Phase,
                   !.bets = [x \in DOMAIN r.bets \cup {s} |-> IF x = s THEN v.bet[s] ELSE r.bets[x]],
                   !.chips = [x \in DOMAIN r.chips \cup {s} |-> IF x = s THEN v.chip[s] ELSE r.chips[x]],
                   !.statuses = [x \in DOMAIN r.statuses \cup {s} |->
                                   IF x = s THEN status ELSE r.statuses[x]],
                   !.active = active]
<1>10. OnAction(r, ev) = calculateAndEmitStats(q)
  BY <1>7 DEF OnAction
<1> HIDE DEF status, active
<1>11. /\ IsStream(q) /\ q.hero = r.hero /\ q.seats = r.seats /\ q.cards = r.cards /\ q.stats = r.stats
       /\ q.progress = <<ev.Progress>> /\ q.phase = ev.Progress.Phase /\ q.active = active
       /\ q.bets = [x \in DOMAIN r.bets \cup {s} |-> IF x = s THEN v.bet[s] ELSE r.bets[x]]
       /\ q.chips = [x \in DOMAIN r.chips \cup {s} |-> IF x = s THEN v.chip[s] ELSE r.chips[x]]
       /\ q.statuses = [x \in DOMAIN r.statuses \cup {s} |-> IF x = s THEN status ELSE r.statuses[x]]
  BY <1>6 DEF IsStream
<1> HIDE DEF q, s, D, Seats, hero
<1>12. ASSUME Exact(v), hero # NoSeat PROVE Matches(v, q)
  <2>1. Matches(t, r)
    BY <1>1, <1>6, <1>12 DEF Exact
  <2>2. /\ r.bets = [x \in Seats |-> IF x \in D THEN t.bet[x] ELSE 0]
        /\ D \subseteq DOMAIN r.chips /\ D \subseteq DOMAIN r.statuses
        /\ \A x \in D : r.chips[x] = t.chip[x] /\ r.statuses[x] = Label(t.status[x])
        /\ r.active = Cardinality(In(t))
    BY <2>1 DEF Matches, D, Seats
  <2>3. q.bets = [x \in Seats |-> IF x \in D THEN v.bet[x] ELSE 0]
    <3>1. DOMAIN r.bets \cup {s} = Seats
      BY <1>2, <2>2
    <3> QED BY <1>2, <1>4, <1>11, <2>2, <3>1
  <2>4. D \subseteq DOMAIN q.chips /\ D \subseteq DOMAIN q.statuses
    BY <1>11, <2>2
  <2>5. \A x \in D : q.chips[x] = v.chip[x] /\ q.statuses[x] = Label(v.status[x])
    BY <1>2, <1>4, <1>5, <1>11, <2>2 DEF status
  <2>6. q.active = Cardinality(In(v))
    BY <1>1, <1>11, <2>2, OneFewer DEF active, s
  <2>7. q.progress[1] = ev.Progress
    BY <1>11
  <2> QED BY <1>1, <1>8, <1>9, <2>3, <2>4, <2>5, <2>6, <2>7 DEF Matches, D, Seats
<1>13. Follows(v, q) /\ (v.deal.hero = NoSeat => q.stats = NoStats)
  <2>1. CASE hero = NoSeat
    BY <1>1, <1>6, <1>11, <2>1 DEF Follows, hero
  <2>2. CASE hero # NoSeat
    BY <1>1, <1>6, <1>8, <1>11, <1>12, <2>2 DEF Follows, hero
  <2> QED BY <2>1, <2>2
<1>14. Keeps(v, calculateAndEmitStats(q))
  BY <1>1, <1>13, EmittedKeeps
<1> QED BY <1>7, <1>10, <1>14 DEF ev, v, u, s

\* What is not on the wire leaves the board and the hand shown as they were.
LEMMA SilentKeeps ==
  ASSUME NEW t, NEW u, SameOther(t, u), ~Exact(t), NEW r, Keeps(t, r),
         Ended(t) /\ t.actor = NoSeat => Ended(u) /\ u.actor = NoSeat
  PROVE  Keeps(u, r)
<1>1. u.deal = t.deal /\ u.phase = t.phase /\ ~Exact(u)
  BY DEF SameOther, Exact
<1>2. t.deal.hero # NoSeat => StatsTrue(u, r.stats)
  BY <1>1 DEF Keeps, StatsTrue
<1>3. Follows(u, r)
  BY <1>1 DEF Keeps, Follows
<1> QED BY <1>1, <1>2, <1>3 DEF Keeps

\* The events sent are a sequence, and the stream goes from one to the next.
IsSequence(w) == w \in Seq({w[i] : i \in DOMAIN w})

\* A sequence is one of its own elements.
LEMMA SequenceOf ==
  ASSUME NEW S, NEW w \in Seq(S)
  PROVE  IsSequence(w)
<1> DEFINE R == {w[i] : i \in DOMAIN w}
           n == Len(w)
<1>1. n \in Nat /\ DOMAIN w = 1..n /\ w = [i \in 1..n |-> w[i]]
  OBVIOUS
<1>2. \A i \in 1..n : w[i] \in R
  BY <1>1
<1> HIDE DEF R, n
<1>3. w \in [1..n -> R]
  BY <1>1, <1>2
<1>4. w \in Seq(R)
  BY <1>1, <1>3
<1> QED BY <1>4 DEF IsSequence, R

\* One more event is one more step, whatever was sent before.
LEMMA SentNext ==
  ASSUME NEW w, IsSequence(w), NEW e
  PROVE  /\ IsSequence(Append(w, e)) /\ Len(w) \in Nat
         /\ Streamed(Append(w, e)) = RealTimeTransform(Streamed(w), e)
<1> DEFINE R == {w[i] : i \in DOMAIN w}
           S == R \cup {e}
<1>1. w \in Seq(R)
  BY DEF IsSequence
<1>2. Len(w) \in Nat /\ DOMAIN w = 1..Len(w)
  BY <1>1
<1> HIDE DEF R
<1>3. w \in Seq(S)
  <2>1. w \in [1..Len(w) -> R]
    BY <1>1
  <2>2. w \in [1..Len(w) -> S]
    BY <2>1
  <2> HIDE DEF S
  <2> QED BY <1>2, <2>2
<1>4. e \in S
  OBVIOUS
<1> HIDE DEF S
<1>5. Append(w, e) \in Seq(S)
  BY <1>3, <1>4
<1> QED BY <1>2, <1>3, <1>4, <1>5, SequenceOf, StreamedAppend

\* Once the result of a hand is sent, no odds are shown.
LEMMA ResultHides ==
  ASSUME NEW w, IsSequence(w), NEW e, e.type = "EVT_HAND_RESULTS"
  PROVE  Shown(Append(w, e)) = NoStats
<1>1. Streamed(Append(w, e)) = OnResults(Streamed(w), e)
  BY SentNext DEF RealTimeTransform
<1>2. "stats" \in DOMAIN Streamed(w)
  BY SentNext, StreamedHasStats DEF HasStats
<1>3. OnResults(Streamed(w), e).stats = NoStats
  BY <1>2 DEF OnResults
<1> QED BY <1>1, <1>3 DEF Shown

-----------------------------------------------------------------------------
(* The invariant and the theorem.                                          *)

\* While a hand is played the stream keeps up with the table; afterwards nothing is shown.
OddsInvariant ==
  /\ IsSequence(wire)
  /\ table.done => Shown(wire) = NoStats
  /\ ~table.done => Underway(table) /\ Keeps(table, Streamed(wire))

\* The invariant holds before the first event.
LEMMA OddsInit == TableInit => OddsInvariant
<1> SUFFICES ASSUME TableInit PROVE OddsInvariant
  OBVIOUS
<1>1. PICK d \in Deals, q \in Quirks :
        /\ table = [Dealt(d) EXCEPT !.quirk = q]
        /\ wire = <<EntryQueued(d.battleType, "own"), DealEvent(table)>>
  BY DEF TableInit
<1> DEFINE entry == EntryQueued(d.battleType, "own")
           w == Append(<<>>, entry)
           e == DealEvent(table)
<1>2. Underway(table) /\ ~table.done
  BY <1>1, DealtInPlay
<1>3. Keeps(table, RealTimeTransform(Streamed(w), e))
  BY <1>1, DealKeeps
<1>4. IsSequence(<<>>)
  <2>1. <<>> \in Seq({})
    OBVIOUS
  <2> QED BY <2>1, SequenceOf
<1> HIDE DEF entry, e
<1>5. IsSequence(w)
  BY <1>4, SentNext
<1>6. wire = Append(w, e)
  BY <1>1 DEF entry, e
<1> HIDE DEF w
<1>7. IsSequence(wire) /\ Streamed(wire) = RealTimeTransform(Streamed(w), e)
  BY <1>5, <1>6, SentNext
<1> QED BY <1>2, <1>3, <1>7 DEF OddsInvariant, e

\* Every play of the table keeps the invariant.
LEMMA OddsStep == OddsInvariant /\ [Play]_<<table, wire>> => OddsInvariant'
<1> SUFFICES ASSUME OddsInvariant, [Play]_<<table, wire>> PROVE OddsInvariant'
  OBVIOUS
<1>0. IsSequence(wire)
  BY DEF OddsInvariant
<1>1. ~table.done => Underway(table) /\ Keeps(table, Streamed(wire))
  BY DEF OddsInvariant
<1>2. ASSUME NEW type \in ActionTypes, Act(type) PROVE OddsInvariant'
  <2> DEFINE s == table.actor
             v == Passed(Played(table, s, type), s)
             e == ActionEvent(v, s, type)
  <2>1. /\ ~table.done /\ s # NoSeat /\ Allowed(table, s, type)
        /\ table' = v /\ wire' = Append(wire, e)
    BY <1>2 DEF Act
  <2>2. Underway(table) /\ Keeps(table, Streamed(wire))
    BY <1>1, <2>1
  <2>3. Underway(v) /\ v.done = table.done
    BY <2>1, <2>2, ActInPlay DEF SameOther
  <2>4. Keeps(v, RealTimeTransform(Streamed(wire), e))
    BY <2>1, <2>2, ActKeeps
  <2>5. IsSequence(wire') /\ Streamed(wire') = RealTimeTransform(Streamed(wire), e)
    BY <1>0, <2>1, SentNext
  <2> HIDE DEF v, e
  <2> QED BY <2>1, <2>3, <2>4, <2>5 DEF OddsInvariant
<1>3. CASE TimeOut
  <2> DEFINE s == table.actor
             gone == [table EXCEPT !.status[s] = "folded", !.pending = @ \ {s}, !.silent = TRUE]
             v == Passed(gone, s)
  <2>1. /\ ~table.done /\ s # NoSeat /\ table.quirk = "timeout"
        /\ table' = v /\ wire' = wire
    BY <1>3 DEF TimeOut
  <2>2. Underway(table) /\ Keeps(table, Streamed(wire)) /\ ~Exact(table)
    BY <1>1, <2>1 DEF Exact
  <2>3. Underway(v) /\ SameOther(table, v)
    BY <2>1, <2>2, TimeOutInPlay
  <2> HIDE DEF v
  <2>4. Keeps(v, Streamed(wire)) /\ ~v.done
    BY <2>1, <2>2, <2>3, SilentKeeps DEF SameOther
  <2> QED BY <1>0, <2>1, <2>3, <2>4 DEF OddsInvariant
<1>4. CASE DealRound
  <2> DEFINE v == NextStreet(table)
             e == DealRoundEvent(v)
  <2>1. /\ ~table.done /\ table.actor = NoSeat /\ ~Ended(table)
        /\ table' = v /\ wire' = Append(wire, e)
    BY <1>4, Zenon DEF DealRound
  <2>2. Underway(table) /\ Keeps(table, Streamed(wire))
    BY <1>1, <2>1
  <2>3. Underway(v) /\ v.done = table.done
    BY <2>1, <2>2, StreetInPlay
  <2>4. Keeps(v, RealTimeTransform(Streamed(wire), e))
    BY <2>1, <2>2, StreetKeeps
  <2>5. IsSequence(wire') /\ Streamed(wire') = RealTimeTransform(Streamed(wire), e)
    BY <1>0, <2>1, SentNext
  <2> HIDE DEF v, e
  <2> QED BY <2>1, <2>3, <2>4, <2>5 DEF OddsInvariant
<1>5. CASE TopUp
  <2>1. PICK s \in DOMAIN table.chip : table' = [table EXCEPT !.chip[s] = @ + 1, !.added[s] = 1]
    BY <1>5 DEF TopUp
  <2>2. ~table.done /\ table.quirk = "rebuy" /\ wire' = wire
    BY <1>5 DEF TopUp
  <2> DEFINE v == [table EXCEPT !.chip[s] = @ + 1, !.added[s] = 1]
  <2>3. Underway(table) /\ Keeps(table, Streamed(wire)) /\ ~Exact(table)
    BY <1>1, <2>2 DEF Exact
  <2>4. Underway(v) /\ SameOther(table, v) /\ (Ended(table) => Ended(v))
    BY <2>3, TopUpInPlay
  <2>5. v.actor = table.actor
    BY <2>3 DEF Underway, TableTyped, SeatsTyped, IsTable
  <2> HIDE DEF v
  <2>6. Keeps(v, Streamed(wire)) /\ ~v.done
    BY <2>2, <2>3, <2>4, <2>5, SilentKeeps DEF SameOther
  <2>7. table' = v
    BY <2>1 DEF v
  <2> QED BY <1>0, <2>2, <2>4, <2>6, <2>7 DEF OddsInvariant
<1>6. CASE Finish
  <2>1. ~table.done /\ IsTable(table)
    BY <1>1, <1>6 DEF Finish, Underway, TableTyped, SeatsTyped
  <2>2. \E winners, e : /\ table' = Settled(table, winners) /\ wire' = Append(wire, e)
                        /\ e.type = "EVT_HAND_RESULTS"
    <3>1. PICK opener, winners :
            /\ table' = Settled(table, winners)
            /\ wire' = Append(wire, ResultsEvent(table', winners, opener, table.quirk = "hidden"))
      BY <1>6 DEF Finish
    <3>2. ResultsEvent(table', winners, opener, table.quirk = "hidden").type = "EVT_HAND_RESULTS"
      BY DEF ResultsEvent
    <3> QED BY <3>1, <3>2
  <2>3. table'.done = TRUE
    BY <2>1, <2>2 DEF Settled, IsTable
  <2>4. IsSequence(wire') /\ Shown(wire') = NoStats
    BY <1>0, <2>2, SentNext, ResultHides
  <2> QED BY <2>3, <2>4 DEF OddsInvariant
<1>7. CASE Move
  <2>1. ~table.done /\ IsTable(table) /\ table' = [table EXCEPT !.done = TRUE, !.actor = NoSeat]
    BY <1>1, <1>7 DEF Move, Underway, TableTyped, SeatsTyped
  <2>2. table'.done = TRUE
    BY <2>1 DEF IsTable
  <2>3. \E w, e : IsSequence(w) /\ wire' = Append(w, e) /\ e.type = "EVT_HAND_RESULTS"
    <3>1. PICK s, winner, tail :
             /\ tail \in {<<ForeignAction(s)>>, <<ForeignAction(s), ForeignRound(table)>>,
                          <<ForeignRound(table), ForeignAction(s), ForeignRound(table)>>}
             /\ wire' = wire \o <<EntryQueued(table.deal.battleType, "other")>>
                          \o tail \o <<ForeignResults(table, winner)>>
      BY <1>7 DEF Move
    <3> DEFINE e == ForeignResults(table, winner)
               q == EntryQueued(table.deal.battleType, "other")
               a == ForeignAction(s)
               b == ForeignRound(table)
               S == {wire[i] : i \in DOMAIN wire} \cup {q, a, b, e}
               w == wire \o <<q>> \o tail
    <3>2. e.type = "EVT_HAND_RESULTS"
      BY DEF ForeignResults
    <3> HIDE DEF e, q, a, b
    <3>3. wire \in Seq(S)
      BY <1>0 DEF IsSequence
    <3>4. q \in S /\ a \in S /\ b \in S /\ e \in S
      OBVIOUS
    <3> HIDE DEF S
    <3>5. <<q>> \in Seq(S) /\ tail \in Seq(S)
      <4>1. tail \in {<<a>>, <<a, b>>, <<b, a, b>>}
        BY <3>1 DEF a, b
      <4>2. <<a>> \in Seq(S) /\ <<a, b>> \in Seq(S) /\ <<b, a, b>> \in Seq(S) /\ <<q>> \in Seq(S)
        BY <3>4
      <4> HIDE DEF S, a, b, q
      <4> QED BY <4>1, <4>2, Zenon
    <3>6. w \in Seq(S)
      BY <3>3, <3>5
    <3>7. wire' = w \o <<e>>
      BY <3>1 DEF e, q
    <3> HIDE DEF w
    <3>8. w \o <<e>> = Append(w, e)
      BY <3>4, <3>6
    <3> QED BY <3>2, <3>6, <3>7, <3>8, SequenceOf
  <2>4. IsSequence(wire') /\ Shown(wire') = NoStats
    BY <2>3, SentNext, ResultHides
  <2> QED BY <2>2, <2>4 DEF OddsInvariant
<1>8. CASE UNCHANGED <<table, wire>>
  BY <1>8 DEF OddsInvariant
<1> QED BY <1>2, <1>3, <1>4, <1>5, <1>6, <1>7, <1>8 DEF Play, ActionTypes

\* The invariant gives the odds.
LEMMA OddsFollow == OddsInvariant => OddsAreTrue
<1> SUFFICES ASSUME OddsInvariant PROVE OddsAreTrue
  OBVIOUS
<1>1. CASE table.done \/ table.deal.hero = NoSeat
  <2>1. Shown(wire) = NoStats
    BY <1>1 DEF OddsInvariant, Keeps, Shown
  <2>2. ~NoStats.shown
    BY DEF NoStats
  <2> QED BY <1>1, <2>1, <2>2 DEF OddsAreTrue
<1>2. CASE ~table.done /\ table.deal.hero # NoSeat
  <2>1. StatsTrue(table, Shown(wire))
    BY <1>2 DEF OddsInvariant, Keeps, Shown
  <2> QED BY <1>2, <2>1 DEF OddsAreTrue
<1> QED BY <1>1, <1>2

\* The hand that is recorded is one the table plays: what the live path, the log and a
\* rebuild do with its events leaves the table and the wire alone.
LEMMA RecordPlays == Spec => TableSpec
<1>1. Init => TableInit
  BY DEF Init
<1>2. [Next]_vars => [Play]_<<table, wire>>
  <2> SUFFICES ASSUME [Next]_vars PROVE [Play]_<<table, wire>>
    OBVIOUS
  <2>1. CASE PlayOn
    BY <2>1 DEF PlayOn, Step
  <2>2. CASE Rebuild
    BY <2>2 DEF Rebuild
  <2>3. CASE UNCHANGED vars
    BY <2>3 DEF vars
  <2> QED BY <2>1, <2>2, <2>3 DEF Next
<1> QED BY <1>1, <1>2, PTL DEF Spec, TableSpec

\* While a hand is played the stream has what the table has of every seat, and nothing
\* is shown once it is over, whatever the deal, the stacks and the order of play.
\* (RealTimeStatsStream)
THEOREM StreamFollowsTheTable == Spec => []OddsInvariant
<1>1. OddsInvariant /\ [Play]_<<table, wire>> => OddsInvariant'
  BY OddsStep
<1>2. TableSpec => []OddsInvariant
  BY OddsInit, <1>1, PTL DEF TableSpec
<1> QED BY <1>2, RecordPlays, PTL

\* While the hero's hand is played, whatever the deal, the stacks and the order of play,
\* the odds shown are those of the table.  (RealTimeStatsStream, calculatePlayerPotOdds)
THEOREM OddsHold == Spec => []OddsAreTrue
<1>1. OddsInvariant => OddsAreTrue
  BY OddsFollow
<1> QED BY <1>1, StreamFollowsTheTable, PTL
====
