------------------------------- MODULE Counting -------------------------------
(* Facts about sets of naturals, from the well-foundedness of the naturals,   *)
(* and about cardinalities, that the proofs of several components need.       *)
EXTENDS Integers, FiniteSets, FiniteSetTheorems, WellFoundedInduction, TLAPS

(* Every nonempty set of naturals has a least element.                        *)
LEMMA LeastNatural ==
    ASSUME NEW T \in SUBSET Nat, T # {}
    PROVE  \E m \in T : \A k \in T : m <= k
<1>1. PICK m \in T : \A k \in T : <<k, m>> \notin OpToRel(<, Nat)
  BY WFMin, NatLessThanWellFounded, Zenon
<1>2. \A k \in T : ~(k < m)
  BY <1>1, Zenon DEF OpToRel
<1> QED BY <1>2

(* A set of naturals that has 0 and with a number the next has them all.      *)
LEMMA AllNaturals ==
    ASSUME NEW T \in SUBSET Nat, 0 \in T, \A n \in T : n + 1 \in T
    PROVE  \A n \in Nat : n \in T
<1>1. SUFFICES ASSUME Nat \ T # {} PROVE FALSE
  OBVIOUS
<1>2. PICK m \in Nat \ T : \A k \in Nat \ T : m <= k
  BY <1>1, LeastNatural
<1>3. m - 1 \in T
  BY <1>2
<1> QED BY <1>2, <1>3

(* Every nonempty set of naturals with a bound has a greatest element.        *)
LEMMA GreatestNatural ==
    ASSUME NEW T \in SUBSET Nat, T # {}, NEW b \in Nat, \A k \in T : k <= b
    PROVE  \E m \in T : \A k \in T : k <= m
<1> DEFINE D == {b - k : k \in T}
<1>0. D \in SUBSET Nat /\ D # {}
  <2>1. PICK k \in T : TRUE
    OBVIOUS
  <2>2. b - k \in D
    BY <2>1
  <2>3. \A j \in T : b - j \in Nat
    OBVIOUS
  <2> QED BY <2>2, <2>3
<1>1. PICK d \in D : \A e \in D : d <= e
  BY <1>0, LeastNatural
<1>2. PICK m \in T : d = b - m
  BY <1>1
<1>3. \A k \in T : b - m <= b - k
  BY <1>1, <1>2
<1> QED BY <1>3

(* A finite set of naturals has a bound, and a greatest element.              *)
LEMMA FiniteIsBounded ==
    ASSUME NEW S \in SUBSET Nat, IsFiniteSet(S)
    PROVE  \E b \in Nat : \A k \in S : k <= b
<1> DEFINE Bounded(n) == \A f \in [1..n -> Nat] : \E b \in Nat : \A i \in 1..n : f[i] <= b
           T == {n \in Nat : Bounded(n)}
<1>1. 0 \in T
  BY DEF Bounded
<1>2. ASSUME NEW n \in T PROVE n + 1 \in T
  <2>1. n \in Nat /\ n + 1 \in Nat
    OBVIOUS
  <2>2. ASSUME NEW f \in [1..n + 1 -> Nat] PROVE \E b \in Nat : \A i \in 1..n + 1 : f[i] <= b
    <3> DEFINE g == [i \in 1..n |-> f[i]]
    <3>1. g \in [1..n -> Nat] /\ f[n + 1] \in Nat
      BY <2>1
    <3>2. PICK b \in Nat : \A i \in 1..n : g[i] <= b
      BY <3>1
    <3>3. \A i \in 1..n + 1 : f[i] <= b + f[n + 1]
      <4> TAKE i \in 1..n + 1
      <4>1. CASE i = n + 1
        BY <3>1, <3>2, <4>1
      <4>2. CASE i # n + 1
        <5>1. i \in 1..n
          BY <2>1, <4>2
        <5>2. f[i] <= b /\ f[i] \in Nat
          BY <3>2, <5>1
        <5> QED BY <3>1, <5>2
      <4> QED BY <4>1, <4>2
    <3>4. b + f[n + 1] \in Nat
      BY <3>1
    <3> QED BY <3>3, <3>4
  <2> QED BY <2>1, <2>2
<1> HIDE DEF Bounded
<1>3. \A n \in Nat : n \in T
  BY <1>1, <1>2, AllNaturals
<1>4. PICK n \in Nat : ExistsBijection(1..n, S)
  BY FS_NatBijection
<1>5. PICK f \in Bijection(1..n, S) : TRUE
  BY <1>4 DEF ExistsBijection
<1>6. f \in [1..n -> Nat] /\ \A k \in S : \E i \in 1..n : f[i] = k
  BY <1>5 DEF Bijection, Injection, Surjection
<1>7. Bounded(n)
  BY <1>3
<1> QED BY <1>6, <1>7 DEF Bounded

LEMMA FiniteHasGreatest ==
    ASSUME NEW S \in SUBSET Nat, IsFiniteSet(S), S # {}
    PROVE  \E m \in S : \A k \in S : k <= m
BY FiniteIsBounded, GreatestNatural

(* A function has no more values than arguments.                              *)
LEMMA ImageIsSmaller ==
    ASSUME NEW S, IsFiniteSet(S), NEW f, DOMAIN f = S, f = [x \in S |-> f[x]]
    PROVE  LET T == {f[x] : x \in S} IN IsFiniteSet(T) /\ Cardinality(T) <= Cardinality(S)
<1> DEFINE T == {f[x] : x \in S}
<1>1. f \in Surjection(S, T)
  BY DEF Surjection
<1> HIDE DEF T
<1>2. IsFiniteSet(T) /\ Cardinality(T) <= Cardinality(S)
  BY <1>1, FS_Surjection
<1> QED BY <1>2 DEF T

(* Of two finite sets with a common bound on their sizes.                     *)
LEMMA UnionIsBounded ==
    ASSUME NEW S, IsFiniteSet(S), NEW T, IsFiniteSet(T)
    PROVE  IsFiniteSet(S \cup T) /\ Cardinality(S \cup T) <= Cardinality(S) + Cardinality(T)
<1>1. IsFiniteSet(S \cap T) /\ Cardinality(S \cap T) \in Nat
  BY FS_Intersection, FS_CardinalityType
<1>2. Cardinality(S) \in Nat /\ Cardinality(T) \in Nat
  BY FS_CardinalityType
<1>3. /\ IsFiniteSet(S \cup T)
      /\ Cardinality(S \cup T) = Cardinality(S) + Cardinality(T) - Cardinality(S \cap T)
  BY FS_Union
<1> QED BY <1>1, <1>2, <1>3

(* A part of a finite set has no more elements.                               *)
LEMMA PartIsSmaller ==
    ASSUME NEW S, IsFiniteSet(S), NEW T, T \subseteq S
    PROVE  /\ IsFiniteSet(T) /\ Cardinality(T) \in Nat /\ Cardinality(S) \in Nat
           /\ Cardinality(T) <= Cardinality(S)
BY FS_Subset, FS_CardinalityType

(* A recursive function over 0..L exists: a first value and a step for each n.*)
Walks(f, L, first, step) == f[0] = first /\ \A n \in 1..L : f[n] = step[n][f[n - 1]]

LEMMA StepsExist ==
    ASSUME NEW L \in Nat, NEW G, NEW first, first \in G,
           NEW step, step \in [1..L -> [G -> G]]
    PROVE  \E f \in [0..L -> G] : Walks(f, L, first, step)
<1> DEFINE Walk(f, l) == f[0] = first /\ \A n \in 1..l : f[n] = step[n][f[n - 1]]
           T == {l \in Nat : l <= L => \E f \in [0..l -> G] : Walk(f, l)}
<1>1. 0 \in T
  <2>1. [n \in 0..0 |-> first] \in [0..0 -> G] /\ Walk([n \in 0..0 |-> first], 0)
    OBVIOUS
  <2> QED BY <2>1
<1>2. ASSUME NEW l \in T PROVE l + 1 \in T
  <2>1. SUFFICES ASSUME l + 1 <= L PROVE \E g \in [0..l + 1 -> G] : Walk(g, l + 1)
    OBVIOUS
  <2>2. PICK f \in [0..l -> G] : Walk(f, l)
    BY <1>2, <2>1
  <2>3. l \in Nat /\ l \in 0..l /\ l + 1 \in 1..L
    BY <1>2, <2>1
  <2>4. f[l] \in G /\ step[l + 1] \in [G -> G]
    BY <2>2, <2>3
  <2>5. step[l + 1][f[l]] \in G
    BY <2>4
  <2> DEFINE g == [n \in 0..l + 1 |-> IF n = l + 1 THEN step[l + 1][f[l]] ELSE f[n]]
  <2>6. ASSUME NEW n \in 0..l + 1 PROVE g[n] \in G
    <3>1. CASE n = l + 1
      BY <2>5, <3>1
    <3>2. CASE n # l + 1
      <4>1. n \in 0..l
        BY <2>3, <3>2
      <4> QED BY <2>2, <3>2, <4>1
    <3> QED BY <3>1, <3>2
  <2>7. g \in [0..l + 1 -> G]
    BY <2>6
  <2>8. g[0] = first
    BY <2>2, <2>3
  <2>9. ASSUME NEW n \in 1..l + 1 PROVE g[n] = step[n][g[n - 1]]
    <3>1. n \in Nat /\ n - 1 \in 0..l /\ g[n - 1] = f[n - 1]
      BY <2>3
    <3>2. CASE n = l + 1
      BY <2>3, <3>1, <3>2
    <3>3. CASE n # l + 1
      <4>1. n \in 1..l /\ g[n] = f[n]
        BY <2>3, <3>3
      <4> QED BY <2>2, <3>1, <4>1
    <3> QED BY <3>2, <3>3
  <2> QED BY <2>7, <2>8, <2>9
<1>3. \A l \in Nat : l \in T
  BY <1>1, <1>2, AllNaturals
<1> QED BY <1>3 DEF Walks

(* What the first value has and every step keeps, all values have.            *)
LEMMA StepsKeep ==
    ASSUME NEW L \in Nat, NEW G, NEW f, f[0] \in G,
           \A n \in 1..L : f[n - 1] \in G => f[n] \in G
    PROVE  \A n \in 0..L : f[n] \in G
<1> DEFINE T == {l \in Nat : l <= L => f[l] \in G}
<1>1. 0 \in T
  OBVIOUS
<1>2. ASSUME NEW l \in T PROVE l + 1 \in T
  <2>1. SUFFICES ASSUME l + 1 <= L PROVE f[l + 1] \in G
    OBVIOUS
  <2>2. l + 1 \in 1..L /\ l + 1 - 1 = l /\ f[l] \in G
    BY <1>2, <2>1
  <2> QED BY <2>2
<1>3. \A l \in Nat : l \in T
  BY <1>1, <1>2, AllNaturals
<1> QED BY <1>3
=============================================================================
