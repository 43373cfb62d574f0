---------------------------- MODULE BenchmarkProofs ----------------------------
(***************************************************************************)
(* Proofs about Benchmark, for any file system, any number of links that   *)
(* may be followed and any nodes that other programs remove.               *)
(***************************************************************************)
EXTENDS Benchmark, SequenceTheorems, FiniteSetTheorems, WellFoundedInduction, TLAPS

Path == Seq(Nat)

-----------------------------------------------------------------------------
(***************************************************************************)
(* Paths and their order.                                                  *)
(***************************************************************************)
LEMMA LeastNumber ==
  ASSUME NEW S, S \subseteq Nat, S # {}
  PROVE  \E n \in S : \A m \in S : n <= m
<1> DEFINE Less == {ss \in Nat \X Nat : ss[1] < ss[2]}
<1>1. IsWellFoundedOn(Less, Nat)
  BY NatLessThanWellFounded DEF OpToRel
<1>2. PICK n \in S : \A m \in S : ~(<<m, n>> \in Less)
  <2> HIDE DEF Less
  <2> QED
    BY <1>1, WFMin
<1>3. ASSUME NEW m \in S PROVE n <= m
  <2>1. n \in Nat /\ m \in Nat
    OBVIOUS
  <2>2. m < n => <<m, n>> \in Less
    BY <2>1
  <2> HIDE DEF Less
  <2> QED
    BY <1>2, <2>1, <2>2
<1> QED
  BY <1>3

LEMMA SamePath ==
  ASSUME NEW p \in Path, NEW q \in Path, Len(p) = Len(q), \A k \in 1 .. Len(p) : p[k] = q[k]
  PROVE  p = q
BY SeqEqual DEF Path

LEMMA PathFront ==
  ASSUME NEW p \in Path, NEW n \in 0 .. Len(p)
  PROVE  /\ SubSeq(p, 1, n) \in Path /\ Len(SubSeq(p, 1, n)) = n
         /\ \A k \in 1 .. n : SubSeq(p, 1, n)[k] = p[k]
<1> DEFINE front == SubSeq(p, 1, n)
<1>1. Len(p) \in Nat /\ n \in Nat /\ n <= Len(p) /\ \A k \in 1 .. Len(p) : p[k] \in Nat
  BY LenProperties, ElementOfSeq DEF Path
<1>2. \A k \in 1 .. n : p[k] \in Nat
  BY <1>1
<1>3. /\ front \in Seq(Nat) /\ Len(front) = IF 1 <= n THEN n - 1 + 1 ELSE 0
      /\ \A k \in 1 .. n - 1 + 1 : front[k] = p[1 + k - 1]
  BY <1>1, <1>2, SubSeqProperties
<1> HIDE DEF front
<1>4. \A k \in 1 .. n : front[k] = p[k]
  BY <1>1, <1>3
<1> QED
  BY <1>1, <1>3, <1>4 DEF front, Path

\* A prefix, name by name.
LEMMA PrefixByName ==
  ASSUME NEW p \in Path, NEW q \in Path
  PROVE  IsPrefix(p, q) <=> Len(p) <= Len(q) /\ \A k \in 1 .. Len(p) : p[k] = q[k]
<1>1. Len(p) \in Nat /\ Len(q) \in Nat
  BY LenProperties DEF Path
<1>2. SubSeq(p, 1, Len(p)) = p
  BY SubSeqFull DEF Path
<1>3. ASSUME Len(p) <= Len(q)
      PROVE  /\ SubSeq(q, 1, Len(p)) \in Path /\ Len(SubSeq(q, 1, Len(p))) = Len(p)
             /\ \A k \in 1 .. Len(p) : SubSeq(q, 1, Len(p))[k] = q[k]
  BY <1>1, <1>3, PathFront
<1>4. ASSUME Len(p) <= Len(q), \A k \in 1 .. Len(p) : p[k] = q[k]
      PROVE  p = SubSeq(q, 1, Len(p))
  BY <1>3, <1>4, SeqEqual DEF Path
<1> QED
  BY <1>2, <1>3, <1>4 DEF IsPrefix

LEMMA AppendedName ==
  ASSUME NEW p \in Path, NEW x \in Nat
  PROVE  /\ Append(p, x) \in Path /\ Len(Append(p, x)) = Len(p) + 1 /\ Len(p) \in Nat
         /\ \A k \in 1 .. Len(p) : Append(p, x)[k] = p[k]
         /\ Append(p, x)[Len(p) + 1] = x
BY AppendProperties, LenProperties DEF Path

\* q stands behind p because of its name k.
BehindBy(p, q, k) ==
  /\ k \in 1 .. Len(q) /\ k <= Len(p) + 1
  /\ \A m \in 1 .. k - 1 : p[m] = q[m]
  /\ k <= Len(p) => p[k] < q[k]

LEMMA PrecedesByName ==
  ASSUME NEW p \in Path, NEW q \in Path
  PROVE  Precedes(p, q) <=> \E k \in Nat : BehindBy(p, q, k)
<1>1. /\ Len(p) \in Nat /\ Len(q) \in Nat /\ DOMAIN p = 1 .. Len(p) /\ DOMAIN q = 1 .. Len(q)
      /\ \A k \in 1 .. Len(p) : p[k] \in Nat
      /\ \A k \in 1 .. Len(q) : q[k] \in Nat
  BY LenProperties, ElementOfSeq DEF Path
<1>2. ASSUME IsStrictPrefix(p, q) PROVE BehindBy(p, q, Len(p) + 1)
  <2>1. Len(p) <= Len(q) /\ \A k \in 1 .. Len(p) : p[k] = q[k]
    BY <1>2, PrefixByName DEF IsStrictPrefix
  <2>2. Len(p) # Len(q)
    <3> SUFFICES ASSUME Len(p) = Len(q) PROVE p = q
      BY <1>2 DEF IsStrictPrefix
    <3> QED
      BY <2>1, SamePath
  <2>3. Len(p) \in Nat /\ Len(q) \in Nat /\ Len(p) <= Len(q)
    BY <1>1, <2>1
  <2>4. \A m, n \in Nat : m <= n /\ m # n => m + 1 \in 1 .. n /\ (m + 1) - 1 = m /\ ~(m + 1 <= m)
    OBVIOUS
  <2>5. Len(p) + 1 \in 1 .. Len(q) /\ (Len(p) + 1) - 1 = Len(p) /\ ~(Len(p) + 1 <= Len(p))
    BY <2>2, <2>3, <2>4
  <2> QED
    BY <2>1, <2>5 DEF BehindBy
<1>3. ASSUME NEW k \in 1 .. Len(p), k \in 1 .. Len(q)
      PROVE  SubSeq(p, 1, k - 1) = SubSeq(q, 1, k - 1) <=> \A m \in 1 .. k - 1 : p[m] = q[m]
  <2>1. k - 1 \in 0 .. Len(p) /\ k - 1 \in 0 .. Len(q)
    BY <1>1, <1>3
  <2> DEFINE n == k - 1
  <2>2. n \in 0 .. Len(p) /\ n \in 0 .. Len(q)
    BY <2>1
  <2> HIDE DEF n
  <2>3. /\ SubSeq(p, 1, n) \in Path /\ Len(SubSeq(p, 1, n)) = n
        /\ SubSeq(q, 1, n) \in Path /\ Len(SubSeq(q, 1, n)) = n
        /\ \A m \in 1 .. n : SubSeq(p, 1, n)[m] = p[m] /\ SubSeq(q, 1, n)[m] = q[m]
    BY <2>2, PathFront
  <2>4. (\A m \in 1 .. n : p[m] = q[m]) => SubSeq(p, 1, n) = SubSeq(q, 1, n)
    BY <2>3, SeqEqual DEF Path
  <2>5. SubSeq(p, 1, n) = SubSeq(q, 1, n) => \A m \in 1 .. n : p[m] = q[m]
    BY <2>3
  <2> QED
    BY <2>4, <2>5 DEF n
<1>4. ASSUME NEW k \in DOMAIN p \cap DOMAIN q,
             SubSeq(p, 1, k - 1) = SubSeq(q, 1, k - 1), p[k] < q[k]
      PROVE  k \in Nat /\ BehindBy(p, q, k)
  BY <1>1, <1>3, <1>4 DEF BehindBy
<1>5. ASSUME NEW k \in Nat, BehindBy(p, q, k) PROVE Precedes(p, q)
  <2>1. CASE k <= Len(p)
    <3>1. k \in 1 .. Len(p) /\ k \in 1 .. Len(q) /\ p[k] < q[k]
      BY <1>1, <1>5, <2>1 DEF BehindBy
    <3>2. SubSeq(p, 1, k - 1) = SubSeq(q, 1, k - 1)
      BY <1>3, <1>5, <3>1 DEF BehindBy
    <3> QED
      BY <1>1, <3>1, <3>2 DEF Precedes
  <2>2. CASE ~(k <= Len(p))
    <3>1. k = Len(p) + 1 /\ Len(p) < Len(q)
      BY <1>1, <1>5, <2>2 DEF BehindBy
    <3>2. \A m \in 1 .. Len(p) : p[m] = q[m]
      BY <1>1, <1>5, <3>1 DEF BehindBy
    <3>3. IsPrefix(p, q) /\ p # q
      BY <1>1, <3>1, <3>2, PrefixByName
    <3> QED
      BY <3>3 DEF Precedes, IsStrictPrefix
  <2> QED
    BY <2>1, <2>2
<1>6. Len(p) + 1 \in Nat
  BY <1>1
<1> QED
  BY <1>2, <1>4, <1>5, <1>6 DEF Precedes

\* The order is strict and total.
LEMMA PrecedesIrreflexive ==
  ASSUME NEW p \in Path
  PROVE  ~Precedes(p, p)
<1>1. Len(p) \in Nat /\ \A k \in 1 .. Len(p) : p[k] \in Nat
  BY LenProperties, ElementOfSeq DEF Path
<1> QED
  BY <1>1, PrecedesByName DEF BehindBy

LEMMA PrecedesTransitive ==
  ASSUME NEW p \in Path, NEW q \in Path, NEW r \in Path, Precedes(p, q), Precedes(q, r)
  PROVE  Precedes(p, r)
<1>1. /\ Len(p) \in Nat /\ Len(q) \in Nat /\ Len(r) \in Nat
      /\ \A k \in 1 .. Len(p) : p[k] \in Nat
      /\ \A k \in 1 .. Len(q) : q[k] \in Nat
      /\ \A k \in 1 .. Len(r) : r[k] \in Nat
  BY LenProperties, ElementOfSeq DEF Path
<1>2. PICK k \in Nat : BehindBy(p, q, k)
  BY PrecedesByName
<1>3. PICK m \in Nat : BehindBy(q, r, m)
  BY PrecedesByName
<1>4. CASE k < m
  <2>1. k \in 1 .. Len(r) /\ k <= Len(p) + 1 /\ k \in 1 .. m - 1
    BY <1>1, <1>2, <1>3, <1>4 DEF BehindBy
  <2>2. \A n \in 1 .. k - 1 : p[n] = r[n]
    <3> TAKE n \in 1 .. k - 1
    <3>1. n \in 1 .. m - 1
      BY <1>4
    <3> QED
      BY <1>2, <1>3, <3>1 DEF BehindBy
  <2>3. k <= Len(p) => p[k] < r[k]
    BY <1>2, <1>3, <2>1 DEF BehindBy
  <2> QED
    BY <2>1, <2>2, <2>3, PrecedesByName DEF BehindBy
<1>5. CASE k = m
  <2>1. k \in 1 .. Len(r) /\ k <= Len(p) + 1 /\ k \in 1 .. Len(q)
    BY <1>1, <1>2, <1>3, <1>5 DEF BehindBy
  <2>2. \A n \in 1 .. k - 1 : p[n] = r[n]
    BY <1>2, <1>3, <1>5 DEF BehindBy
  <2>3. k <= Len(p) => p[k] < r[k]
    <3> HAVE k <= Len(p)
    <3>1. p[k] < q[k] /\ q[k] < r[k]
      BY <1>2, <1>3, <1>5, <2>1 DEF BehindBy
    <3>2. p[k] \in Nat /\ q[k] \in Nat /\ r[k] \in Nat
      BY <1>1, <2>1
    <3> QED
      BY <3>1, <3>2
  <2> QED
    BY <2>1, <2>2, <2>3, PrecedesByName DEF BehindBy
<1>6. CASE m < k
  <2>1. m \in 1 .. Len(r) /\ m <= Len(p) /\ m \in 1 .. k - 1 /\ m <= Len(q)
    BY <1>1, <1>2, <1>3, <1>6 DEF BehindBy
  <2>2. \A n \in 1 .. m - 1 : p[n] = r[n]
    <3> TAKE n \in 1 .. m - 1
    <3>1. n \in 1 .. k - 1
      BY <1>6
    <3> QED
      BY <1>2, <1>3, <3>1 DEF BehindBy
  <2>3. p[m] < r[m] /\ m <= Len(p) + 1
    BY <1>1, <1>2, <1>3, <2>1 DEF BehindBy
  <2> QED
    BY <2>1, <2>2, <2>3, PrecedesByName DEF BehindBy
<1> QED
  BY <1>4, <1>5, <1>6

LEMMA PrecedesTotal ==
  ASSUME NEW p \in Path, NEW q \in Path, p # q
  PROVE  Precedes(p, q) \/ Precedes(q, p)
<1> DEFINE differ == {k \in Nat : k \in 1 .. Len(p) /\ k \in 1 .. Len(q) /\ p[k] # q[k]}
<1>1. /\ Len(p) \in Nat /\ Len(q) \in Nat
      /\ \A k \in 1 .. Len(p) : p[k] \in Nat
      /\ \A k \in 1 .. Len(q) : q[k] \in Nat
  BY LenProperties, ElementOfSeq DEF Path
<1>2. CASE differ = {}
  <2>1. \A k \in 1 .. Len(p) : k \in 1 .. Len(q) => p[k] = q[k]
    BY <1>1, <1>2
  <2>2. CASE Len(p) <= Len(q)
    <3>1. IsPrefix(p, q)
      BY <1>1, <2>1, <2>2, PrefixByName
    <3> QED
      BY <3>1 DEF Precedes, IsStrictPrefix
  <2>3. CASE Len(q) <= Len(p)
    <3>1. IsPrefix(q, p)
      BY <1>1, <2>1, <2>3, PrefixByName
    <3> QED
      BY <3>1 DEF Precedes, IsStrictPrefix
  <2> QED
    BY <1>1, <2>2, <2>3
<1>3. CASE differ # {}
  <2>1. PICK k \in differ : \A m \in differ : k <= m
    <3>1. differ \subseteq Nat
      OBVIOUS
    <3> HIDE DEF differ
    <3> QED
      BY <1>3, <3>1, LeastNumber
  <2>2. k \in Nat /\ k \in 1 .. Len(p) /\ k \in 1 .. Len(q) /\ p[k] # q[k]
    OBVIOUS
  <2>3. \A m \in 1 .. k - 1 : p[m] = q[m]
    <3> SUFFICES ASSUME NEW m \in 1 .. k - 1, p[m] # q[m] PROVE FALSE
      OBVIOUS
    <3>1. m \in differ
      BY <1>1, <2>2
    <3> HIDE DEF differ
    <3> QED
      BY <2>1, <2>2, <3>1
  <2>4. p[k] < q[k] \/ q[k] < p[k]
    BY <1>1, <2>2
  <2>5. BehindBy(p, q, k) \/ BehindBy(q, p, k)
    BY <1>1, <2>2, <2>3, <2>4 DEF BehindBy
  <2> QED
    BY <2>2, <2>5, PrecedesByName
<1> QED
  BY <1>2, <1>3
-----------------------------------------------------------------------------
(***************************************************************************)
(* Sorting: every path gets the rank that its predecessors leave it.       *)
(***************************************************************************)
\* Which of s's paths std::sort puts in front of path k.
InFront(s, k) == {m \in DOMAIN s : Precedes(s[m], s[k]) \/ (s[m] = s[k] /\ m < k)}

Sorted(s) == [i \in DOMAIN s |-> s[CHOOSE k \in DOMAIN s : Cardinality(InFront(s, k)) = i - 1]]

LEMMA PathsAre ==
  ASSUME NEW s \in Seq(Path)
  PROVE  /\ Len(s) \in Nat /\ DOMAIN s = 1 .. Len(s)
         /\ \A k \in DOMAIN s : s[k] \in Path /\ k \in Nat
BY LenProperties, ElementOfSeq

LEMMA InFrontFinite ==
  ASSUME NEW s \in Seq(Path), NEW k \in DOMAIN s
  PROVE  /\ IsFiniteSet(InFront(s, k)) /\ Cardinality(InFront(s, k)) \in 0 .. Len(s) - 1
         /\ k \notin InFront(s, k)
<1>1. Len(s) \in Nat /\ DOMAIN s = 1 .. Len(s) /\ s[k] \in Path /\ k \in Nat
  BY PathsAre
<1>2. IsFiniteSet(1 .. Len(s)) /\ Cardinality(1 .. Len(s)) = Len(s)
  <2> DEFINE n == Len(s)
  <2>1. n \in Nat /\ n \in Int /\ 1 \in Int
    BY <1>1
  <2> HIDE DEF n
  <2>2. IsFiniteSet(1 .. n) /\ Cardinality(1 .. n) = IF 1 > n THEN 0 ELSE n - 1 + 1
    BY <2>1, FS_Interval
  <2>3. (IF 1 > n THEN 0 ELSE n - 1 + 1) = n
    BY <2>1
  <2> QED
    BY <2>2, <2>3 DEF n
<1>3. k \notin InFront(s, k)
  BY <1>1, PrecedesIrreflexive DEF InFront
<1>4. InFront(s, k) \subseteq (1 .. Len(s)) \ {k}
  BY <1>1, <1>3 DEF InFront
<1>5. IsFiniteSet((1 .. Len(s)) \ {k}) /\ Cardinality((1 .. Len(s)) \ {k}) = Len(s) - 1
  <2>1. k \in 1 .. Len(s)
    BY <1>1
  <2> QED
    BY <1>2, <2>1, FS_RemoveElement
<1>6. /\ IsFiniteSet(InFront(s, k))
      /\ Cardinality(InFront(s, k)) <= Cardinality((1 .. Len(s)) \ {k})
  BY <1>4, <1>5, FS_Subset
<1>7. Cardinality(InFront(s, k)) \in Nat
  BY <1>6, FS_CardinalityType
<1> QED
  BY <1>1, <1>3, <1>5, <1>6, <1>7

\* What is in front of a path in front is in front.
LEMMA InFrontGrows ==
  ASSUME NEW s \in Seq(Path), NEW k \in DOMAIN s, NEW m \in InFront(s, k)
  PROVE  Cardinality(InFront(s, m)) < Cardinality(InFront(s, k))
<1>1. m \in DOMAIN s /\ (Precedes(s[m], s[k]) \/ (s[m] = s[k] /\ m < k))
  BY DEF InFront
<1>2. \A n \in DOMAIN s : s[n] \in Path /\ n \in Nat
  BY PathsAre
<1>3. ASSUME NEW n \in InFront(s, m) PROVE n \in InFront(s, k)
  <2>1. n \in DOMAIN s /\ (Precedes(s[n], s[m]) \/ (s[n] = s[m] /\ n < m))
    BY <1>3 DEF InFront
  <2>2. CASE Precedes(s[n], s[m]) /\ Precedes(s[m], s[k])
    <3>1. Precedes(s[n], s[k])
      BY <1>1, <1>2, <2>1, <2>2, PrecedesTransitive
    <3> QED
      BY <2>1, <3>1 DEF InFront
  <2>3. CASE s[n] = s[m] /\ n < m
    <3>1. n \in Nat /\ m \in Nat /\ k \in Nat
      BY <1>1, <1>2, <2>1
    <3>2. Precedes(s[n], s[k]) \/ (s[n] = s[k] /\ n < k)
      BY <1>1, <2>3, <3>1
    <3> QED
      BY <2>1, <3>2 DEF InFront
  <2>4. CASE Precedes(s[n], s[m]) /\ s[m] = s[k]
    BY <2>1, <2>4 DEF InFront
  <2> QED
    BY <1>1, <2>1, <2>2, <2>3, <2>4
<1>4. m \notin InFront(s, m) /\ IsFiniteSet(InFront(s, k)) /\ Cardinality(InFront(s, k)) \in Nat
      /\ Cardinality(InFront(s, m)) \in Nat
  BY <1>1, InFrontFinite
<1>5. /\ Cardinality(InFront(s, m)) <= Cardinality(InFront(s, k))
      /\ Cardinality(InFront(s, m)) = Cardinality(InFront(s, k)) => InFront(s, m) = InFront(s, k)
  BY <1>3, <1>4, FS_Subset
<1> QED
  BY <1>4, <1>5

LEMMA InFrontTotal ==
  ASSUME NEW s \in Seq(Path), NEW k \in DOMAIN s, NEW m \in DOMAIN s, k # m
  PROVE  k \in InFront(s, m) \/ m \in InFront(s, k)
<1>1. s[k] \in Path /\ s[m] \in Path /\ k \in Nat /\ m \in Nat
  BY PathsAre
<1>2. CASE s[k] = s[m]
  BY <1>1, <1>2 DEF InFront
<1>3. CASE s[k] # s[m]
  BY <1>1, <1>3, PrecedesTotal DEF InFront
<1> QED
  BY <1>2, <1>3

\* Each rank is one path's.
LEMMA RankIsOnes ==
  ASSUME NEW s \in Seq(Path)
  PROVE  /\ \A k \in DOMAIN s : Cardinality(InFront(s, k)) + 1 \in DOMAIN s
         /\ \A k, m \in DOMAIN s : Cardinality(InFront(s, k)) = Cardinality(InFront(s, m)) => k = m
         /\ \A i \in DOMAIN s : \E k \in DOMAIN s : Cardinality(InFront(s, k)) = i - 1
<1> DEFINE rank == [k \in 1 .. Len(s) |-> Cardinality(InFront(s, k)) + 1]
<1>1. Len(s) \in Nat /\ DOMAIN s = 1 .. Len(s)
  BY PathsAre
<1>2. \A k \in DOMAIN s : Cardinality(InFront(s, k)) \in 0 .. Len(s) - 1
  BY InFrontFinite
<1>3. \A k \in DOMAIN s : Cardinality(InFront(s, k)) + 1 \in DOMAIN s
  BY <1>1, <1>2
<1>4. ASSUME NEW k \in DOMAIN s, NEW m \in DOMAIN s,
             Cardinality(InFront(s, k)) = Cardinality(InFront(s, m))
      PROVE  k = m
  <2> SUFFICES ASSUME k # m PROVE FALSE
    OBVIOUS
  <2>1. \/ Cardinality(InFront(s, k)) < Cardinality(InFront(s, m))
        \/ Cardinality(InFront(s, m)) < Cardinality(InFront(s, k))
    BY InFrontTotal, InFrontGrows
  <2>2. Cardinality(InFront(s, k)) \in Nat
    BY <1>2
  <2> QED
    BY <1>4, <2>1, <2>2
<1>5. rank \in [1 .. Len(s) -> 1 .. Len(s)]
  BY <1>1, <1>3
<1>6. ASSUME NEW k \in 1 .. Len(s), NEW m \in 1 .. Len(s), rank[k] = rank[m] PROVE k = m
  <2>1. Cardinality(InFront(s, k)) + 1 = Cardinality(InFront(s, m)) + 1
    BY <1>6
  <2>2. Cardinality(InFront(s, k)) \in Nat /\ Cardinality(InFront(s, m)) \in Nat
    BY <1>1, <1>2
  <2> QED
    BY <1>1, <1>4, <2>1, <2>2
<1>7. rank \in Injection(1 .. Len(s), 1 .. Len(s))
  <2> HIDE DEF rank
  <2> QED
    BY <1>5, <1>6, Zenon DEF Injection, IsInjective
<1>8. IsFiniteSet(1 .. Len(s)) /\ rank \in Surjection(1 .. Len(s), 1 .. Len(s))
  <2>1. IsFiniteSet(1 .. Len(s))
    BY <1>1, FS_Interval
  <2> HIDE DEF rank
  <2> QED
    BY <1>7, <2>1, FS_Injection
<1>9. \A i \in 1 .. Len(s) : \E k \in 1 .. Len(s) : rank[k] = i
  <2> HIDE DEF rank
  <2> QED
    BY <1>8 DEF Surjection
<1>10. ASSUME NEW i \in DOMAIN s PROVE \E k \in DOMAIN s : Cardinality(InFront(s, k)) = i - 1
  <2>1. PICK k \in 1 .. Len(s) : rank[k] = i
    BY <1>1, <1>9
  <2>2. Cardinality(InFront(s, k)) + 1 = i /\ Cardinality(InFront(s, k)) \in Nat
    BY <1>1, <1>2, <2>1
  <2> QED
    BY <1>1, <2>2
<1> QED
  BY <1>3, <1>4, <1>10

\* Different paths come out in their order, and each of them does.
LEMMA SortedFacts ==
  ASSUME NEW s \in Seq(Path), \A i, j \in DOMAIN s : s[i] = s[j] => i = j
  PROVE  /\ Sorted(s) \in Seq(Path) /\ DOMAIN Sorted(s) = DOMAIN s
         /\ \A i, j \in DOMAIN s : i < j => Precedes(Sorted(s)[i], Sorted(s)[j])
         /\ Range(Sorted(s)) = Range(s)
<1> DEFINE at(i) == CHOOSE k \in DOMAIN s : Cardinality(InFront(s, k)) = i - 1
<1>1. Len(s) \in Nat /\ DOMAIN s = 1 .. Len(s) /\ \A k \in DOMAIN s : s[k] \in Path /\ k \in Nat
  BY PathsAre
<1>2. ASSUME NEW i \in DOMAIN s PROVE at(i) \in DOMAIN s /\ Cardinality(InFront(s, at(i))) = i - 1
  BY RankIsOnes
<1>3. ASSUME NEW k \in DOMAIN s
      PROVE  Cardinality(InFront(s, k)) + 1 \in DOMAIN s /\ at(Cardinality(InFront(s, k)) + 1) = k
  <2> DEFINE i == Cardinality(InFront(s, k)) + 1
  <2>1. i \in DOMAIN s /\ Cardinality(InFront(s, k)) \in Nat
    BY RankIsOnes, InFrontFinite
  <2>2. Cardinality(InFront(s, k)) = i - 1
    BY <2>1
  <2>3. at(i) \in DOMAIN s /\ Cardinality(InFront(s, at(i))) = i - 1
    BY <1>2, <2>1
  <2> HIDE DEF i, at
  <2>4. at(i) = k
    BY <2>2, <2>3, RankIsOnes
  <2> QED
    BY <2>1, <2>4 DEF i
<1>4. Sorted(s) = [i \in DOMAIN s |-> s[at(i)]]
  BY DEF Sorted
<1> HIDE DEF at
<1>5. \A i \in DOMAIN s : s[at(i)] \in Path
  BY <1>1, <1>2
<1>6. Sorted(s) \in [1 .. Len(s) -> Path]
  BY <1>1, <1>4, <1>5
<1>7. Sorted(s) \in Seq(Path)
  BY <1>1, <1>6, SeqDef
<1>8. ASSUME NEW i \in DOMAIN s, NEW j \in DOMAIN s, i < j PROVE Precedes(Sorted(s)[i], Sorted(s)[j])
  <2>1. /\ at(i) \in DOMAIN s /\ Cardinality(InFront(s, at(i))) = i - 1
        /\ at(j) \in DOMAIN s /\ Cardinality(InFront(s, at(j))) = j - 1
    BY <1>2
  <2>2. i - 1 < j - 1 /\ ~(j - 1 < i - 1) /\ i - 1 # j - 1
    BY <1>1, <1>8
  <2>3. at(i) # at(j)
    BY <2>1, <2>2
  <2>4. at(j) \notin InFront(s, at(i))
    BY <2>1, <2>2, InFrontGrows
  <2>5. at(i) \in InFront(s, at(j))
    BY <2>1, <2>3, <2>4, InFrontTotal
  <2>6. Precedes(s[at(i)], s[at(j)])
    BY <2>1, <2>3, <2>5 DEF InFront
  <2> QED
    BY <1>4, <2>6
<1>9. Range(Sorted(s)) = Range(s)
  <2>1. ASSUME NEW x \in Range(Sorted(s)) PROVE x \in Range(s)
    BY <1>2, <1>4, <2>1 DEF Range
  <2>2. ASSUME NEW x \in Range(s) PROVE x \in Range(Sorted(s))
    <3>1. PICK k \in DOMAIN s : x = s[k]
      BY <2>2 DEF Range
    <3>2. Sorted(s)[Cardinality(InFront(s, k)) + 1] = x
      BY <1>3, <1>4, <3>1
    <3> QED
      BY <1>3, <1>4, <3>2 DEF Range
  <2> QED
    BY <2>1, <2>2
<1> QED
  BY <1>4, <1>7, <1>8, <1>9
-----------------------------------------------------------------------------
(***************************************************************************)
(* Where a path leads, in any file system and whatever is still there.     *)
(***************************************************************************)
FollowIn(fs, there, places, name) ==
  LET Reached(place) ==
        {[node |-> entry.node, links |-> place.links + (IF entry.link THEN 1 ELSE 0)]
         : entry \in {e \in fs.entries[place.node] : e.name = name}}
  IN  {place \in UNION {Reached(from) : from \in places} :
         place.node \in there /\ place.links <= MaxLinks}

StartIn(there) == {[node |-> node, links |-> 0] : node \in {Root} \cap there}

WayIn(fs, there, path) ==
  LET way[n \in 0 .. Len(path)] ==
        IF n = 0 THEN StartIn(there) ELSE FollowIn(fs, there, way[n - 1], path[n])
  IN  way

PlacesIn(fs, there, path) == WayIn(fs, there, path)[Len(path)]

NodesIn(fs, there, path) == {place.node : place \in PlacesIn(fs, there, path)}

KindsIn(fs, there, path) == {fs.kind[node] : node \in NodesIn(fs, there, path)}

ListingIn(fs, there, path) ==
  {entry \in UNION {fs.entries[node] : node \in {n \in NodesIn(fs, there, path) : fs.kind[n] = "directory"}} :
     entry.link \/ entry.node \in there}

LEMMA WayNow ==
  ASSUME NEW there, NEW path
  PROVE  Way(there, path) = WayIn(tree, there, path)
<1>1. \A places, name : Follow(there, places, name) = FollowIn(tree, there, places, name)
  BY DEF Follow, FollowIn
<1>2. StartPlaces(there) = StartIn(there)
  BY DEF StartPlaces, StartIn
<1> QED
  BY <1>1, <1>2 DEF Way, WayIn

LEMMA Now ==
  ASSUME NEW path
  PROVE  /\ NodesAt(path) = NodesIn(tree, present, path)
         /\ KindsAt(path) = KindsIn(tree, present, path)
         /\ Listing(path) = ListingIn(tree, present, path)
<1>4. PlacesAt(path) = PlacesIn(tree, present, path)
  BY WayNow DEF PlacesAt, PlacesIn
<1>5. NodesAt(path) = NodesIn(tree, present, path)
  BY <1>4 DEF NodesAt, NodesIn
<1> QED
  BY <1>5 DEF KindsAt, KindsIn, Listing, ListingIn

\* Induction on the length of paths.
LEMMA AllNumbers ==
  ASSUME NEW S, 0 \in S, \A n \in Nat : n \in S => n + 1 \in S
  PROVE  \A n \in Nat : n \in S
<1> DEFINE missing == Nat \ S
<1> SUFFICES ASSUME missing # {} PROVE FALSE
  OBVIOUS
<1>1. PICK n \in missing : \A m \in missing : n <= m
  <2>1. missing \subseteq Nat
    OBVIOUS
  <2> HIDE DEF missing
  <2> QED
    BY <2>1, LeastNumber
<1>2. n \in Nat /\ n # 0 /\ n \notin S
  OBVIOUS
<1>3. n - 1 \in Nat /\ ~(n <= n - 1) /\ (n - 1) + 1 = n
  BY <1>2
<1>4. n - 1 \in S
  BY <1>1, <1>3
<1> QED
  BY <1>2, <1>3, <1>4

LEMMA AllPaths ==
  ASSUME NEW S, <<>> \in S, \A p \in Path, x \in Nat : p \in S => Append(p, x) \in S
  PROVE  \A p \in Path : p \in S
<1> DEFINE good == {n \in Nat : \A p \in Path : Len(p) = n => p \in S}
<1>1. 0 \in good
  <2> SUFFICES ASSUME NEW p \in Path, Len(p) = 0 PROVE p \in S
    OBVIOUS
  <2>1. p = <<>>
    BY EmptySeq DEF Path
  <2> QED
    BY <2>1
<1>2. ASSUME NEW n \in Nat, n \in good PROVE n + 1 \in good
  <2> SUFFICES ASSUME NEW p \in Path, Len(p) = n + 1 PROVE p \in S
    OBVIOUS
  <2>1. Len(p) # 0
    OBVIOUS
  <2>2. p # <<>>
    BY <2>1, EmptySeq DEF Path
  <2>3. PICK q \in Path, x \in Nat : p = Append(q, x)
    BY <2>2, SequenceEmptyOrAppend DEF Path
  <2>4. Len(p) = Len(q) + 1 /\ Len(q) \in Nat
    BY <2>3, AppendedName
  <2>5. Len(q) = n
    BY <2>4
  <2>6. q \in S
    BY <1>2, <2>5
  <2> QED
    BY <2>3, <2>6
<1> HIDE DEF good
<1>3. \A n \in Nat : n \in good
  BY <1>1, <1>2, AllNumbers
<1>4. \A p \in Path : Len(p) \in Nat
  BY LenProperties DEF Path
<1> QED
  BY <1>3, <1>4 DEF good

\* The recursion of Way has a solution.
LEMMA WayIsDefined ==
  ASSUME NEW fs, NEW there, NEW path \in Path
  PROVE  WayIn(fs, there, path) =
           [n \in 0 .. Len(path) |->
              IF n = 0 THEN StartIn(there)
              ELSE FollowIn(fs, there, WayIn(fs, there, path)[n - 1], path[n])]
<1> DEFINE step(f, n) == IF n = 0 THEN StartIn(there) ELSE FollowIn(fs, there, f[n - 1], path[n])
           upto(f, n) == f = [k \in 0 .. n |-> step(f, k)]
           good == {n \in Nat : \E f : upto(f, n)}
<1>1. 0 \in good
  <2> DEFINE f == [k \in 0 .. 0 |-> StartIn(there)]
  <2>1. \A k \in 0 .. 0 : step(f, k) = StartIn(there)
    OBVIOUS
  <2>2. upto(f, 0)
    BY <2>1
  <2> HIDE DEF f, upto
  <2> QED
    BY <2>2
<1>2. ASSUME NEW n \in Nat, n \in good PROVE n + 1 \in good
  <2>1. PICK g : upto(g, n)
    BY <1>2
  <2> DEFINE f == [k \in 0 .. n + 1 |->
                     IF k = n + 1 THEN FollowIn(fs, there, g[n], path[n + 1]) ELSE g[k]]
  <2>2. \A k \in 0 .. n : f[k] = g[k]
    OBVIOUS
  <2>3. f[n + 1] = FollowIn(fs, there, g[n], path[n + 1])
    OBVIOUS
  <2>4. \A k \in 0 .. n : g[k] = step(g, k)
    BY <2>1
  <2>5. ASSUME NEW k \in 0 .. n + 1 PROVE f[k] = step(f, k)
    <3>1. CASE k = n + 1
      <4>1. k # 0 /\ k - 1 = n /\ n \in 0 .. n
        BY <3>1
      <4>2. f[k - 1] = g[n]
        BY <2>2, <4>1
      <4> HIDE DEF f
      <4> QED
        BY <2>3, <3>1, <4>1, <4>2
    <3>2. CASE k # n + 1
      <4>1. k \in 0 .. n /\ (k = 0 \/ k - 1 \in 0 .. n)
        BY <3>2
      <4>2. f[k] = g[k] /\ (k # 0 => f[k - 1] = g[k - 1])
        BY <2>2, <4>1
      <4> HIDE DEF f
      <4> QED
        BY <2>4, <4>1, <4>2
    <3> QED
      BY <3>1, <3>2
  <2>6. f = [k \in 0 .. n + 1 |-> f[k]]
    OBVIOUS
  <2> HIDE DEF f
  <2>7. [k \in 0 .. n + 1 |-> f[k]] = [k \in 0 .. n + 1 |-> step(f, k)]
    <3> HIDE DEF step
    <3> QED
      BY <2>5
  <2>8. upto(f, n + 1)
    BY <2>6, <2>7
  <2> HIDE DEF upto
  <2> QED
    BY <2>8
<1>3. \A n \in Nat : n \in good
  <2> HIDE DEF good
  <2> QED
    BY <1>1, <1>2, AllNumbers
<1>4. Len(path) \in Nat
  BY LenProperties DEF Path
<1>5. \E f : upto(f, Len(path))
  BY <1>3, <1>4
<1>6. WayIn(fs, there, path) = CHOOSE f : upto(f, Len(path))
  BY DEF WayIn
<1> HIDE DEF upto
<1>7. upto(WayIn(fs, there, path), Len(path))
  BY <1>5, <1>6
<1> QED
  BY <1>7 DEF upto

LEMMA WaySteps ==
  ASSUME NEW fs, NEW there, NEW path \in Path
  PROVE  /\ WayIn(fs, there, path)[0] = StartIn(there)
         /\ \A n \in 1 .. Len(path) :
              WayIn(fs, there, path)[n] = FollowIn(fs, there, WayIn(fs, there, path)[n - 1], path[n])
<1> DEFINE way == WayIn(fs, there, path)
<1>1. Len(path) \in Nat
  BY LenProperties DEF Path
<1>2. way = [n \in 0 .. Len(path) |->
               IF n = 0 THEN StartIn(there) ELSE FollowIn(fs, there, way[n - 1], path[n])]
  BY WayIsDefined
<1> HIDE DEF way
<1>3. 0 \in 0 .. Len(path) /\ \A n \in 1 .. Len(path) : n \in 0 .. Len(path) /\ n # 0
  BY <1>1
<1>4. way[0] = StartIn(there)
  BY <1>2, <1>3
<1>5. \A n \in 1 .. Len(path) : way[n] = FollowIn(fs, there, way[n - 1], path[n])
  BY <1>2, <1>3
<1> QED
  BY <1>4, <1>5 DEF way

\* The places depend on the names passed, not on those to come.
LEMMA SameWay ==
  ASSUME NEW fs, NEW there, NEW p \in Path, NEW q \in Path, NEW m \in Nat,
         m <= Len(p), m <= Len(q), \A k \in 1 .. m : p[k] = q[k]
  PROVE  WayIn(fs, there, p)[m] = WayIn(fs, there, q)[m]
<1> DEFINE v == WayIn(fs, there, p)
           w == WayIn(fs, there, q)
           good == {n \in Nat : n <= m => v[n] = w[n]}
<1>1. Len(p) \in Nat /\ Len(q) \in Nat
  BY LenProperties DEF Path
<1>2. 0 \in good
  BY WaySteps
<1>3. ASSUME NEW n \in Nat, n \in good PROVE n + 1 \in good
  <2> SUFFICES ASSUME n + 1 <= m PROVE v[n + 1] = w[n + 1]
    OBVIOUS
  <2>1. n + 1 \in 1 .. Len(p) /\ n + 1 \in 1 .. Len(q) /\ n + 1 \in 1 .. m /\ (n + 1) - 1 = n
    BY <1>1
  <2>2. v[n] = w[n]
    BY <1>3
  <2>3. v[n + 1] = FollowIn(fs, there, v[(n + 1) - 1], p[n + 1])
    BY <2>1, WaySteps
  <2>4. w[n + 1] = FollowIn(fs, there, w[(n + 1) - 1], q[n + 1])
    BY <2>1, WaySteps
  <2> QED
    BY <2>1, <2>2, <2>3, <2>4
<1> HIDE DEF good
<1>4. m \in good
  BY <1>2, <1>3, AllNumbers
<1> QED
  BY <1>4 DEF good

LEMMA PlacesStep ==
  ASSUME NEW fs, NEW there
  PROVE  /\ PlacesIn(fs, there, <<>>) = StartIn(there)
         /\ \A path \in Path, x \in Nat :
              PlacesIn(fs, there, Append(path, x)) =
                FollowIn(fs, there, PlacesIn(fs, there, path), x)
<1>1. <<>> \in Path /\ Len(<<>>) = 0
  BY EmptySeq DEF Path
<1>2. PlacesIn(fs, there, <<>>) = StartIn(there)
  BY <1>1, WaySteps DEF PlacesIn
<1>3. ASSUME NEW path \in Path, NEW x \in Nat
      PROVE  PlacesIn(fs, there, Append(path, x)) =
               FollowIn(fs, there, PlacesIn(fs, there, path), x)
  <2> DEFINE longer == Append(path, x)
             n == Len(path)
  <2>1. /\ longer \in Path /\ Len(longer) = n + 1 /\ n \in Nat
        /\ \A k \in 1 .. n : longer[k] = path[k]
        /\ longer[n + 1] = x
    BY AppendedName
  <2>2. n + 1 \in 1 .. Len(longer) /\ n <= Len(longer) /\ n <= Len(path) /\ (n + 1) - 1 = n
    BY <2>1
  <2> HIDE DEF longer
  <2>3. WayIn(fs, there, longer)[n + 1] =
          FollowIn(fs, there, WayIn(fs, there, longer)[(n + 1) - 1], longer[n + 1])
    BY <2>1, <2>2, WaySteps
  <2>4. WayIn(fs, there, longer)[n] = WayIn(fs, there, path)[n]
    BY <2>1, <2>2, SameWay
  <2>5. PlacesIn(fs, there, longer) = FollowIn(fs, there, PlacesIn(fs, there, path), x)
    BY <2>1, <2>2, <2>3, <2>4 DEF PlacesIn
  <2> QED
    BY <2>5 DEF longer
<1> QED
  BY <1>2, <1>3

-----------------------------------------------------------------------------
(***************************************************************************)
(* A path leads to one place at most, and to no other when nodes are       *)
(* removed.                                                                *)
(***************************************************************************)
Place == [node : Node, links : Nat]

LEMMA Followed ==
  ASSUME NEW fs, NEW there, NEW places, NEW x, NEW place
  PROVE  place \in FollowIn(fs, there, places, x) <=>
           \E from \in places : \E e \in fs.entries[from.node] :
             /\ e.name = x
             /\ place = [node |-> e.node, links |-> from.links + (IF e.link THEN 1 ELSE 0)]
             /\ place.node \in there /\ place.links <= MaxLinks
BY DEF FollowIn

LEMMA EntriesAre ==
  ASSUME NEW fs, IsFileSystem(fs), NEW node \in Node
  PROVE  /\ fs.entries[node] \subseteq Entry /\ fs.kind[node] \in Kinds
         /\ \A e \in fs.entries[node] : e.name \in Nat /\ e.node \in Node /\ e.link \in BOOLEAN
         /\ fs.entries[node] # {} => fs.kind[node] \in Directories
         /\ \A d, e \in fs.entries[node] : d.name = e.name => d = e
<1>1. fs.entries \in [Node -> SUBSET Entry] /\ fs.kind \in [Node -> Kinds]
  BY DEF IsFileSystem
<1>2. fs.entries[node] \subseteq Entry /\ fs.kind[node] \in Kinds
  BY <1>1
<1>3. \A e \in fs.entries[node] : e.name \in Nat /\ e.node \in Node /\ e.link \in BOOLEAN
  BY <1>2 DEF Entry
<1> QED
  BY <1>2, <1>3 DEF IsFileSystem

LEMMA OnePlace ==
  ASSUME NEW fs, IsFileSystem(fs), NEW there, there \subseteq Node, NEW path \in Path
  PROVE  /\ PlacesIn(fs, there, path) \subseteq Place
         /\ \A a \in PlacesIn(fs, there, path) : a.node \in there
         /\ \A a, b \in PlacesIn(fs, there, path) : a = b
<1> DEFINE fine(places) == /\ places \subseteq Place
                           /\ \A a \in places : a.node \in there
                           /\ \A a, b \in places : a = b
           good == {p \in Path : fine(PlacesIn(fs, there, p))}
<1>1. <<>> \in good
  <2>1. <<>> \in Path
    BY EmptySeq DEF Path
  <2>2. fine(StartIn(there))
    BY BenchmarkAssumption DEF StartIn, Place
  <2> HIDE DEF fine
  <2> QED
    BY <2>1, <2>2, PlacesStep
<1>2. ASSUME NEW p \in Path, NEW x \in Nat, p \in good PROVE Append(p, x) \in good
  <2> DEFINE places == PlacesIn(fs, there, p)
             next == FollowIn(fs, there, places, x)
  <2>1. Append(p, x) \in Path /\ PlacesIn(fs, there, Append(p, x)) = next
    <3>1. Append(p, x) \in Path
      BY AppendedName
    <3>2. PlacesIn(fs, there, Append(p, x)) = FollowIn(fs, there, PlacesIn(fs, there, p), x)
      BY PlacesStep
    <3> QED
      BY <3>1, <3>2
  <2>2. places \subseteq Place /\ \A a, b \in places : a = b
    BY <1>2
  <2> HIDE DEF places
  <2>3. ASSUME NEW a \in next PROVE a \in Place /\ a.node \in there
    <3>1. PICK from \in places : \E e \in fs.entries[from.node] :
             /\ a = [node |-> e.node, links |-> from.links + (IF e.link THEN 1 ELSE 0)]
             /\ a.node \in there
      BY Followed
    <3>2. PICK e \in fs.entries[from.node] :
             /\ a = [node |-> e.node, links |-> from.links + (IF e.link THEN 1 ELSE 0)]
             /\ a.node \in there
      BY <3>1
    <3>3. from.node \in Node /\ from.links \in Nat
      BY <2>2 DEF Place
    <3>4. e.node \in Node
      BY <3>3, EntriesAre
    <3>5. from.links + (IF e.link THEN 1 ELSE 0) \in Nat
      BY <3>3
    <3> QED
      BY <3>2, <3>4, <3>5 DEF Place
  <2>4. ASSUME NEW a \in next, NEW b \in next PROVE a = b
    <3>1. PICK from \in places : \E e \in fs.entries[from.node] :
             e.name = x /\ a = [node |-> e.node, links |-> from.links + (IF e.link THEN 1 ELSE 0)]
      BY Followed
    <3>2. PICK from2 \in places : \E e \in fs.entries[from2.node] :
             e.name = x /\ b = [node |-> e.node, links |-> from2.links + (IF e.link THEN 1 ELSE 0)]
      BY Followed
    <3>3. from = from2 /\ from.node \in Node
      BY <2>2 DEF Place
    <3>4. \A d, e \in fs.entries[from.node] : d.name = e.name => d = e
      BY <3>3, EntriesAre
    <3> QED
      BY <3>1, <3>2, <3>3, <3>4
  <2>5. fine(next)
    <3> HIDE DEF next
    <3> QED
      BY <2>3, <2>4
  <2> HIDE DEF fine, next
  <2> QED
    BY <2>1, <2>5
<1> HIDE DEF good
<1>3. path \in good
  BY <1>1, <1>2, AllPaths
<1> QED
  BY <1>3 DEF good

LEMMA FewerPlaces ==
  ASSUME NEW fs, NEW more, NEW there, there \subseteq more, NEW path \in Path
  PROVE  PlacesIn(fs, there, path) \subseteq PlacesIn(fs, more, path)
<1> DEFINE good == {p \in Path : PlacesIn(fs, there, p) \subseteq PlacesIn(fs, more, p)}
<1>1. <<>> \in good
  <2>1. <<>> \in Path
    BY EmptySeq DEF Path
  <2>2. StartIn(there) \subseteq StartIn(more)
    BY DEF StartIn
  <2> QED
    BY <2>1, <2>2, PlacesStep
<1>2. ASSUME NEW p \in Path, NEW x \in Nat, p \in good PROVE Append(p, x) \in good
  <2>1. PlacesIn(fs, there, p) \subseteq PlacesIn(fs, more, p)
    BY <1>2
  <2>2. \A place \in FollowIn(fs, there, PlacesIn(fs, there, p), x) :
           place \in FollowIn(fs, more, PlacesIn(fs, more, p), x)
    BY <2>1, Followed
  <2>3. Append(p, x) \in Path
    BY AppendedName
  <2>4. PlacesIn(fs, there, Append(p, x)) \subseteq PlacesIn(fs, more, Append(p, x))
    BY <2>2, PlacesStep
  <2> QED
    BY <2>3, <2>4
<1> HIDE DEF good
<1>3. path \in good
  BY <1>1, <1>2, AllPaths
<1> QED
  BY <1>3 DEF good

LEMMA OneNode ==
  ASSUME NEW fs, IsFileSystem(fs), NEW there, there \subseteq Node, NEW path \in Path
  PROVE  /\ NodesIn(fs, there, path) \subseteq there
         /\ \A a, b \in NodesIn(fs, there, path) : a = b
         /\ KindsIn(fs, there, path) \subseteq Kinds
         /\ \A a, b \in KindsIn(fs, there, path) : a = b
<1>1. NodesIn(fs, there, path) \subseteq there /\ \A a, b \in NodesIn(fs, there, path) : a = b
  BY OnePlace DEF NodesIn
<1>2. \A node \in NodesIn(fs, there, path) : fs.kind[node] \in Kinds
  BY <1>1, EntriesAre
<1> QED
  BY <1>1, <1>2 DEF KindsIn

\* What is listed are the entries of one directory.
LEMMA ListingIs ==
  ASSUME NEW fs, IsFileSystem(fs), NEW there, there \subseteq Node, NEW path \in Path
  PROVE  /\ ListingIn(fs, there, path) \subseteq Entry
         /\ \A node \in NodesIn(fs, there, path) :
              ListingIn(fs, there, path) \subseteq fs.entries[node]
         /\ \A d, e \in ListingIn(fs, there, path) : d.name = e.name => d = e
         /\ ListingIn(fs, there, path) # {} => KindsIn(fs, there, path) = {"directory"}
<1>1. /\ NodesIn(fs, there, path) \subseteq Node
      /\ \A a, b \in NodesIn(fs, there, path) : a = b
      /\ \A a, b \in KindsIn(fs, there, path) : a = b
  BY OneNode
<1>2. ASSUME NEW e \in ListingIn(fs, there, path)
      PROVE  \E node \in NodesIn(fs, there, path) :
               fs.kind[node] = "directory" /\ e \in fs.entries[node]
  BY DEF ListingIn
<1>3. ListingIn(fs, there, path) \subseteq Entry
  BY <1>1, <1>2, EntriesAre
<1>4. \A node \in NodesIn(fs, there, path) : ListingIn(fs, there, path) \subseteq fs.entries[node]
  BY <1>1, <1>2
<1>5. ASSUME NEW d \in ListingIn(fs, there, path), NEW e \in ListingIn(fs, there, path),
             d.name = e.name
      PROVE  d = e
  <2>1. PICK node \in NodesIn(fs, there, path) : d \in fs.entries[node] /\ e \in fs.entries[node]
    BY <1>2, <1>4
  <2>2. node \in Node
    BY <1>1
  <2> QED
    BY <1>5, <2>1, <2>2, EntriesAre
<1>6. ASSUME ListingIn(fs, there, path) # {} PROVE KindsIn(fs, there, path) = {"directory"}
  <2>1. PICK e \in ListingIn(fs, there, path) : TRUE
    BY <1>6
  <2>2. "directory" \in KindsIn(fs, there, path)
    BY <1>2, <2>1 DEF KindsIn
  <2> QED
    BY <1>1, <2>2
<1> QED
  BY <1>3, <1>4, <1>5, <1>6

\* An entry's name leads to the entry's node.
LEMMA EntryLeads ==
  ASSUME NEW fs, IsFileSystem(fs), NEW there, there \subseteq Node, NEW path \in Path,
         NEW left \in SUBSET Entry, \A node \in NodesIn(fs, there, path) : left \subseteq fs.entries[node],
         NEW e \in left
  PROVE  /\ e.name \in Nat /\ Append(path, e.name) \in Path
         /\ \A node \in NodesIn(fs, there, Append(path, e.name)) : node = e.node
         /\ \A kind \in KindsIn(fs, there, Append(path, e.name)) : kind = fs.kind[e.node]
<1>1. e.name \in Nat
  BY DEF Entry
<1>2. Append(path, e.name) \in Path
  BY <1>1, AppendedName
<1>3. ASSUME NEW node \in NodesIn(fs, there, Append(path, e.name)) PROVE node = e.node
  <2>1. PICK place \in PlacesIn(fs, there, Append(path, e.name)) : node = place.node
    BY <1>3 DEF NodesIn
  <2>2. place \in FollowIn(fs, there, PlacesIn(fs, there, path), e.name)
    BY <1>1, <2>1, PlacesStep
  <2>3. PICK from \in PlacesIn(fs, there, path) : \E d \in fs.entries[from.node] :
           d.name = e.name /\ place.node = d.node
    BY <2>2, Followed
  <2>4. from.node \in NodesIn(fs, there, path)
    BY DEF NodesIn
  <2>5. from.node \in Node /\ e \in fs.entries[from.node]
    BY <2>4, OneNode
  <2>6. \A d \in fs.entries[from.node] : d.name = e.name => d = e
    BY <2>5, EntriesAre
  <2> QED
    BY <2>1, <2>3, <2>6
<1> QED
  BY <1>1, <1>2, <1>3 DEF KindsIn

LEMMA FewerListed ==
  ASSUME NEW fs, NEW more, NEW there, there \subseteq more, NEW path \in Path
  PROVE  /\ NodesIn(fs, there, path) \subseteq NodesIn(fs, more, path)
         /\ KindsIn(fs, there, path) \subseteq KindsIn(fs, more, path)
         /\ ListingIn(fs, there, path) \subseteq ListingIn(fs, more, path)
<1>1. NodesIn(fs, there, path) \subseteq NodesIn(fs, more, path)
  BY FewerPlaces DEF NodesIn
<1>2. KindsIn(fs, there, path) \subseteq KindsIn(fs, more, path)
  BY <1>1 DEF KindsIn
<1>3. ListingIn(fs, there, path) \subseteq ListingIn(fs, more, path)
  BY <1>1 DEF ListingIn
<1> QED
  BY <1>1, <1>2, <1>3

-----------------------------------------------------------------------------
(***************************************************************************)
(* The text files in their places.                                         *)
(***************************************************************************)
\* Every directory on the path lists the name that follows.
InPlaceIn(fs, there, path) ==
  /\ "text" \in KindsIn(fs, there, path)
  /\ \A k \in 0 .. Len(path) - 1 : \E e \in ListingIn(fs, there, SubSeq(path, 1, k)) : e.name = path[k + 1]

LEMMA FewerInPlace ==
  ASSUME NEW fs, NEW more, NEW there, there \subseteq more, NEW path \in Path,
         InPlaceIn(fs, there, path)
  PROVE  InPlaceIn(fs, more, path)
<1>1. "text" \in KindsIn(fs, more, path)
  BY FewerListed DEF InPlaceIn
<1>2. ASSUME NEW k \in 0 .. Len(path) - 1
      PROVE  \E e \in ListingIn(fs, more, SubSeq(path, 1, k)) : e.name = path[k + 1]
  <2>1. Len(path) \in Nat
    BY LenProperties DEF Path
  <2>2. k \in 0 .. Len(path)
    BY <2>1
  <2>3. SubSeq(path, 1, k) \in Path
    BY <2>2, PathFront
  <2>4. ListingIn(fs, there, SubSeq(path, 1, k)) \subseteq ListingIn(fs, more, SubSeq(path, 1, k))
    BY <2>3, FewerListed
  <2> QED
    BY <2>4 DEF InPlaceIn
<1> QED
  BY <1>1, <1>2 DEF InPlaceIn

LEMMA FrontOfAppended ==
  ASSUME NEW p \in Path, NEW x \in Nat, NEW n \in 0 .. Len(p)
  PROVE  SubSeq(Append(p, x), 1, n) = SubSeq(p, 1, n)
<1> DEFINE q == Append(p, x)
<1>1. /\ q \in Path /\ Len(q) = Len(p) + 1 /\ Len(p) \in Nat
      /\ \A k \in 1 .. Len(p) : q[k] = p[k]
  BY AppendedName
<1> HIDE DEF q
<1>2. n \in 0 .. Len(q) /\ \A k \in 1 .. n : k \in 1 .. Len(p)
  BY <1>1
<1>3. /\ SubSeq(p, 1, n) \in Path /\ Len(SubSeq(p, 1, n)) = n
      /\ \A k \in 1 .. n : SubSeq(p, 1, n)[k] = p[k]
  BY PathFront
<1>4. /\ SubSeq(q, 1, n) \in Path /\ Len(SubSeq(q, 1, n)) = n
      /\ \A k \in 1 .. n : SubSeq(q, 1, n)[k] = q[k]
  BY <1>1, <1>2, PathFront
<1>5. SubSeq(q, 1, n) = SubSeq(p, 1, n)
  BY <1>1, <1>2, <1>3, <1>4, SamePath
<1> QED
  BY <1>5 DEF q

LEMMA MaxDepthIsNat == MaxDepth \in Nat
<1>1. Cardinality(Node) \in Nat /\ MaxLinks + 1 \in Nat
  BY BenchmarkAssumption, FS_CardinalityType
<1>2. \A m, n \in Nat : m * n \in Nat
  OBVIOUS
<1> QED
  BY <1>1, <1>2 DEF MaxDepth

\* The recursion of ListedPaths has a solution.
LEMMA ListedIsDefined ==
  ListedPaths = [k \in 0 .. MaxDepth |->
    IF k = 0 THEN {<<>>}
    ELSE UNION {{Append(path, entry.name) : entry \in Listing(path)} : path \in ListedPaths[k - 1]}]
<1> DEFINE below(paths) == UNION {{Append(path, entry.name) : entry \in Listing(path)} : path \in paths}
           step(f, k) == IF k = 0 THEN {<<>>} ELSE below(f[k - 1])
           upto(f, n) == f = [k \in 0 .. n |-> step(f, k)]
           good == {n \in Nat : \E f : upto(f, n)}
<1>0. ListedPaths = CHOOSE f : upto(f, MaxDepth)
  BY DEF ListedPaths
<1> HIDE DEF below
<1>1. 0 \in good
  <2> DEFINE f == [k \in 0 .. 0 |-> {<<>>}]
  <2>1. \A k \in 0 .. 0 : step(f, k) = {<<>>}
    OBVIOUS
  <2>2. upto(f, 0)
    BY <2>1
  <2> HIDE DEF f, upto
  <2> QED
    BY <2>2
<1>2. ASSUME NEW n \in Nat, n \in good PROVE n + 1 \in good
  <2>1. PICK g : upto(g, n)
    BY <1>2
  <2> DEFINE f == [k \in 0 .. n + 1 |-> IF k = n + 1 THEN below(g[n]) ELSE g[k]]
  <2>2. \A k \in 0 .. n : f[k] = g[k]
    OBVIOUS
  <2>3. f[n + 1] = below(g[n])
    OBVIOUS
  <2>4. \A k \in 0 .. n : g[k] = step(g, k)
    BY <2>1
  <2>5. ASSUME NEW k \in 0 .. n + 1 PROVE f[k] = step(f, k)
    <3>1. CASE k = n + 1
      <4>1. k # 0 /\ k - 1 = n /\ n \in 0 .. n
        BY <3>1
      <4>2. f[k - 1] = g[n]
        BY <2>2, <4>1
      <4> HIDE DEF f
      <4> QED
        BY <2>3, <3>1, <4>1, <4>2
    <3>2. CASE k # n + 1
      <4>1. k \in 0 .. n /\ (k = 0 \/ k - 1 \in 0 .. n)
        BY <3>2
      <4>2. f[k] = g[k] /\ (k # 0 => f[k - 1] = g[k - 1])
        BY <2>2, <4>1
      <4> HIDE DEF f
      <4> QED
        BY <2>4, <4>1, <4>2
    <3> QED
      BY <3>1, <3>2
  <2>6. f = [k \in 0 .. n + 1 |-> f[k]]
    OBVIOUS
  <2> HIDE DEF f
  <2>7. [k \in 0 .. n + 1 |-> f[k]] = [k \in 0 .. n + 1 |-> step(f, k)]
    <3> HIDE DEF step
    <3> QED
      BY <2>5
  <2>8. upto(f, n + 1)
    BY <2>6, <2>7
  <2> HIDE DEF upto
  <2> QED
    BY <2>8
<1>3. \A n \in Nat : n \in good
  <2> HIDE DEF good
  <2> QED
    BY <1>1, <1>2, AllNumbers
<1>4. \E f : upto(f, MaxDepth)
  BY <1>3, MaxDepthIsNat
<1> HIDE DEF upto
<1>5. upto(ListedPaths, MaxDepth)
  BY <1>0, <1>4
<1> QED
  BY <1>5 DEF upto, below

\* Each name of the path is listed in the directory in front of it.
AllListed(path) ==
  \A k \in 0 .. Len(path) - 1 :
    \E e \in ListingIn(tree, present, SubSeq(path, 1, k)) : e.name = path[k + 1]

LEMMA ListedFurther ==
  ASSUME NEW path \in Path, AllListed(path), NEW entry \in ListingIn(tree, present, path),
         entry.name \in Nat
  PROVE  Append(path, entry.name) \in Path /\ AllListed(Append(path, entry.name))
<1> DEFINE longer == Append(path, entry.name)
<1>1. /\ longer \in Path /\ Len(longer) = Len(path) + 1 /\ Len(path) \in Nat
      /\ \A k \in 1 .. Len(path) : longer[k] = path[k]
      /\ longer[Len(path) + 1] = entry.name
  BY AppendedName
<1>2. \A k \in 0 .. Len(path) : SubSeq(longer, 1, k) = SubSeq(path, 1, k)
  BY FrontOfAppended
<1>3. SubSeq(path, 1, Len(path)) = path
  BY SubSeqFull DEF Path
<1> HIDE DEF longer
<1>4. ASSUME NEW k \in 0 .. Len(longer) - 1
      PROVE  \E e \in ListingIn(tree, present, SubSeq(longer, 1, k)) : e.name = longer[k + 1]
  <2>1. k \in 0 .. Len(path)
    BY <1>1
  <2>2. CASE k = Len(path)
    BY <1>1, <1>2, <1>3, <2>1, <2>2
  <2>3. CASE k # Len(path)
    <3>1. k \in 0 .. Len(path) - 1 /\ k + 1 \in 1 .. Len(path)
      BY <1>1, <2>1, <2>3
    <3>2. PICK e \in ListingIn(tree, present, SubSeq(path, 1, k)) : e.name = path[k + 1]
      BY <3>1 DEF AllListed
    <3> QED
      BY <1>1, <1>2, <2>1, <3>1, <3>2
  <2> QED
    BY <2>2, <2>3
<1> QED
  BY <1>1, <1>4 DEF AllListed, longer

LEMMA ListedPathsAre ==
  ASSUME IsFileSystem(tree), present \subseteq Node
  PROVE  \A k \in 0 .. MaxDepth : \A path \in ListedPaths[k] : path \in Path /\ AllListed(path)
<1> DEFINE good == {k \in Nat : k <= MaxDepth => \A path \in ListedPaths[k] : path \in Path /\ AllListed(path)}
<1>1. 0 \in good
  <2>1. ListedPaths[0] = {<<>>}
    BY ListedIsDefined, MaxDepthIsNat
  <2>2. <<>> \in Path /\ Len(<<>>) = 0
    BY EmptySeq DEF Path
  <2>3. AllListed(<<>>)
    BY <2>2 DEF AllListed
  <2> QED
    BY <2>1, <2>2, <2>3
<1>2. ASSUME NEW k \in Nat, k \in good PROVE k + 1 \in good
  <2> SUFFICES ASSUME k + 1 <= MaxDepth, NEW path \in ListedPaths[k + 1]
               PROVE  path \in Path /\ AllListed(path)
    OBVIOUS
  <2>1. k + 1 \in 0 .. MaxDepth /\ k + 1 # 0 /\ (k + 1) - 1 = k /\ k <= MaxDepth
    BY MaxDepthIsNat
  <2>2. ListedPaths[k + 1] =
          UNION {{Append(p, entry.name) : entry \in Listing(p)} : p \in ListedPaths[(k + 1) - 1]}
    BY <2>1, ListedIsDefined
  <2>3. PICK p \in ListedPaths[k] : \E entry \in Listing(p) : path = Append(p, entry.name)
    BY <2>1, <2>2
  <2>4. PICK entry \in ListingIn(tree, present, p) : path = Append(p, entry.name)
    BY <2>3, Now
  <2>5. p \in Path /\ AllListed(p)
    BY <1>2, <2>1
  <2>6. entry.name \in Nat
    BY <2>5, ListingIs DEF Entry
  <2> QED
    BY <2>4, <2>5, <2>6, ListedFurther
<1> HIDE DEF good
<1>3. \A k \in Nat : k \in good
  BY <1>1, <1>2, AllNumbers
<1>4. \A k \in 0 .. MaxDepth : k \in Nat /\ k <= MaxDepth
  BY MaxDepthIsNat
<1> QED
  BY <1>3, <1>4 DEF good

LEMMA TextPathsAreInPlace ==
  ASSUME IsFileSystem(tree), present \subseteq Node, NEW path \in TextPaths
  PROVE  path \in Path /\ InPlaceIn(tree, present, path)
<1>1. PICK k \in 0 .. MaxDepth : path \in ListedPaths[k] /\ "text" \in KindsAt(path)
  BY DEF TextPaths
<1>2. path \in Path /\ AllListed(path)
  BY <1>1, ListedPathsAre
<1>3. "text" \in KindsIn(tree, present, path)
  BY <1>1, Now
<1> QED
  BY <1>2, <1>3 DEF InPlaceIn, AllListed

-----------------------------------------------------------------------------
(***************************************************************************)
(* Prefixes, and the paths that the open directories still lead to.        *)
(***************************************************************************)
LEMMA PrefixFacts ==
  ASSUME NEW p \in Path, NEW q \in Path
  PROVE  /\ IsPrefix(p, p)
         /\ IsPrefix(p, q) => Len(p) <= Len(q)
         /\ IsStrictPrefix(p, q) <=> IsPrefix(p, q) /\ Len(p) < Len(q)
<1>1. Len(p) \in Nat /\ Len(q) \in Nat
  BY LenProperties DEF Path
<1>2. IsPrefix(p, p)
  BY <1>1, PrefixByName
<1>3. IsPrefix(p, q) => Len(p) <= Len(q)
  BY PrefixByName
<1>4. IsPrefix(p, q) /\ Len(p) = Len(q) => p = q
  BY PrefixByName, SamePath
<1>5. IsStrictPrefix(p, q) <=> IsPrefix(p, q) /\ Len(p) < Len(q)
  BY <1>1, <1>3, <1>4 DEF IsStrictPrefix
<1> QED
  BY <1>2, <1>3, <1>5

LEMMA PrefixTransitive ==
  ASSUME NEW p \in Path, NEW q \in Path, NEW r \in Path, IsPrefix(p, q), IsPrefix(q, r)
  PROVE  IsPrefix(p, r)
<1>1. Len(p) \in Nat /\ Len(q) \in Nat /\ Len(r) \in Nat
  BY LenProperties DEF Path
<1>2. Len(p) <= Len(q) /\ \A k \in 1 .. Len(p) : p[k] = q[k]
  BY PrefixByName
<1>3. Len(q) <= Len(r) /\ \A k \in 1 .. Len(q) : q[k] = r[k]
  BY PrefixByName
<1>4. Len(p) <= Len(r) /\ \A k \in 1 .. Len(p) : p[k] = r[k]
  BY <1>1, <1>2, <1>3
<1> QED
  BY <1>4, PrefixByName

\* Of two prefixes of a path, the shorter is one of the longer.
LEMMA ShorterPrefix ==
  ASSUME NEW p \in Path, NEW q \in Path, NEW r \in Path,
         IsPrefix(p, r), IsPrefix(q, r), Len(p) <= Len(q)
  PROVE  IsPrefix(p, q)
<1>1. Len(p) \in Nat /\ Len(q) \in Nat
  BY LenProperties DEF Path
<1>2. \A k \in 1 .. Len(p) : p[k] = r[k]
  BY PrefixByName
<1>3. \A k \in 1 .. Len(q) : q[k] = r[k]
  BY PrefixByName
<1>4. \A k \in 1 .. Len(p) : p[k] = q[k]
  BY <1>1, <1>2, <1>3
<1> QED
  BY <1>4, PrefixByName

LEMMA PrefixAppended ==
  ASSUME NEW p \in Path, NEW x \in Nat, NEW q \in Path
  PROVE  /\ IsPrefix(Append(p, x), q) <=> IsPrefix(p, q) /\ Len(p) < Len(q) /\ q[Len(p) + 1] = x
         /\ IsStrictPrefix(p, Append(p, x))
<1> DEFINE longer == Append(p, x)
<1>1. /\ longer \in Path /\ Len(longer) = Len(p) + 1 /\ Len(p) \in Nat
      /\ \A k \in 1 .. Len(p) : longer[k] = p[k]
      /\ longer[Len(p) + 1] = x
  BY AppendedName
<1>2. Len(q) \in Nat
  BY LenProperties DEF Path
<1> HIDE DEF longer
<1>3. ASSUME IsPrefix(longer, q) PROVE IsPrefix(p, q) /\ Len(p) < Len(q) /\ q[Len(p) + 1] = x
  <2>1. Len(longer) <= Len(q) /\ \A k \in 1 .. Len(longer) : longer[k] = q[k]
    BY <1>1, <1>3, PrefixByName
  <2>2. Len(p) <= Len(q) /\ Len(p) < Len(q) /\ Len(p) + 1 \in 1 .. Len(longer)
        /\ \A k \in 1 .. Len(p) : k \in 1 .. Len(longer)
    BY <1>1, <1>2, <2>1
  <2>3. \A k \in 1 .. Len(p) : p[k] = q[k]
    BY <1>1, <2>1, <2>2
  <2> QED
    BY <1>1, <2>1, <2>2, <2>3, PrefixByName
<1>4. ASSUME IsPrefix(p, q), Len(p) < Len(q), q[Len(p) + 1] = x PROVE IsPrefix(longer, q)
  <2>1. \A k \in 1 .. Len(p) : p[k] = q[k]
    BY <1>4, PrefixByName
  <2>2. Len(longer) <= Len(q) /\ \A k \in 1 .. Len(longer) : k \in 1 .. Len(p) \/ k = Len(p) + 1
    BY <1>1, <1>2, <1>4
  <2>3. \A k \in 1 .. Len(longer) : longer[k] = q[k]
    BY <1>1, <1>4, <2>1, <2>2
  <2> QED
    BY <1>1, <2>2, <2>3, PrefixByName
<1>5. IsPrefix(p, longer)
  BY <1>1, PrefixByName
<1>6. IsStrictPrefix(p, longer)
  BY <1>1, <1>5, PrefixFacts
<1> QED
  BY <1>3, <1>4, <1>6 DEF longer

Frame == [path : Path, left : SUBSET Entry]

AheadOf(open, path) ==
  \E k \in DOMAIN open : \E entry \in open[k].left :
    IsPrefix(Append(open[k].path, entry.name), path)

\* The open directories lie below each other, and none lists the way to those
\* below it any more.
StackOK(open) ==
  \A k \in DOMAIN open :
    /\ \A d, e \in open[k].left : d.name = e.name => d = e
    /\ \A j \in 1 .. k - 1 :
         /\ IsStrictPrefix(open[j].path, open[k].path)
         /\ \A entry \in open[j].left : ~IsPrefix(Append(open[j].path, entry.name), open[k].path)

LEMMA FramesAre ==
  ASSUME NEW open \in Seq(Frame)
  PROVE  /\ Len(open) \in Nat /\ DOMAIN open = 1 .. Len(open)
         /\ \A k \in DOMAIN open : /\ open[k] \in Frame /\ open[k].path \in Path
                                   /\ open[k].left \subseteq Entry
                                   /\ \A entry \in open[k].left : entry.name \in Nat
         /\ open # <<>> => Len(open) \in DOMAIN open /\ Last(open) = open[Len(open)]
<1>1. Len(open) \in Nat /\ DOMAIN open = 1 .. Len(open)
  BY LenProperties
<1>2. \A k \in DOMAIN open : open[k] \in Frame
  BY <1>1, ElementOfSeq
<1>3. \A k \in DOMAIN open : open[k].path \in Path /\ open[k].left \subseteq Entry
  BY <1>2 DEF Frame
<1>4. \A k \in DOMAIN open : \A entry \in open[k].left : entry.name \in Nat
  BY <1>3 DEF Entry
<1>5. open # <<>> => Len(open) \in DOMAIN open
  BY <1>1, EmptySeq
<1> QED
  BY <1>1, <1>2, <1>3, <1>4, <1>5 DEF Last

\* The iterator of the innermost directory moves on past an entry.
Past(open, entry) == [open EXCEPT ![Len(open)].left = @ \ {entry}]

LEMMA PastIs ==
  ASSUME NEW open \in Seq(Frame), open # <<>>, NEW entry \in Last(open).left
  PROVE  /\ Past(open, entry) \in Seq(Frame) /\ Len(Past(open, entry)) = Len(open)
         /\ DOMAIN Past(open, entry) = DOMAIN open
         /\ \A k \in DOMAIN open : /\ Past(open, entry)[k].path = open[k].path
                                   /\ Past(open, entry)[k].left \subseteq open[k].left
                                   /\ k # Len(open) => Past(open, entry)[k].left = open[k].left
         /\ Past(open, entry)[Len(open)].left = open[Len(open)].left \ {entry}
<1> DEFINE n == Len(open)
           top == [open[n] EXCEPT !.left = @ \ {entry}]
<1>1. n \in DOMAIN open /\ n \in 1 .. n /\ DOMAIN open = 1 .. n
  BY FramesAre
<1>2. open[n] \in Frame
  BY <1>1, FramesAre
<1>3. top \in Frame /\ top.path = open[n].path /\ top.left = open[n].left \ {entry}
  BY <1>2 DEF Frame
<1>4. Past(open, entry) = [open EXCEPT ![n] = top]
  BY DEF Past
<1> HIDE DEF top
<1>5. /\ [open EXCEPT ![n] = top] \in Seq(Frame) /\ Len([open EXCEPT ![n] = top]) = n
      /\ \A k \in 1 .. n : [open EXCEPT ![n] = top][k] = IF k = n THEN top ELSE open[k]
  BY <1>1, <1>3, ExceptSeq
<1>6. DOMAIN Past(open, entry) = DOMAIN open
  BY <1>4
<1> QED
  BY <1>1, <1>3, <1>4, <1>5, <1>6

LEMMA PastAhead ==
  ASSUME NEW open \in Seq(Frame), open # <<>>, StackOK(open), NEW entry \in Last(open).left,
         NEW q \in Path
  PROVE  LET p == Append(Last(open).path, entry.name)
         IN  /\ p \in Path
             /\ AheadOf(Past(open, entry), q) => AheadOf(open, q)
             /\ IsPrefix(p, q) => AheadOf(open, q) /\ ~AheadOf(Past(open, entry), q)
             /\ AheadOf(open, q) /\ ~IsPrefix(p, q) => AheadOf(Past(open, entry), q)
<1> DEFINE p == Append(Last(open).path, entry.name)
           n == Len(open)
           past == Past(open, entry)
<1>1. /\ n \in DOMAIN open /\ DOMAIN open = 1 .. n /\ Last(open) = open[n] /\ n \in Nat
      /\ \A k \in DOMAIN open : /\ open[k].path \in Path
                                /\ \A e \in open[k].left : e.name \in Nat
  BY FramesAre
<1>2. /\ DOMAIN past = DOMAIN open
      /\ \A k \in DOMAIN open : /\ past[k].path = open[k].path
                                /\ past[k].left \subseteq open[k].left
                                /\ k # n => past[k].left = open[k].left
      /\ past[n].left = open[n].left \ {entry}
  BY PastIs
<1> HIDE DEF past
<1>3. open[n].path \in Path /\ entry.name \in Nat /\ p = Append(open[n].path, entry.name)
  BY <1>1
<1> HIDE DEF p
<1>4. p \in Path /\ Len(p) = Len(open[n].path) + 1 /\ Len(open[n].path) \in Nat
  BY <1>3, AppendedName
<1>5. AheadOf(past, q) => AheadOf(open, q)
  BY <1>2 DEF AheadOf
<1>6. IsPrefix(p, q) => AheadOf(open, q)
  BY <1>1, <1>3 DEF AheadOf
<1>7. ASSUME AheadOf(open, q), ~IsPrefix(p, q) PROVE AheadOf(past, q)
  <2>1. PICK k \in DOMAIN open : \E e \in open[k].left : IsPrefix(Append(open[k].path, e.name), q)
    BY <1>7 DEF AheadOf
  <2>2. PICK e \in open[k].left : IsPrefix(Append(open[k].path, e.name), q)
    BY <2>1
  <2>3. e \in past[k].left
    <3>1. CASE k # n
      BY <1>2, <3>1
    <3>2. CASE k = n
      <4>1. e # entry
        BY <1>3, <1>7, <2>2, <3>2
      <4> QED
        BY <1>2, <3>2, <4>1
    <3> QED
      BY <3>1, <3>2
  <2> QED
    BY <1>2, <2>2, <2>3 DEF AheadOf
<1>8. ASSUME IsPrefix(p, q), AheadOf(past, q) PROVE FALSE
  <2>1. PICK k \in DOMAIN open : \E e \in past[k].left : IsPrefix(Append(open[k].path, e.name), q)
    BY <1>2, <1>8 DEF AheadOf
  <2>2. PICK e \in past[k].left : IsPrefix(Append(open[k].path, e.name), q)
    BY <2>1
  <2>3. e \in open[k].left /\ e.name \in Nat /\ open[k].path \in Path
    BY <1>1, <1>2
  <2>4. /\ Append(open[k].path, e.name) \in Path /\ Len(open[k].path) \in Nat
        /\ Len(Append(open[k].path, e.name)) = Len(open[k].path) + 1
    BY <2>3, AppendedName
  <2>5. CASE k = n
    <3>1. q[Len(open[n].path) + 1] = e.name /\ q[Len(open[n].path) + 1] = entry.name
      BY <1>3, <1>8, <2>2, <2>3, <2>5, PrefixAppended
    <3>2. e = entry
      BY <1>1, <2>3, <2>5, <3>1 DEF StackOK
    <3> QED
      BY <1>2, <2>2, <2>5, <3>2
  <2>6. CASE k # n
    <3>1. k \in 1 .. n - 1
      BY <1>1, <2>6
    <3>2. /\ IsStrictPrefix(open[k].path, open[n].path)
          /\ ~IsPrefix(Append(open[k].path, e.name), open[n].path)
      BY <1>1, <2>3, <3>1 DEF StackOK
    <3>3. Len(open[k].path) < Len(open[n].path)
      BY <1>3, <2>3, <3>2, PrefixFacts
    <3>4. Len(Append(open[k].path, e.name)) <= Len(open[n].path)
      BY <1>4, <2>4, <3>3
    <3>5. IsPrefix(open[n].path, q)
      BY <1>3, <1>8, PrefixAppended
    <3>6. IsPrefix(Append(open[k].path, e.name), open[n].path)
      BY <1>3, <2>2, <2>4, <3>4, <3>5, ShorterPrefix
    <3> QED
      BY <3>2, <3>6
  <2> QED
    BY <2>5, <2>6
<1> QED
  BY <1>4, <1>5, <1>6, <1>7, <1>8 DEF p, past

LEMMA PastStaysOK ==
  ASSUME NEW open \in Seq(Frame), open # <<>>, StackOK(open), NEW entry \in Last(open).left
  PROVE  StackOK(Past(open, entry))
<1> DEFINE past == Past(open, entry)
<1>1. /\ DOMAIN past = DOMAIN open
      /\ \A k \in DOMAIN open : past[k].path = open[k].path /\ past[k].left \subseteq open[k].left
  BY PastIs
<1>2. DOMAIN open = 1 .. Len(open) /\ Len(open) \in Nat
  BY FramesAre
<1> HIDE DEF past
<1>3. \A k \in DOMAIN open : \A j \in 1 .. k - 1 : j \in DOMAIN open
  BY <1>2
<1>4. StackOK(past)
  BY <1>1, <1>3 DEF StackOK
<1> QED
  BY <1>4 DEF past

\* A directory is opened below the innermost one.
LEMMA OpenedIs ==
  ASSUME NEW open \in Seq(Frame), NEW frame \in Frame
  PROVE  /\ Append(open, frame) \in Seq(Frame) /\ Len(Append(open, frame)) = Len(open) + 1
         /\ DOMAIN Append(open, frame) = DOMAIN open \cup {Len(open) + 1}
         /\ \A k \in DOMAIN open : Append(open, frame)[k] = open[k]
         /\ Append(open, frame)[Len(open) + 1] = frame
         /\ \A q : AheadOf(Append(open, frame), q) <=>
                     AheadOf(open, q) \/ \E e \in frame.left : IsPrefix(Append(frame.path, e.name), q)
<1> DEFINE more == Append(open, frame)
<1>1. /\ more \in Seq(Frame) /\ Len(more) = Len(open) + 1
      /\ \A k \in 1 .. Len(open) : more[k] = open[k]
      /\ more[Len(open) + 1] = frame
  BY AppendProperties
<1>2. Len(open) \in Nat /\ DOMAIN open = 1 .. Len(open) /\ DOMAIN more = 1 .. Len(more)
  BY <1>1, LenProperties
<1> HIDE DEF more
<1>3. DOMAIN more = DOMAIN open \cup {Len(open) + 1}
  BY <1>1, <1>2
<1>4. \A q : AheadOf(more, q) <=>
               AheadOf(open, q) \/ \E e \in frame.left : IsPrefix(Append(frame.path, e.name), q)
  BY <1>1, <1>2, <1>3 DEF AheadOf
<1> QED
  BY <1>1, <1>2, <1>3, <1>4 DEF more

LEMMA OpenedStaysOK ==
  ASSUME NEW open \in Seq(Frame), open # <<>>, StackOK(open), NEW entry \in Last(open).left,
         NEW left \in SUBSET Entry, \A d, e \in left : d.name = e.name => d = e
  PROVE  LET frame == [path |-> Append(Last(open).path, entry.name), left |-> left]
         IN  /\ frame \in Frame
             /\ StackOK(Append(Past(open, entry), frame))
<1> DEFINE p == Append(Last(open).path, entry.name)
           frame == [path |-> p, left |-> left]
           past == Past(open, entry)
           n == Len(open)
           more == Append(past, frame)
<1>1. /\ n \in DOMAIN open /\ DOMAIN open = 1 .. n /\ Last(open) = open[n] /\ n \in Nat
      /\ \A k \in DOMAIN open : /\ open[k].path \in Path
                                /\ \A e \in open[k].left : e.name \in Nat
  BY FramesAre
<1>2. p \in Path /\ IsStrictPrefix(open[n].path, p)
  <2>1. open[n].path \in Path /\ entry.name \in Nat /\ p = Append(open[n].path, entry.name)
    BY <1>1
  <2> HIDE DEF p, n
  <2> QED
    BY <2>1, AppendedName, PrefixAppended
<1>3. frame \in Frame
  BY <1>2 DEF Frame
<1>4. /\ past \in Seq(Frame) /\ Len(past) = n /\ DOMAIN past = DOMAIN open
      /\ \A k \in DOMAIN open : past[k].path = open[k].path
  BY PastIs
<1>5. StackOK(past)
  BY PastStaysOK
<1>6. ~AheadOf(past, p)
  <2>1. IsPrefix(p, p)
    BY <1>2, PrefixFacts
  <2> QED
    BY <1>2, <2>1, PastAhead
<1>7. frame.path = p /\ frame.left = left
  OBVIOUS
<1> HIDE DEF past, frame, p
<1>8. /\ DOMAIN more = DOMAIN past \cup {n + 1} /\ more[n + 1] = frame
      /\ \A k \in DOMAIN past : more[k] = past[k]
  BY <1>3, <1>4, OpenedIs
<1> HIDE DEF more
<1>9. ASSUME NEW j \in 1 .. n
      PROVE  /\ IsStrictPrefix(past[j].path, p)
             /\ \A e \in past[j].left : ~IsPrefix(Append(past[j].path, e.name), p)
  <2>1. j \in DOMAIN past /\ j \in DOMAIN open /\ past[j].path = open[j].path /\ open[j].path \in Path
    BY <1>1, <1>4
  <2>2. \A e \in past[j].left : ~IsPrefix(Append(past[j].path, e.name), p)
    BY <1>6, <2>1 DEF AheadOf
  <2>3. CASE j = n
    BY <1>2, <2>1, <2>2, <2>3
  <2>4. CASE j # n
    <3>1. j \in 1 .. n - 1
      <4> HIDE DEF n
      <4> QED
        BY <1>1, <2>4
    <3>2. IsStrictPrefix(open[j].path, open[n].path)
      BY <1>1, <3>1 DEF StackOK
    <3>3. /\ IsPrefix(open[j].path, open[n].path) /\ Len(open[j].path) < Len(open[n].path)
          /\ IsPrefix(open[n].path, p) /\ Len(open[n].path) < Len(p)
      BY <1>1, <1>2, <2>1, <3>2, PrefixFacts
    <3>4. IsPrefix(open[j].path, p)
      BY <1>1, <1>2, <2>1, <3>3, PrefixTransitive
    <3>5. Len(open[j].path) \in Nat /\ Len(open[n].path) \in Nat /\ Len(p) \in Nat
      BY <1>1, <1>2, <2>1, LenProperties DEF Path
    <3>6. Len(open[j].path) < Len(p)
      BY <3>3, <3>5
    <3> QED
      BY <1>2, <2>1, <2>2, <3>4, <3>6, PrefixFacts
  <2> QED
    BY <2>3, <2>4
<1>10. ASSUME NEW k \in DOMAIN more
       PROVE  /\ \A d, e \in more[k].left : d.name = e.name => d = e
              /\ \A j \in 1 .. k - 1 :
                   /\ IsStrictPrefix(more[j].path, more[k].path)
                   /\ \A e \in more[j].left : ~IsPrefix(Append(more[j].path, e.name), more[k].path)
  <2>1. CASE k = n + 1
    <3>1. \A j \in 1 .. k - 1 : j \in 1 .. n /\ j \in DOMAIN past
      BY <1>1, <1>4, <2>1
    <3>2. \A j \in 1 .. k - 1 : more[j] = past[j]
      BY <1>8, <3>1
    <3> QED
      BY <1>7, <1>8, <1>9, <2>1, <3>1, <3>2
  <2>2. CASE k \in DOMAIN past
    <3>1. \A j \in 1 .. k - 1 : j \in DOMAIN past
      BY <1>1, <1>4, <2>2
    <3>2. more[k] = past[k] /\ \A j \in 1 .. k - 1 : more[j] = past[j]
      BY <1>8, <2>2, <3>1
    <3> QED
      BY <1>5, <2>2, <3>2 DEF StackOK
  <2> QED
    BY <1>8, <2>1, <2>2
<1>11. StackOK(more)
  BY <1>10 DEF StackOK
<1> QED
  BY <1>3, <1>11 DEF more, past, frame, p

\* A directory is left when its iterator is at the end.
LEMMA ClosedIs ==
  ASSUME NEW open \in Seq(Frame), open # <<>>
  PROVE  /\ Front(open) \in Seq(Frame) /\ Len(open) \in Nat
         /\ DOMAIN open = 1 .. Len(open) /\ DOMAIN Front(open) = 1 .. Len(open) - 1
         /\ DOMAIN Front(open) \subseteq DOMAIN open
         /\ \A k \in DOMAIN Front(open) : Front(open)[k] = open[k]
         /\ StackOK(open) => StackOK(Front(open))
         /\ Last(open).left = {} => \A q : AheadOf(open, q) => AheadOf(Front(open), q)
         /\ \A q : AheadOf(Front(open), q) => AheadOf(open, q)
<1> DEFINE n == Len(open)
           less == Front(open)
<1>1. /\ n \in Nat /\ n \in 1 .. n /\ DOMAIN open = 1 .. n /\ Last(open) = open[n]
      /\ \A k \in 1 .. n : open[k] \in Frame
  BY FramesAre
<1>2. less = SubSeq(open, 1, n - 1) /\ n - 1 \in Nat /\ n - 1 \in Int /\ 1 \in Int
  BY <1>1 DEF Front
<1>3. \A k \in 1 .. n - 1 : open[k] \in Frame
  BY <1>1
<1> HIDE DEF less
<1> DEFINE m == n - 1
<1>4. m \in Nat /\ n = m + 1 /\ \A k \in 1 .. m : open[k] \in Frame
  BY <1>1, <1>2, <1>3
<1>5. less = SubSeq(open, 1, m)
  BY <1>2
<1> HIDE DEF m, n
<1>6. /\ less \in Seq(Frame) /\ Len(less) = IF 1 <= m THEN m - 1 + 1 ELSE 0
      /\ \A k \in 1 .. m - 1 + 1 : less[k] = open[1 + k - 1]
  <2>1. m \in Int /\ 1 \in Int
    BY <1>4
  <2> QED
    BY <1>4, <1>5, <2>1, SubSeqProperties
<1>7. Len(less) = m /\ \A k \in 1 .. m : less[k] = open[k]
  BY <1>4, <1>6
<1>8. DOMAIN less = 1 .. m /\ DOMAIN open = 1 .. n
  BY <1>1, <1>6, <1>7, LenProperties
<1>9. DOMAIN less \subseteq DOMAIN open /\ \A k \in DOMAIN open : k \in DOMAIN less \/ k = n
  BY <1>4, <1>8
<1>13. DOMAIN less = 1 .. Len(open) - 1 /\ DOMAIN open = 1 .. Len(open) /\ Len(open) \in Nat
  BY <1>1, <1>8 DEF m, n
<1>10. ASSUME StackOK(open) PROVE StackOK(less)
  <2>1. \A k \in DOMAIN less : \A j \in 1 .. k - 1 : j \in DOMAIN less
    BY <1>4, <1>8
  <2> QED
    BY <1>7, <1>8, <1>9, <1>10, <2>1 DEF StackOK
<1>11. Last(open).left = {} => \A q : AheadOf(open, q) => AheadOf(less, q)
  BY <1>1, <1>7, <1>8, <1>9 DEF AheadOf
<1>12. \A q : AheadOf(less, q) => AheadOf(open, q)
  BY <1>7, <1>8, <1>9 DEF AheadOf
<1> QED
  BY <1>6, <1>7, <1>8, <1>9, <1>10, <1>11, <1>12, <1>13 DEF less

-----------------------------------------------------------------------------
(***************************************************************************)
(* Real names.                                                             *)
(***************************************************************************)
LEMMA GreatestIs ==
  ASSUME NEW n \in Nat, NEW S, S \subseteq 0 .. n, S # {}
  PROVE  Max(S) \in S /\ \A x \in S : x <= Max(S)
<1> DEFINE below == {n - x : x \in S}
<1>1. below \subseteq Nat /\ below # {}
  <2>1. \A x \in S : x \in Nat /\ x <= n
    OBVIOUS
  <2>2. \A x \in S : n - x \in Nat
    BY <2>1
  <2> QED
    BY <2>2, Zenon
<1>2. PICK b \in below : \A c \in below : b <= c
  <2> HIDE DEF below
  <2> QED
    BY <1>1, LeastNumber
<1>3. PICK x \in S : b = n - x
  BY <1>2
<1>4. \A y \in S : n - y \in below
  OBVIOUS
<1>5. \A y \in S : x >= y
  <2> SUFFICES ASSUME NEW y \in S PROVE x >= y
    OBVIOUS
  <2>1. n - x <= n - y
    BY <1>2, <1>3, <1>4
  <2>2. x \in 0 .. n /\ y \in 0 .. n
    OBVIOUS
  <2> QED
    BY <2>1, <2>2
<1>6. Max(S) \in S /\ \A y \in S : Max(S) >= y
  BY <1>5 DEF Max
<1>7. \A y \in S : y \in 0 .. n
  OBVIOUS
<1> QED
  BY <1>6, <1>7

LEMMA LeastOfTwo ==
  ASSUME NEW m \in Nat, NEW n \in Nat
  PROVE  Min({m, n}) \in {m, n} /\ Min({m, n}) <= m /\ Min({m, n}) <= n
<1>1. \E x \in {m, n} : \A y \in {m, n} : x <= y
  OBVIOUS
<1>2. Min({m, n}) \in {m, n} /\ \A y \in {m, n} : Min({m, n}) <= y
  BY <1>1 DEF Min
<1> QED
  BY <1>2

LEMMA PathBack ==
  ASSUME NEW p \in Path, NEW n \in 0 .. Len(p)
  PROVE  /\ SubSeq(p, n + 1, Len(p)) \in Path /\ Len(SubSeq(p, n + 1, Len(p))) = Len(p) - n
         /\ \A k \in 1 .. Len(p) - n : SubSeq(p, n + 1, Len(p))[k] = p[n + k]
<1> DEFINE back == SubSeq(p, n + 1, Len(p))
<1>1. Len(p) \in Nat /\ n \in Nat /\ n <= Len(p) /\ \A k \in 1 .. Len(p) : p[k] \in Nat
  BY LenProperties, ElementOfSeq DEF Path
<1>2. \A k \in n + 1 .. Len(p) : p[k] \in Nat
  BY <1>1
<1>3. /\ back \in Seq(Nat) /\ Len(back) = IF n + 1 <= Len(p) THEN Len(p) - (n + 1) + 1 ELSE 0
      /\ \A k \in 1 .. Len(p) - (n + 1) + 1 : back[k] = p[(n + 1) + k - 1]
  BY <1>1, <1>2, SubSeqProperties
<1> HIDE DEF back
<1>4. Len(back) = Len(p) - n
  BY <1>1, <1>3
<1>5. ASSUME NEW k \in 1 .. Len(p) - n PROVE back[k] = p[n + k]
  <2>1. k \in 1 .. Len(p) - (n + 1) + 1 /\ (n + 1) + k - 1 = n + k
    BY <1>1
  <2> QED
    BY <1>3, <2>1
<1> QED
  BY <1>3, <1>4, <1>5 DEF back, Path

LEMMA Joined ==
  ASSUME NEW p \in Path, NEW q \in Path
  PROVE  /\ p \o q \in Path /\ Len(p \o q) = Len(p) + Len(q) /\ Len(p) \in Nat /\ Len(q) \in Nat
         /\ \A k \in 1 .. Len(p) : (p \o q)[k] = p[k]
         /\ \A k \in 1 .. Len(q) : (p \o q)[Len(p) + k] = q[k]
<1>1. Len(p) \in Nat /\ Len(q) \in Nat
  BY LenProperties DEF Path
<1>2. /\ p \o q \in Path /\ Len(p \o q) = Len(p) + Len(q)
      /\ \A k \in 1 .. Len(p) + Len(q) : (p \o q)[k] = IF k <= Len(p) THEN p[k] ELSE q[k - Len(p)]
  BY ConcatProperties DEF Path
<1>3. \A k \in 1 .. Len(p) : (p \o q)[k] = p[k]
  BY <1>1, <1>2
<1>4. ASSUME NEW k \in 1 .. Len(q) PROVE (p \o q)[Len(p) + k] = q[k]
  <2>1. /\ Len(p) + k \in 1 .. Len(p) + Len(q) /\ ~(Len(p) + k <= Len(p))
        /\ (Len(p) + k) - Len(p) = k
    BY <1>1
  <2> QED
    BY <1>2, <2>1
<1> QED
  BY <1>1, <1>2, <1>3, <1>4

LEMMA JoinedThrice ==
  ASSUME NEW p \in Path, NEW q \in Path, NEW r \in Path
  PROVE  (p \o q) \o r = p \o (q \o r)
<1> DEFINE pq == p \o q
           qr == q \o r
           left == pq \o r
           right == p \o qr
           a == Len(p)
           b == Len(q)
           c == Len(r)
<1>1. /\ pq \in Path /\ Len(pq) = a + b /\ a \in Nat /\ b \in Nat /\ c \in Nat
      /\ \A k \in 1 .. a : pq[k] = p[k]
      /\ \A k \in 1 .. b : pq[a + k] = q[k]
  BY Joined
<1>2. /\ qr \in Path /\ Len(qr) = b + c
      /\ \A k \in 1 .. b : qr[k] = q[k]
      /\ \A k \in 1 .. c : qr[b + k] = r[k]
  BY Joined
<1> HIDE DEF pq, qr
<1>3. /\ left \in Path /\ Len(left) = Len(pq) + c
      /\ \A k \in 1 .. Len(pq) : left[k] = pq[k]
      /\ \A k \in 1 .. c : left[Len(pq) + k] = r[k]
  BY <1>1, Joined
<1>4. /\ right \in Path /\ Len(right) = a + Len(qr)
      /\ \A k \in 1 .. a : right[k] = p[k]
      /\ \A k \in 1 .. Len(qr) : right[a + k] = qr[k]
  BY <1>2, Joined
<1> HIDE DEF left, right, a, b, c
<1>5. Len(left) = Len(right) /\ Len(left) = a + b + c
  BY <1>1, <1>2, <1>3, <1>4
<1>6. ASSUME NEW k \in 1 .. Len(left) PROVE left[k] = right[k]
  <2>1. CASE k <= a
    BY <1>1, <1>3, <1>4, <2>1
  <2>2. CASE a < k /\ k <= a + b
    <3> DEFINE i == k - a
    <3>1. i \in 1 .. b /\ i \in 1 .. b + c /\ a + i = k /\ k \in 1 .. a + b
      BY <1>1, <2>2
    <3> HIDE DEF i
    <3>2. pq[k] = q[i] /\ qr[i] = q[i]
      BY <1>1, <1>2, <3>1
    <3>3. left[k] = pq[k] /\ right[k] = qr[i]
      BY <1>1, <1>2, <1>3, <1>4, <3>1
    <3> QED
      BY <3>2, <3>3
  <2>3. CASE a + b < k
    <3> DEFINE i == k - (a + b)
    <3>1. i \in 1 .. c /\ (a + b) + i = k /\ b + i \in 1 .. b + c /\ a + (b + i) = k
      BY <1>1, <1>5, <2>3
    <3> HIDE DEF i
    <3>2. left[k] = r[i]
      BY <1>1, <1>3, <3>1
    <3>3. right[k] = qr[b + i]
      BY <1>2, <1>4, <3>1
    <3> QED
      BY <1>2, <3>1, <3>2, <3>3
  <2>4. k <= a \/ (a < k /\ k <= a + b) \/ a + b < k
    BY <1>1
  <2> QED
    BY <2>1, <2>2, <2>3, <2>4
<1>7. left = right
  BY <1>3, <1>4, <1>5, <1>6, SamePath
<1> QED
  BY <1>7 DEF left, right, pq, qr

\* A path is its first names and the rest.
LEMMA PathParts ==
  ASSUME NEW p \in Path, NEW n \in 0 .. Len(p)
  PROVE  SubSeq(p, 1, n) \o SubSeq(p, n + 1, Len(p)) = p
<1> DEFINE front == SubSeq(p, 1, n)
           back == SubSeq(p, n + 1, Len(p))
<1>1. front \in Path /\ Len(front) = n /\ \A k \in 1 .. n : front[k] = p[k]
  BY PathFront
<1>2. back \in Path /\ Len(back) = Len(p) - n /\ \A k \in 1 .. Len(p) - n : back[k] = p[n + k]
  BY PathBack
<1> HIDE DEF front, back
<1>3. /\ front \o back \in Path /\ Len(front \o back) = Len(front) + Len(back)
      /\ \A k \in 1 .. Len(front) : (front \o back)[k] = front[k]
      /\ \A k \in 1 .. Len(back) : (front \o back)[Len(front) + k] = back[k]
  BY <1>1, <1>2, Joined
<1>4. Len(p) \in Nat /\ n \in Nat /\ n <= Len(p)
  BY LenProperties DEF Path
<1>5. Len(front \o back) = Len(p)
  BY <1>1, <1>2, <1>3, <1>4
<1>6. ASSUME NEW k \in 1 .. Len(p) PROVE (front \o back)[k] = p[k]
  <2>1. CASE k <= n
    BY <1>1, <1>3, <1>4, <2>1
  <2>2. CASE k > n
    <3>1. k - n \in 1 .. Len(p) - n /\ n + (k - n) = k
      BY <1>4, <2>2
    <3> QED
      BY <1>1, <1>2, <1>3, <3>1
  <2>3. k <= n \/ k > n
    BY <1>4
  <2> QED
    BY <2>1, <2>2, <2>3
<1>7. front \o back = p
  BY <1>3, <1>5, <1>6, SamePath
<1> QED
  BY <1>7 DEF front, back

LEMMA FrontOfJoined ==
  ASSUME NEW p \in Path, NEW q \in Path, NEW n \in 0 .. Len(p)
  PROVE  /\ SubSeq(p \o q, 1, n) = SubSeq(p, 1, n)
         /\ SubSeq(p \o q, Len(p) + 1, Len(p \o q)) = q
<1> DEFINE r == p \o q
<1>1. /\ r \in Path /\ Len(r) = Len(p) + Len(q) /\ Len(p) \in Nat /\ Len(q) \in Nat
      /\ \A k \in 1 .. Len(p) : r[k] = p[k]
      /\ \A k \in 1 .. Len(q) : r[Len(p) + k] = q[k]
  BY Joined
<1> HIDE DEF r
<1>2. n \in 0 .. Len(r) /\ Len(p) \in 0 .. Len(r) /\ Len(r) - Len(p) = Len(q)
  BY <1>1
<1>3. SubSeq(r, 1, n) = SubSeq(p, 1, n)
  <2>1. /\ SubSeq(r, 1, n) \in Path /\ Len(SubSeq(r, 1, n)) = n
        /\ \A k \in 1 .. n : SubSeq(r, 1, n)[k] = r[k]
    BY <1>1, <1>2, PathFront
  <2>2. /\ SubSeq(p, 1, n) \in Path /\ Len(SubSeq(p, 1, n)) = n
        /\ \A k \in 1 .. n : SubSeq(p, 1, n)[k] = p[k]
    BY PathFront
  <2>3. \A k \in 1 .. n : k \in 1 .. Len(p)
    BY <1>1
  <2> QED
    BY <1>1, <2>1, <2>2, <2>3, SamePath
<1>4. SubSeq(r, Len(p) + 1, Len(r)) = q
  <2>1. /\ SubSeq(r, Len(p) + 1, Len(r)) \in Path /\ Len(SubSeq(r, Len(p) + 1, Len(r))) = Len(q)
        /\ \A k \in 1 .. Len(q) : SubSeq(r, Len(p) + 1, Len(r))[k] = r[Len(p) + k]
    BY <1>1, <1>2, PathBack
  <2> QED
    BY <1>1, <2>1, SamePath
<1> QED
  BY <1>3, <1>4 DEF r

\* How many names two paths have in common at most.
SharedFronts(to, base) == {k \in 0 .. Min({Len(to), Len(base)}) : SubSeq(to, 1, k) = SubSeq(base, 1, k)}

LEMMA SharedIs ==
  ASSUME NEW to \in Path, NEW base \in Path
  PROVE  /\ Max(SharedFronts(to, base)) \in SharedFronts(to, base)
         /\ Max(SharedFronts(to, base)) \in 0 .. Len(to) /\ Max(SharedFronts(to, base)) \in 0 .. Len(base)
         /\ \A k \in SharedFronts(to, base) : k <= Max(SharedFronts(to, base))
<1> DEFINE least == Min({Len(to), Len(base)})
           shared == SharedFronts(to, base)
<1>1. Len(to) \in Nat /\ Len(base) \in Nat
  BY LenProperties DEF Path
<1>2. least \in Nat /\ least <= Len(to) /\ least <= Len(base)
  BY <1>1, LeastOfTwo
<1>3. shared \subseteq 0 .. least
  BY DEF SharedFronts
<1>4. 0 \in shared
  <2>1. SubSeq(to, 1, 0) = <<>> /\ SubSeq(base, 1, 0) = <<>>
    BY SubSeqEmpty
  <2>2. 0 \in 0 .. least
    BY <1>2
  <2> HIDE DEF least
  <2> QED
    BY <2>1, <2>2 DEF SharedFronts, least
<1> HIDE DEF least, shared
<1>5. Max(shared) \in shared /\ \A k \in shared : k <= Max(shared)
  BY <1>2, <1>3, <1>4, GreatestIs
<1>6. Max(shared) \in 0 .. Len(to) /\ Max(shared) \in 0 .. Len(base)
  <2>1. Max(shared) \in 0 .. least
    BY <1>3, <1>5
  <2> QED
    BY <1>1, <1>2, <2>1
<1> QED
  BY <1>5, <1>6 DEF shared

LEMMA RelativeIs ==
  ASSUME NEW to \in Path, NEW base \in Path
  PROVE  Relative(to, base) \in [up : Nat, down : Path]
<1> DEFINE shared == Max(SharedFronts(to, base))
<1>1. Relative(to, base) = [up |-> Len(base) - shared, down |-> SubSeq(to, shared + 1, Len(to))]
  BY DEF Relative, SharedFronts
<1>2. shared \in 0 .. Len(to) /\ shared \in 0 .. Len(base) /\ Len(base) \in Nat
  BY SharedIs, LenProperties DEF Path
<1> HIDE DEF shared
<1>3. SubSeq(to, shared + 1, Len(to)) \in Path
  BY <1>2, PathBack
<1>4. Len(base) - shared \in Nat
  BY <1>2
<1> QED
  BY <1>1, <1>3, <1>4

\* From a directory to what is below it, only downwards.
LEMMA RelativeBelow ==
  ASSUME NEW base \in Path, NEW p \in Path
  PROVE  Relative(base \o p, base) = [up |-> 0, down |-> p]
<1> DEFINE to == base \o p
           shared == Max(SharedFronts(to, base))
<1>1. to \in Path /\ Len(to) = Len(base) + Len(p) /\ Len(base) \in Nat /\ Len(p) \in Nat
  BY Joined
<1>2. Len(base) \in SharedFronts(to, base)
  <2>1. Len(base) \in 0 .. Len(base)
    BY <1>1
  <2>2. SubSeq(to, 1, Len(base)) = SubSeq(base, 1, Len(base))
    BY <2>1, FrontOfJoined
  <2>3. Min({Len(to), Len(base)}) \in {Len(to), Len(base)} /\ Len(to) \in Nat
    BY <1>1, LeastOfTwo
  <2> HIDE DEF to
  <2>4. Len(base) \in 0 .. Min({Len(to), Len(base)})
    BY <1>1, <2>3
  <2> QED
    BY <2>2, <2>4 DEF SharedFronts
<1>3. shared = Len(base)
  <2> HIDE DEF to
  <2>1. shared \in 0 .. Len(base) /\ Len(base) <= shared
    BY <1>1, <1>2, SharedIs
  <2> HIDE DEF shared
  <2> QED
    BY <1>1, <2>1
<1>4. Relative(to, base) = [up |-> Len(base) - shared, down |-> SubSeq(to, shared + 1, Len(to))]
  BY DEF Relative, SharedFronts
<1>5. SubSeq(to, Len(base) + 1, Len(to)) = p
  <2>1. 0 \in 0 .. Len(base)
    BY <1>1
  <2> QED
    BY <2>1, FrontOfJoined
<1>6. Len(base) - Len(base) = 0
  BY <1>1
<1> HIDE DEF to, shared
<1>7. Relative(to, base) = [up |-> 0, down |-> p]
  BY <1>3, <1>4, <1>5, <1>6
<1> QED
  BY <1>7 DEF to

LEMMA RootIs ==
  ASSUME NEW fs, NEW there
  PROVE  /\ NodesIn(fs, there, <<>>) = {Root} \cap there
         /\ KindsIn(fs, there, <<>>) \subseteq {fs.kind[Root]}
<1>1. PlacesIn(fs, there, <<>>) = StartIn(there)
  BY PlacesStep
<1>2. NodesIn(fs, there, <<>>) = {Root} \cap there
  <2>1. \A node \in {Root} \cap there : [node |-> node, links |-> 0].node = node
    OBVIOUS
  <2>2. ASSUME NEW node \in NodesIn(fs, there, <<>>) PROVE node \in {Root} \cap there
    BY <1>1, <2>1 DEF NodesIn, StartIn
  <2>3. ASSUME NEW node \in {Root} \cap there PROVE node \in NodesIn(fs, there, <<>>)
    <3>1. [node |-> node, links |-> 0] \in PlacesIn(fs, there, <<>>)
      BY <1>1 DEF StartIn
    <3> QED
      BY <2>1, <3>1 DEF NodesIn
  <2> QED
    BY <2>2, <2>3
<1> QED
  BY <1>2 DEF KindsIn

UnlinkedIn(fs, path) == \E place \in PlacesIn(fs, Node, path) : place.links = 0

LEMMA UnlinkedNow ==
  ASSUME NEW path
  PROVE  Unlinked(path) <=> UnlinkedIn(tree, path)
<1>1. Way(Node, path) = WayIn(tree, Node, path)
  BY WayNow
<1> QED
  BY <1>1 DEF Unlinked, UnlinkedIn, PlacesIn

LEMMA LocationsAre ==
  ASSUME NEW fs, IsFileSystem(fs), NEW node \in Node
  PROVE  fs.location[node] \in Path
BY DEF IsFileSystem, Path

\* The last step of a path without links.
LEMMA UnlinkedStep ==
  ASSUME NEW fs, IsFileSystem(fs), NEW p \in Path, NEW x \in Nat,
         NEW a \in PlacesIn(fs, Node, Append(p, x)), a.links = 0
  PROVE  \E from \in PlacesIn(fs, Node, p) :
           from.links = 0 /\ fs.location[a.node] = Append(fs.location[from.node], x)
<1>1. a \in FollowIn(fs, Node, PlacesIn(fs, Node, p), x)
  BY PlacesStep
<1>2. PICK from \in PlacesIn(fs, Node, p) : \E e \in fs.entries[from.node] :
         e.name = x /\ a = [node |-> e.node, links |-> from.links + (IF e.link THEN 1 ELSE 0)]
  BY <1>1, Followed
<1>3. PICK e \in fs.entries[from.node] :
         e.name = x /\ a = [node |-> e.node, links |-> from.links + (IF e.link THEN 1 ELSE 0)]
  BY <1>2
<1>4. from.node \in Node /\ from.links \in Nat
  <2>1. from \in Place
    BY OnePlace
  <2> QED
    BY <2>1 DEF Place
<1>5. a.node = e.node /\ from.links + (IF e.link THEN 1 ELSE 0) = 0
  BY <1>3
<1>6. from.links = 0 /\ ~e.link
  BY <1>4, <1>5
<1>7. fs.location[e.node] = Append(fs.location[from.node], e.name)
  BY <1>4, <1>6 DEF IsFileSystem
<1> QED
  BY <1>3, <1>5, <1>6, <1>7

\* Without links, a path leads to where its names say.
LEMMA UnlinkedLocation ==
  ASSUME NEW fs, IsFileSystem(fs), NEW path \in Path, NEW a \in PlacesIn(fs, Node, path), a.links = 0
  PROVE  fs.location[a.node] = fs.location[Root] \o path
<1> DEFINE start == fs.location[Root]
           good == {p \in Path : \A b \in PlacesIn(fs, Node, p) :
                                   b.links = 0 => fs.location[b.node] = start \o p}
<1>1. start \in Path
  BY BenchmarkAssumption, LocationsAre
<1>2. <<>> \in good
  <2>1. <<>> \in Path /\ PlacesIn(fs, Node, <<>>) = StartIn(Node)
    BY EmptySeq, PlacesStep DEF Path
  <2>2. \A b \in StartIn(Node) : b.node = Root
    BY DEF StartIn
  <2>3. start \o <<>> = start
    BY <1>1, ConcatEmptySeq DEF Path
  <2> QED
    BY <2>1, <2>2, <2>3
<1> HIDE DEF start
<1>3. ASSUME NEW p \in Path, NEW x \in Nat, p \in good PROVE Append(p, x) \in good
  <2>1. Append(p, x) \in Path
    BY AppendedName
  <2>2. ASSUME NEW b \in PlacesIn(fs, Node, Append(p, x)), b.links = 0
        PROVE  fs.location[b.node] = start \o Append(p, x)
    <3>1. PICK from \in PlacesIn(fs, Node, p) :
             from.links = 0 /\ fs.location[b.node] = Append(fs.location[from.node], x)
      BY <2>2, UnlinkedStep
    <3>2. fs.location[from.node] = start \o p
      BY <1>3, <3>1
    <3>3. Append(start \o p, x) = start \o Append(p, x)
      <4>1. start \o p \in Path /\ <<x>> \in Path
        BY <1>1, Joined DEF Path
      <4>2. Append(start \o p, x) = (start \o p) \o <<x>> /\ Append(p, x) = p \o <<x>>
        BY <4>1, AppendIsConcat DEF Path
      <4>3. (start \o p) \o <<x>> = start \o (p \o <<x>>)
        BY <1>1, <4>1, JoinedThrice, Zenon
      <4> QED
        BY <4>2, <4>3
    <3> QED
      BY <3>1, <3>2, <3>3
  <2> QED
    BY <2>1, <2>2
<1> HIDE DEF good
<1>4. path \in good
  BY <1>2, <1>3, AllPaths
<1> QED
  BY <1>4 DEF good, start

\* What leads to a path without links is without links.
LEMMA UnlinkedFront ==
  ASSUME NEW fs, IsFileSystem(fs), NEW path \in Path, UnlinkedIn(fs, path), NEW n \in 0 .. Len(path)
  PROVE  UnlinkedIn(fs, SubSeq(path, 1, n))
<1> DEFINE good == {p \in Path : UnlinkedIn(fs, p) => \A k \in 0 .. Len(p) : UnlinkedIn(fs, SubSeq(p, 1, k))}
<1>1. <<>> \in good
  <2>1. <<>> \in Path /\ Len(<<>>) = 0
    BY EmptySeq DEF Path
  <2>2. ASSUME NEW k \in 0 .. Len(<<>>) PROVE SubSeq(<<>>, 1, k) = <<>>
    <3>1. k = 0
      BY <2>1
    <3> QED
      BY <3>1, SubSeqEmpty
  <2> QED
    BY <2>1, <2>2
<1>2. ASSUME NEW p \in Path, NEW x \in Nat, p \in good PROVE Append(p, x) \in good
  <2> DEFINE q == Append(p, x)
  <2>1. q \in Path /\ Len(q) = Len(p) + 1 /\ Len(p) \in Nat
    BY AppendedName
  <2>2. ASSUME UnlinkedIn(fs, q), NEW k \in 0 .. Len(q) PROVE UnlinkedIn(fs, SubSeq(q, 1, k))
    <3>1. CASE k = Len(q)
      BY <2>1, <2>2, <3>1, SubSeqFull DEF Path
    <3>2. CASE k # Len(q)
      <4>1. k \in 0 .. Len(p)
        BY <2>1, <3>2
      <4>2. SubSeq(q, 1, k) = SubSeq(p, 1, k)
        BY <4>1, FrontOfAppended
      <4>3. PICK a \in PlacesIn(fs, Node, q) : a.links = 0
        BY <2>2 DEF UnlinkedIn
      <4>4. UnlinkedIn(fs, p)
        BY <4>3, UnlinkedStep DEF UnlinkedIn
      <4> QED
        BY <1>2, <4>1, <4>2, <4>4
    <3> QED
      BY <3>1, <3>2
  <2> HIDE DEF q
  <2> QED
    BY <2>1, <2>2 DEF q
<1> HIDE DEF good
<1>3. path \in good
  BY <1>1, <1>2, AllPaths
<1> QED
  BY <1>3 DEF good

\* A front of a path leads where the way along the path has come to.
LEMMA FrontPlaces ==
  ASSUME NEW fs, NEW there, NEW path \in Path, NEW k \in 0 .. Len(path)
  PROVE  PlacesIn(fs, there, SubSeq(path, 1, k)) = WayIn(fs, there, path)[k]
<1> DEFINE front == SubSeq(path, 1, k)
<1>1. front \in Path /\ Len(front) = k /\ \A n \in 1 .. k : front[n] = path[n]
  BY PathFront
<1>2. k \in Nat /\ k <= Len(path) /\ k <= Len(front)
  BY <1>1, LenProperties DEF Path
<1> HIDE DEF front
<1>3. WayIn(fs, there, front)[k] = WayIn(fs, there, path)[k]
  BY <1>1, <1>2, SameWay
<1>4. PlacesIn(fs, there, front) = WayIn(fs, there, path)[k]
  BY <1>1, <1>3 DEF PlacesIn
<1> QED
  BY <1>4 DEF front

\* The real path is where some of the names lead, and the names that follow; where
\* all of them lead if that is still there.
LEMMA RealPathIs ==
  ASSUME IsFileSystem(tree), present \subseteq Node, NEW path \in Path
  PROVE  \E k \in 0 .. Len(path), node \in Node :
           /\ RealPath(path) = tree.location[node] \o SubSeq(path, k + 1, Len(path))
           /\ (k = 0 /\ node = Root) \/ node \in NodesIn(tree, present, SubSeq(path, 1, k))
           /\ NodesIn(tree, present, path) # {} => k = Len(path)
<1> DEFINE n == Len(path)
           fronts == {0} \cup {k \in 1 .. n : WayIn(tree, present, path)[k] # {}}
           reach == Max(fronts)
           from == IF reach = 0 THEN Root ELSE (CHOOSE place \in WayIn(tree, present, path)[reach] : TRUE).node
<1>1. Way(present, path) = WayIn(tree, present, path)
  BY WayNow
<1>2. Reach(path) = reach
  BY <1>1 DEF Reach
<1>3. RealPath(path) = tree.location[from] \o SubSeq(path, reach + 1, n)
  BY <1>1, <1>2 DEF RealPath
<1>4. n \in Nat
  BY LenProperties DEF Path
<1>5. fronts \subseteq 0 .. n /\ fronts # {}
  BY <1>4
<1>6. reach \in fronts /\ \A k \in fronts : k <= reach
  <2> HIDE DEF fronts
  <2> QED
    BY <1>4, <1>5, GreatestIs
<1>7. reach \in 0 .. n /\ (reach # 0 => WayIn(tree, present, path)[reach] # {})
  <2>1. \A k \in fronts : k \in 0 .. n /\ (k # 0 => WayIn(tree, present, path)[k] # {})
    BY <1>4
  <2> HIDE DEF fronts
  <2> QED
    BY <1>6, <2>1
<1>8. reach # 0 => from \in NodesIn(tree, present, SubSeq(path, 1, reach))
  <2>1. PlacesIn(tree, present, SubSeq(path, 1, reach)) = WayIn(tree, present, path)[reach]
    BY <1>7, FrontPlaces
  <2> HIDE DEF reach
  <2> QED
    BY <1>7, <2>1 DEF NodesIn
<1>9. from \in Node
  <2>1. CASE reach = 0
    BY <2>1, BenchmarkAssumption
  <2>2. CASE reach # 0
    <3>1. SubSeq(path, 1, reach) \in Path
      BY <1>7, PathFront
    <3> HIDE DEF from, reach
    <3> QED
      BY <1>8, <2>2, <3>1, OneNode
  <2> QED
    BY <2>1, <2>2
<1>10. ASSUME NodesIn(tree, present, path) # {} PROVE reach = n
  <2>1. n \in fronts
    <3>1. CASE n = 0
      BY <3>1
    <3>2. CASE n # 0
      <4>1. n \in 1 .. n
        BY <1>4, <3>2
      <4>2. WayIn(tree, present, path)[n] # {}
        BY <1>10 DEF NodesIn, PlacesIn
      <4> QED
        BY <4>1, <4>2
    <3> QED
      BY <3>1, <3>2
  <2>2. n <= reach
    <3> HIDE DEF fronts
    <3> QED
      BY <1>6, <2>1
  <2> HIDE DEF reach
  <2> QED
    BY <1>4, <1>7, <2>2
<1>11. reach = 0 => from = Root
  OBVIOUS
<1> HIDE DEF reach, from
<1> QED
  BY <1>3, <1>7, <1>8, <1>9, <1>10, <1>11 DEF n

\* The name in the report: of a file that is there, its place; of a path without
\* links, the path, whether or not anything of it is left.
LEMMA NameIs ==
  ASSUME IsFileSystem(tree), present \subseteq Node, NEW path \in Path
  PROVE  LET name == Relative(RealPath(path), tree.location[Root])
         IN  /\ name \in [up : Nat, down : Path]
             /\ \A node \in NodesIn(tree, present, path) :
                  name = Relative(tree.location[node], tree.location[Root])
             /\ UnlinkedIn(tree, path) => name = [up |-> 0, down |-> path]
<1> DEFINE start == tree.location[Root]
<1>1. PICK k \in 0 .. Len(path), from \in Node :
        /\ RealPath(path) = tree.location[from] \o SubSeq(path, k + 1, Len(path))
        /\ (k = 0 /\ from = Root) \/ from \in NodesIn(tree, present, SubSeq(path, 1, k))
        /\ NodesIn(tree, present, path) # {} => k = Len(path)
  BY RealPathIs
<1>2. /\ start \in Path /\ tree.location[from] \in Path /\ Len(path) \in Nat
      /\ SubSeq(path, 1, k) \in Path /\ SubSeq(path, k + 1, Len(path)) \in Path
  BY BenchmarkAssumption, LocationsAre, PathFront, PathBack, LenProperties DEF Path
<1>3. RealPath(path) \in Path
  <2>1. tree.location[from] \o SubSeq(path, k + 1, Len(path)) \in Path
    BY <1>2, Joined
  <2> QED
    BY <1>1, <2>1
<1> HIDE DEF start
<1>4. Relative(RealPath(path), start) \in [up : Nat, down : Path]
  BY <1>2, <1>3, RelativeIs
<1>5. ASSUME NEW node \in NodesIn(tree, present, path) PROVE RealPath(path) = tree.location[node]
  <2>1. k = Len(path)
    BY <1>1, <1>5
  <2>2. SubSeq(path, 1, k) = path /\ SubSeq(path, k + 1, Len(path)) = <<>>
    BY <1>2, <2>1, SubSeqFull, SubSeqEmpty DEF Path
  <2>3. from = node
    <3>1. CASE from \in NodesIn(tree, present, SubSeq(path, 1, k))
      BY <1>5, <2>2, <3>1, OneNode
    <3>2. CASE k = 0 /\ from = Root
      <4>1. path = <<>>
        BY <2>1, <3>2, EmptySeq DEF Path
      <4>2. node \in {Root} \cap present
        BY <1>5, <4>1, RootIs
      <4> QED
        BY <3>2, <4>2
    <3> QED
      BY <1>1, <3>1, <3>2
  <2>4. tree.location[from] \o <<>> = tree.location[from]
    BY <1>2, ConcatEmptySeq DEF Path
  <2> QED
    BY <1>1, <2>2, <2>3, <2>4
<1>6. ASSUME UnlinkedIn(tree, path) PROVE RealPath(path) = start \o path
  <2> DEFINE front == SubSeq(path, 1, k)
             back == SubSeq(path, k + 1, Len(path))
  <2>1. front \o back = path
    BY PathParts
  <2>2. UnlinkedIn(tree, front)
    BY <1>6, UnlinkedFront
  <2>3. front \in Path /\ back \in Path
    BY <1>2
  <2>4. tree.location[from] = start \o front
    <3>1. CASE k = 0 /\ from = Root
      <4>1. front = <<>>
        BY <3>1, SubSeqEmpty
      <4> QED
        BY <1>2, <3>1, <4>1, ConcatEmptySeq DEF start, Path
    <3>2. CASE from \in NodesIn(tree, present, front)
      <4> HIDE DEF front
      <4>1. PICK a \in PlacesIn(tree, Node, front) : a.links = 0
        BY <2>2 DEF UnlinkedIn
      <4>2. PICK b \in PlacesIn(tree, present, front) : from = b.node
        BY <3>2 DEF NodesIn
      <4>3. b \in PlacesIn(tree, Node, front)
        BY <2>3, <4>2, FewerPlaces
      <4>4. a = b
        BY <2>3, <4>3, OnePlace
      <4> QED
        BY <2>3, <4>1, <4>2, <4>4, UnlinkedLocation DEF start
    <3> QED
      BY <1>1, <3>1, <3>2
  <2>5. RealPath(path) = (start \o front) \o back
    BY <1>1, <2>4
  <2> HIDE DEF front, back
  <2>6. (start \o front) \o back = start \o (front \o back)
    <3>1. start \in Path
      BY <1>2
    <3> QED
      BY <2>3, <3>1, JoinedThrice, Zenon
  <2> QED
    BY <2>1, <2>5, <2>6
<1>7. UnlinkedIn(tree, path) => Relative(RealPath(path), start) = [up |-> 0, down |-> path]
  BY <1>2, <1>6, RelativeBelow
<1> QED
  BY <1>4, <1>5, <1>7 DEF start

-----------------------------------------------------------------------------
(***************************************************************************)
(* The inductive invariant.                                                *)
(***************************************************************************)
Result == [path : Path, name : [up : Nat, down : Path], winner : {"Huffman", "RLE"}]

TypeInv ==
  /\ tree \in Trees /\ present \subseteq Node
  /\ phase \in {"starting", "opening", "scanning", "measuring", "naming", "succeeded", "failed", "aborted"}
  /\ winner \in {"none", "Huffman", "RLE"}
  /\ stack \in Seq(Frame) /\ files \in Seq(Path) /\ results \in Seq(Result)
  /\ unmeasured \subseteq Path

PhaseInv ==
  /\ phase \in {"starting", "opening", "failed"} => stack = <<>> /\ files = <<>>
  /\ phase \in {"starting", "opening", "scanning", "failed"} => results = <<>>
  /\ phase \in {"measuring", "naming", "succeeded"} => stack = <<>>
  /\ phase = "naming" => files # <<>> /\ winner # "none"
  /\ phase = "succeeded" => files = <<>>
  /\ phase \notin {"starting", "failed"} => tree.kind[Root] \in Directories

\* What an iterator has left is in the directory, if that is still there.
ListInv ==
  /\ StackOK(stack)
  /\ \A k \in DOMAIN stack : \A node \in NodesIn(tree, present, stack[k].path) :
       stack[k].left \subseteq tree.entries[node]

\* No path is found twice, or will be.
FoundInv ==
  phase = "scanning" =>
    /\ \A i \in DOMAIN files : ~AheadOf(stack, files[i])
    /\ \A i, j \in DOMAIN files : files[i] = files[j] => i = j

OrderInv ==
  /\ phase \in {"measuring", "naming"} =>
       /\ \A i, j \in DOMAIN files : i < j => Precedes(files[i], files[j])
       /\ \A i \in DOMAIN results, j \in DOMAIN files : Precedes(results[i].path, files[j])
  /\ \A i, j \in DOMAIN results : i < j => Precedes(results[i].path, results[j].path)

\* What the names in the report say of files that are still there, and of those
\* that are not.
NamesInv ==
  \A i \in DOMAIN results :
    /\ \A node \in NodesIn(tree, present, results[i].path) :
         results[i].name = Relative(tree.location[node], tree.location[Root])
    /\ UnlinkedIn(tree, results[i].path) => results[i].name = [up |-> 0, down |-> results[i].path]

Found(path) ==
  \/ AheadOf(stack, path) \/ path \in Range(files) \/ path \in unmeasured
  \/ \E i \in DOMAIN results : results[i].path = path

\* A text file in its place is found, or an open directory leads to it.
CoverInv ==
  phase \in {"scanning", "measuring", "naming", "succeeded"} =>
    \A path \in Path : InPlaceIn(tree, present, path) => Found(path)

IInv == TypeInv /\ PhaseInv /\ ListInv /\ FoundInv /\ OrderInv /\ NamesInv /\ CoverInv

LEMMA TreeIs ==
  ASSUME TypeInv
  PROVE  IsFileSystem(tree) /\ present \subseteq Node
BY BenchmarkAssumption DEF TypeInv

LEMMA ListStays ==
  ASSUME ListInv, UNCHANGED <<tree, present, stack>>
  PROVE  ListInv'
BY DEF ListInv

LEMMA NamesStay ==
  ASSUME TypeInv, NamesInv, UNCHANGED <<tree, results>>, present' \subseteq present
  PROVE  NamesInv'
<1>1. \A i \in DOMAIN results : results[i].path \in Path
  <2>1. results \in Seq(Result) /\ DOMAIN results = 1 .. Len(results)
    BY LenProperties DEF TypeInv
  <2>2. \A i \in DOMAIN results : results[i] \in Result
    BY <2>1, ElementOfSeq
  <2> QED
    BY <2>2 DEF Result
<1>2. \A i \in DOMAIN results :
        NodesIn(tree, present', results[i].path) \subseteq NodesIn(tree, present, results[i].path)
  BY <1>1, FewerListed
<1> QED
  BY <1>2 DEF NamesInv

LEMMA StartOK == Init => IInv
<1> SUFFICES ASSUME Init PROVE IInv
  OBVIOUS
<1>1. <<>> \in Seq(Frame) /\ <<>> \in Seq(Path) /\ <<>> \in Seq(Result) /\ DOMAIN <<>> = {}
  BY EmptySeq
<1>2. TypeInv
  BY <1>1 DEF Init, TypeInv
<1>3. PhaseInv /\ FoundInv /\ CoverInv
  BY DEF Init, PhaseInv, FoundInv, CoverInv
<1>4. ListInv /\ OrderInv
  BY <1>1 DEF Init, ListInv, StackOK, OrderInv
<1>5. NamesInv
  BY <1>1 DEF Init, NamesInv
<1> QED
  BY <1>2, <1>3, <1>4, <1>5 DEF IInv

LEMMA CheckDirectoryOK == ASSUME IInv, CheckDirectory PROVE IInv'
<1>1. UNCHANGED <<tree, present, stack, files, winner, results, unmeasured>>
  BY DEF CheckDirectory, options
<1>2. phase = "starting" /\ phase' = IF IsDirectory(<<>>) THEN "opening" ELSE "failed"
  BY DEF CheckDirectory
<1>3. IsDirectory(<<>>) => tree.kind[Root] \in Directories
  <2>1. KindsAt(<<>>) = KindsIn(tree, present, <<>>)
    BY Now
  <2> QED
    BY <2>1, RootIs DEF IsDirectory
<1>4. TypeInv' /\ PhaseInv' /\ FoundInv' /\ CoverInv'
  BY <1>1, <1>2, <1>3 DEF IInv, TypeInv, PhaseInv, FoundInv, CoverInv
<1>5. ListInv'
  BY <1>1, ListStays DEF IInv
<1>6. OrderInv'
  BY <1>1, <1>2 DEF IInv, OrderInv
<1>7. NamesInv'
  BY <1>1, NamesStay DEF IInv
<1> QED
  BY <1>4, <1>5, <1>6, <1>7 DEF IInv

LEMMA OneFrame ==
  ASSUME NEW frame \in Frame, \A d, e \in frame.left : d.name = e.name => d = e
  PROVE  /\ <<frame>> \in Seq(Frame) /\ StackOK(<<frame>>)
         /\ DOMAIN <<frame>> = {1} /\ <<frame>>[1] = frame
<1>1. <<frame>> \in Seq(Frame) /\ DOMAIN <<frame>> = {1} /\ <<frame>>[1] = frame
  OBVIOUS
<1>2. 1 .. 1 - 1 = {}
  OBVIOUS
<1> HIDE DEF StackOK
<1>3. StackOK(<<frame>>)
  BY <1>1, <1>2 DEF StackOK
<1> QED
  BY <1>1, <1>3

\* A directory's listing leads on to each path in its place below it.
LEMMA ListedLeadsOn ==
  ASSUME TypeInv, NEW p \in Path, NEW path \in Path, IsStrictPrefix(p, path),
         InPlaceIn(tree, present, path)
  PROVE  \E e \in ListingIn(tree, present, p) : e.name \in Nat /\ IsPrefix(Append(p, e.name), path)
<1>1. /\ Len(p) \in Nat /\ Len(path) \in Nat /\ Len(p) < Len(path) /\ IsPrefix(p, path)
  BY PrefixFacts, LenProperties DEF Path
<1>2. Len(p) \in 0 .. Len(path) - 1
  BY <1>1
<1>3. SubSeq(path, 1, Len(p)) = p
  <2>1. SubSeq(p, 1, Len(p)) = p
    BY SubSeqFull DEF Path
  <2> QED
    BY <1>1, <2>1 DEF IsPrefix
<1>4. PICK e \in ListingIn(tree, present, p) : e.name = path[Len(p) + 1]
  BY <1>2, <1>3 DEF InPlaceIn
<1>5. e.name \in Nat
  BY TreeIs, ListingIs DEF Entry
<1>6. IsPrefix(Append(p, e.name), path)
  BY <1>1, <1>4, <1>5, PrefixAppended
<1> QED
  BY <1>5, <1>6

LEMMA OpenDirectoryOK == ASSUME IInv, OpenDirectory PROVE IInv'
<1> DEFINE frame == [path |-> <<>>, left |-> ListingIn(tree, present, <<>>)]
           kinds == KindsIn(tree, present, <<>>)
<1>0. /\ UNCHANGED <<tree, present, files, winner, results, unmeasured>>
      /\ phase = "opening" /\ phase' = "scanning"
      /\ stack' = IF kinds \cap Directories # {} THEN <<frame>> ELSE <<>>
  BY Now DEF OpenDirectory, options, IsDirectory, Open
<1>1. TypeInv /\ PhaseInv /\ OrderInv /\ IsFileSystem(tree) /\ present \subseteq Node
  BY TreeIs DEF IInv
<1>2. <<>> \in Path /\ DOMAIN <<>> = {} /\ <<>> \in Seq(Frame) /\ Len(<<>>) = 0
  BY EmptySeq DEF Path
<1>3. /\ ListingIn(tree, present, <<>>) \subseteq Entry
      /\ \A node \in NodesIn(tree, present, <<>>) :
           ListingIn(tree, present, <<>>) \subseteq tree.entries[node]
      /\ \A d, e \in ListingIn(tree, present, <<>>) : d.name = e.name => d = e
      /\ ListingIn(tree, present, <<>>) # {} => kinds = {"directory"}
  BY <1>1, <1>2, ListingIs
<1>4. /\ frame \in Frame /\ frame.path = <<>> /\ frame.left = ListingIn(tree, present, <<>>)
  BY <1>2, <1>3 DEF Frame
<1>5. files = <<>> /\ results = <<>> /\ tree.kind[Root] \in Directories
  BY <1>0, <1>1 DEF PhaseInv
<1> HIDE DEF frame, kinds
<1>6. /\ <<frame>> \in Seq(Frame) /\ StackOK(<<frame>>)
      /\ DOMAIN <<frame>> = {1} /\ <<frame>>[1] = frame
  BY <1>3, <1>4, OneFrame
<1>7. TypeInv'
  BY <1>0, <1>1, <1>2, <1>6 DEF TypeInv
<1>8. PhaseInv'
  BY <1>0, <1>5 DEF PhaseInv
<1>9. ListInv'
  <2>1. StackOK(<<>>)
    BY <1>2 DEF StackOK
  <2>2. CASE stack' = <<>>
    BY <1>2, <2>1, <2>2 DEF ListInv
  <2>3. CASE stack' = <<frame>>
    BY <1>0, <1>3, <1>4, <1>6, <2>3 DEF ListInv
  <2> QED
    BY <1>0, <2>2, <2>3
<1>10. FoundInv' /\ OrderInv'
  BY <1>0, <1>2, <1>5 DEF FoundInv, OrderInv
<1>11. ASSUME NEW path \in Path, InPlaceIn(tree, present, path) PROVE AheadOf(stack', path)
  <2>1. path # <<>>
    <3>1. "text" \in KindsIn(tree, present, path)
      BY <1>11 DEF InPlaceIn
    <3>2. "text" \notin Directories
      BY DEF Directories
    <3> QED
      BY <1>5, <3>1, <3>2, RootIs
  <2>2. IsStrictPrefix(<<>>, path)
    <3>1. Len(path) \in Nat \ {0}
      BY <2>1, EmptySeq DEF Path
    <3>2. IsPrefix(<<>>, path)
      BY <1>2, <3>1, PrefixByName
    <3> QED
      BY <1>2, <3>1, <3>2, PrefixFacts
  <2>3. PICK e \in ListingIn(tree, present, <<>>) : IsPrefix(Append(<<>>, e.name), path)
    BY <1>1, <1>2, <1>11, <2>2, ListedLeadsOn
  <2>4. stack' = <<frame>>
    BY <1>0, <1>3, <2>3 DEF Directories
  <2> QED
    BY <1>4, <1>6, <2>3, <2>4 DEF AheadOf
<1>12. CoverInv'
  BY <1>0, <1>11 DEF CoverInv, Found
<1>13. NamesInv'
  BY <1>0, NamesStay DEF IInv
<1> QED
  BY <1>7, <1>8, <1>9, <1>10, <1>12, <1>13 DEF IInv

\* An entry of the innermost directory is taken for what it is.
Visited(entry, kind) ==
  LET p == Append(Last(stack).path, entry.name)
  IN  /\ phase = "scanning" /\ phase' = "scanning" /\ stack # <<>>
      /\ UNCHANGED <<tree, present, winner, results, unmeasured>>
      /\ files' = IF kind \in TextFiles THEN Append(files, p) ELSE files
      /\ stack' = IF kind \in Directories
                  THEN Append(Past(stack, entry), [path |-> p, left |-> ListingIn(tree, present, p)])
                  ELSE Past(stack, entry)
      /\ \A now \in KindsIn(tree, present, p) : kind = now

LEMMA TopIs ==
  ASSUME IInv, stack # <<>>, NEW entry \in Last(stack).left
  PROVE  /\ Last(stack).path \in Path /\ Last(stack).left \in SUBSET Entry
         /\ entry.name \in Nat /\ Append(Last(stack).path, entry.name) \in Path
         /\ \A kind \in KindsIn(tree, present, Append(Last(stack).path, entry.name)) :
              kind = tree.kind[entry.node]
<1> DEFINE top == Last(stack)
<1>1. /\ Len(stack) \in DOMAIN stack /\ top = stack[Len(stack)]
      /\ stack[Len(stack)].path \in Path /\ stack[Len(stack)].left \subseteq Entry
  BY FramesAre DEF IInv, TypeInv
<1>2. \A node \in NodesIn(tree, present, stack[Len(stack)].path) :
         stack[Len(stack)].left \subseteq tree.entries[node]
  BY <1>1 DEF IInv, ListInv
<1>3. IsFileSystem(tree) /\ present \subseteq Node
  BY TreeIs DEF IInv
<1>4. top.path \in Path /\ top.left \in SUBSET Entry
  BY <1>1
<1>5. \A node \in NodesIn(tree, present, top.path) : top.left \subseteq tree.entries[node]
  BY <1>1, <1>2
<1> HIDE DEF top
<1>6. entry \in top.left
  BY DEF top
<1>7. /\ entry.name \in Nat /\ Append(top.path, entry.name) \in Path
      /\ \A kind \in KindsIn(tree, present, Append(top.path, entry.name)) : kind = tree.kind[entry.node]
  BY <1>3, <1>4, <1>5, <1>6, EntryLeads
<1> QED
  BY <1>4, <1>7 DEF top

LEMMA VisitMeans ==
  ASSUME IInv, VisitEntry
  PROVE  \E entry \in Last(stack).left : \E kind : Visited(entry, kind)
<1>1. PICK entry \in Top.left : \E kind \in TakenFor(entry) :
        LET path == Append(Top.path, entry.name)
            rest == [stack EXCEPT ![Len(stack)].left = @ \ {entry}]
        IN  /\ files' = IF kind \in TextFiles THEN Append(files, path) ELSE files
            /\ stack' = IF Descend(entry, kind) THEN Append(rest, Open(path)) ELSE rest
  BY DEF VisitEntry
<1>2. PICK kind \in TakenFor(entry) :
        LET path == Append(Top.path, entry.name)
            rest == [stack EXCEPT ![Len(stack)].left = @ \ {entry}]
        IN  /\ files' = IF kind \in TextFiles THEN Append(files, path) ELSE files
            /\ stack' = IF Descend(entry, kind) THEN Append(rest, Open(path)) ELSE rest
  BY <1>1
<1> DEFINE p == Append(Last(stack).path, entry.name)
<1>3. entry \in Last(stack).left /\ p = Append(Top.path, entry.name)
  BY DEF Top
<1>4. /\ phase = "scanning" /\ phase' = "scanning" /\ stack # <<>>
      /\ UNCHANGED <<tree, present, winner, results, unmeasured>>
  BY DEF VisitEntry, options
<1>5. Open(p) = [path |-> p, left |-> ListingIn(tree, present, p)] /\ KindsAt(p) = KindsIn(tree, present, p)
  BY Now DEF Open
<1>6. \A now \in KindsIn(tree, present, p) : now = tree.kind[entry.node]
  BY <1>3, <1>4, TopIs
<1>7. \A now \in KindsIn(tree, present, p) : kind = now
  BY <1>3, <1>5, <1>6 DEF TakenFor
<1>8. files' = IF kind \in TextFiles THEN Append(files, p) ELSE files
  BY <1>2, <1>3
<1>9. stack' = IF kind \in Directories
               THEN Append(Past(stack, entry), [path |-> p, left |-> ListingIn(tree, present, p)])
               ELSE Past(stack, entry)
  BY <1>2, <1>3, <1>5 DEF Descend, Past
<1>10. Visited(entry, kind)
  BY <1>4, <1>7, <1>8, <1>9 DEF Visited
<1> QED
  BY <1>3, <1>10

LEMMA VisitedStack ==
  ASSUME IInv, NEW entry \in Last(stack).left, NEW kind, Visited(entry, kind)
  PROVE  LET p == Append(Last(stack).path, entry.name)
         IN  /\ stack' \in Seq(Frame) /\ StackOK(stack')
             /\ \A q \in Path : AheadOf(stack', q) => AheadOf(stack, q)
             /\ \A q \in Path : AheadOf(stack, q) /\ ~IsPrefix(p, q) => AheadOf(stack', q)
             /\ kind \in Directories =>
                  \A q \in Path : (\E e \in ListingIn(tree, present, p) : IsPrefix(Append(p, e.name), q))
                                    => AheadOf(stack', q)
<1> DEFINE p == Append(Last(stack).path, entry.name)
           left == ListingIn(tree, present, p)
           frame == [path |-> p, left |-> left]
           past == Past(stack, entry)
<1>1. /\ stack \in Seq(Frame) /\ stack # <<>> /\ StackOK(stack) /\ p \in Path
      /\ IsFileSystem(tree) /\ present \subseteq Node
  BY TopIs, TreeIs DEF Visited, IInv, TypeInv, ListInv
<1>2. left \in SUBSET Entry /\ \A d, e \in left : d.name = e.name => d = e
  BY <1>1, ListingIs
<1>3. past \in Seq(Frame) /\ StackOK(past)
  BY <1>1, PastIs, PastStaysOK
<1>4. frame \in Frame /\ StackOK(Append(past, frame)) /\ frame.path = p /\ frame.left = left
  BY <1>1, <1>2, OpenedStaysOK
<1>5. \A q \in Path :
        /\ AheadOf(past, q) => AheadOf(stack, q)
        /\ IsPrefix(p, q) => AheadOf(stack, q)
        /\ AheadOf(stack, q) /\ ~IsPrefix(p, q) => AheadOf(past, q)
  BY <1>1, PastAhead
<1>6. stack' = IF kind \in Directories THEN Append(past, frame) ELSE past
  BY DEF Visited
<1> HIDE DEF frame, past, left, p
<1>7. /\ Append(past, frame) \in Seq(Frame)
      /\ \A q : AheadOf(Append(past, frame), q) <=>
                  AheadOf(past, q) \/ \E e \in left : IsPrefix(Append(p, e.name), q)
  BY <1>3, <1>4, OpenedIs
<1>8. \A e \in left : e.name \in Nat
  BY <1>2 DEF Entry
<1>9. \A q \in Path : (\E e \in left : IsPrefix(Append(p, e.name), q)) => IsPrefix(p, q)
  BY <1>1, <1>8, PrefixAppended
<1>10. CASE kind \in Directories
  BY <1>4, <1>5, <1>6, <1>7, <1>9, <1>10 DEF p, left
<1>11. CASE kind \notin Directories
  BY <1>3, <1>5, <1>6, <1>11 DEF p, left
<1> QED
  BY <1>10, <1>11

LEMMA VisitedTypes ==
  ASSUME IInv, NEW entry \in Last(stack).left, NEW kind, Visited(entry, kind)
  PROVE  TypeInv' /\ PhaseInv' /\ OrderInv' /\ NamesInv'
<1> DEFINE p == Append(Last(stack).path, entry.name)
<1>1. /\ phase = "scanning" /\ phase' = "scanning" /\ stack # <<>>
      /\ UNCHANGED <<tree, present, winner, results, unmeasured>>
      /\ files' = IF kind \in TextFiles THEN Append(files, p) ELSE files
  BY DEF Visited
<1>2. stack' \in Seq(Frame) /\ p \in Path
  BY <1>1, VisitedStack, TopIs
<1>3. files' \in Seq(Path)
  BY <1>1, <1>2, AppendProperties DEF IInv, TypeInv
<1>4. TypeInv'
  BY <1>1, <1>2, <1>3 DEF IInv, TypeInv
<1>5. PhaseInv'
  BY <1>1 DEF IInv, PhaseInv
<1>6. OrderInv'
  BY <1>1 DEF IInv, OrderInv
<1>7. NamesInv'
  BY <1>1, NamesStay DEF IInv
<1> QED
  BY <1>4, <1>5, <1>6, <1>7

LEMMA VisitedLists ==
  ASSUME IInv, NEW entry \in Last(stack).left, NEW kind, Visited(entry, kind)
  PROVE  ListInv'
<1> DEFINE p == Append(Last(stack).path, entry.name)
           left == ListingIn(tree, present, p)
           frame == [path |-> p, left |-> left]
           past == Past(stack, entry)
           fine(f) == \A node \in NodesIn(tree, present, f.path) : f.left \subseteq tree.entries[node]
<1>1. /\ stack \in Seq(Frame) /\ stack # <<>> /\ p \in Path
      /\ IsFileSystem(tree) /\ present \subseteq Node
      /\ UNCHANGED <<tree, present>>
      /\ stack' = IF kind \in Directories THEN Append(past, frame) ELSE past
  BY TopIs, TreeIs DEF Visited, IInv, TypeInv
<1>2. StackOK(stack')
  BY VisitedStack
<1>3. \A node \in NodesIn(tree, present, p) : left \subseteq tree.entries[node]
  BY <1>1, ListingIs
<1>4. frame.path = p /\ frame.left = left
  OBVIOUS
<1>5. /\ past \in Seq(Frame) /\ DOMAIN past = DOMAIN stack
      /\ \A k \in DOMAIN stack : past[k].path = stack[k].path /\ past[k].left \subseteq stack[k].left
  BY <1>1, PastIs
<1>6. frame \in Frame
  <2>1. left \subseteq Entry
    BY <1>1, ListingIs
  <2> HIDE DEF p, left
  <2> QED
    BY <1>1, <2>1 DEF Frame
<1>7. \A k \in DOMAIN stack : fine(stack[k])
  BY DEF IInv, ListInv
<1> HIDE DEF frame, past, left, p
<1>8. \A k \in DOMAIN past : fine(past[k])
  BY <1>5, <1>7
<1>9. fine(frame)
  BY <1>3, <1>4
<1>10. /\ DOMAIN Append(past, frame) = DOMAIN past \cup {Len(past) + 1}
       /\ \A k \in DOMAIN past : Append(past, frame)[k] = past[k]
       /\ Append(past, frame)[Len(past) + 1] = frame
  BY <1>5, <1>6, OpenedIs
<1>11. \A k \in DOMAIN Append(past, frame) : fine(Append(past, frame)[k])
  <2> HIDE DEF fine
  <2> QED
    BY <1>8, <1>9, <1>10
<1>12. \A k \in DOMAIN stack' : fine(stack'[k])
  <2> HIDE DEF fine
  <2> QED
    BY <1>1, <1>8, <1>11
<1> QED
  BY <1>1, <1>2, <1>12 DEF ListInv

LEMMA VisitedFound ==
  ASSUME IInv, NEW entry \in Last(stack).left, NEW kind, Visited(entry, kind)
  PROVE  FoundInv'
<1> DEFINE p == Append(Last(stack).path, entry.name)
<1>1. /\ phase = "scanning" /\ stack # <<>> /\ stack \in Seq(Frame) /\ StackOK(stack)
      /\ files \in Seq(Path)
      /\ files' = IF kind \in TextFiles THEN Append(files, p) ELSE files
      /\ kind \notin Directories => stack' = Past(stack, entry)
  BY DEF Visited, IInv, TypeInv, ListInv
<1>2. p \in Path
  BY <1>1, TopIs
<1>3. \A q \in Path : AheadOf(stack', q) => AheadOf(stack, q)
  BY VisitedStack
<1>4. /\ \A i \in DOMAIN files : files[i] \in Path /\ ~AheadOf(stack, files[i])
      /\ \A i, j \in DOMAIN files : files[i] = files[j] => i = j
  BY <1>1, PathsAre DEF IInv, FoundInv
<1>5. \A i \in DOMAIN files : ~AheadOf(stack', files[i])
  BY <1>3, <1>4
<1>6. CASE kind \notin TextFiles
  BY <1>1, <1>4, <1>5, <1>6 DEF FoundInv
<1>7. CASE kind \in TextFiles
  <2>1. kind \notin Directories
    BY <1>7 DEF TextFiles, Directories
  <2>2. AheadOf(stack, p) /\ ~AheadOf(stack', p)
    <3>1. IsPrefix(p, p)
      BY <1>2, PrefixFacts
    <3> QED
      BY <1>1, <1>2, <2>1, <3>1, PastAhead
  <2>3. \A i \in DOMAIN files : files[i] # p
    BY <1>4, <2>2
  <2> HIDE DEF p
  <2>4. /\ Len(files) \in Nat /\ DOMAIN files = 1 .. Len(files)
        /\ Append(files, p) \in Seq(Path) /\ Len(Append(files, p)) = Len(files) + 1
        /\ \A i \in 1 .. Len(files) : Append(files, p)[i] = files[i]
        /\ Append(files, p)[Len(files) + 1] = p
    BY <1>1, <1>2, LenProperties, AppendProperties
  <2>5. files' = Append(files, p)
    BY <1>1, <1>7
  <2>6. DOMAIN files' = 1 .. Len(files) + 1
    BY <2>4, <2>5, LenProperties
  <2>7. \A i \in DOMAIN files' : i \in DOMAIN files \/ i = Len(files) + 1
    BY <2>4, <2>6
  <2>8. \A i \in DOMAIN files' : ~AheadOf(stack', files'[i])
    BY <1>5, <2>2, <2>4, <2>5, <2>7
  <2>9. \A i, j \in DOMAIN files' : files'[i] = files'[j] => i = j
    BY <1>4, <2>3, <2>4, <2>5, <2>7
  <2> QED
    BY <2>8, <2>9 DEF FoundInv
<1> QED
  BY <1>6, <1>7

LEMMA VisitedCovers ==
  ASSUME IInv, NEW entry \in Last(stack).left, NEW kind, Visited(entry, kind)
  PROVE  CoverInv'
<1> DEFINE p == Append(Last(stack).path, entry.name)
<1>1. /\ phase = "scanning" /\ stack # <<>> /\ files \in Seq(Path) /\ TypeInv
      /\ UNCHANGED <<tree, present, winner, results, unmeasured>>
      /\ files' = IF kind \in TextFiles THEN Append(files, p) ELSE files
      /\ \A now \in KindsIn(tree, present, p) : kind = now
  BY DEF Visited, IInv, TypeInv
<1>2. p \in Path
  BY <1>1, TopIs
<1>3. /\ \A q \in Path : AheadOf(stack, q) /\ ~IsPrefix(p, q) => AheadOf(stack', q)
      /\ kind \in Directories =>
           \A q \in Path : (\E e \in ListingIn(tree, present, p) : IsPrefix(Append(p, e.name), q))
                             => AheadOf(stack', q)
  BY VisitedStack
<1> HIDE DEF p
<1>4. Range(files) \subseteq Range(files') /\ (kind \in TextFiles => p \in Range(files'))
  <2>1. CASE kind \notin TextFiles
    BY <1>1, <2>1
  <2>2. CASE kind \in TextFiles
    <3>1. /\ Len(files) \in Nat /\ DOMAIN files = 1 .. Len(files)
          /\ Append(files, p) \in Seq(Path) /\ Len(Append(files, p)) = Len(files) + 1
          /\ \A i \in 1 .. Len(files) : Append(files, p)[i] = files[i]
          /\ Append(files, p)[Len(files) + 1] = p
      BY <1>1, <1>2, LenProperties, AppendProperties
    <3>2. files' = Append(files, p)
      BY <1>1, <2>2
    <3>3. DOMAIN files' = 1 .. Len(files) + 1
      BY <3>1, <3>2, LenProperties
    <3>4. DOMAIN files \subseteq DOMAIN files' /\ Len(files) + 1 \in DOMAIN files'
      BY <3>1, <3>3
    <3> QED
      BY <3>1, <3>2, <3>4 DEF Range
  <2> QED
    BY <2>1, <2>2
<1>5. ASSUME NEW path \in Path, InPlaceIn(tree, present, path), AheadOf(stack, path), IsPrefix(p, path)
      PROVE  AheadOf(stack', path) \/ path \in Range(files')
  <2>1. CASE p = path
    <3>1. kind = "text"
      BY <1>1, <1>5, <2>1 DEF InPlaceIn
    <3> QED
      BY <1>4, <2>1, <3>1 DEF TextFiles
  <2>2. CASE p # path
    <3>1. IsStrictPrefix(p, path)
      BY <1>5, <2>2 DEF IsStrictPrefix
    <3>2. PICK e \in ListingIn(tree, present, p) : IsPrefix(Append(p, e.name), path)
      BY <1>1, <1>2, <1>5, <3>1, ListedLeadsOn
    <3>3. KindsIn(tree, present, p) = {"directory"}
      BY <1>1, <1>2, <3>2, TreeIs, ListingIs
    <3>4. kind \in Directories
      BY <1>1, <3>3 DEF Directories
    <3> QED
      BY <1>3, <3>2, <3>4
  <2> QED
    BY <2>1, <2>2
<1>6. ASSUME NEW path \in Path, InPlaceIn(tree, present, path) PROVE Found(path)'
  <2>1. Found(path)
    BY <1>1, <1>6 DEF IInv, CoverInv
  <2>2. CASE AheadOf(stack, path)
    BY <1>3, <1>5, <1>6, <2>2 DEF Found
  <2>3. CASE ~AheadOf(stack, path)
    BY <1>1, <1>4, <2>1, <2>3 DEF Found
  <2> QED
    BY <2>2, <2>3
<1>7. \A path \in Path : InPlaceIn(tree', present', path) => Found(path)'
  BY <1>1, <1>6
<1> QED
  BY <1>7 DEF CoverInv

LEMMA VisitEntryOK == ASSUME IInv, VisitEntry PROVE IInv'
<1>1. PICK entry \in Last(stack).left : \E kind : Visited(entry, kind)
  BY VisitMeans
<1>2. PICK kind : Visited(entry, kind)
  BY <1>1
<1> QED
  BY <1>2, VisitedTypes, VisitedLists, VisitedFound, VisitedCovers DEF IInv

LEMMA LeaveDirectoryOK == ASSUME IInv, LeaveDirectory PROVE IInv'
<1>1. /\ phase = "scanning" /\ phase' = "scanning" /\ stack # <<>> /\ Last(stack).left = {}
      /\ stack' = Front(stack) /\ UNCHANGED <<tree, present, files, winner, results, unmeasured>>
  BY DEF LeaveDirectory, options, Top
<1>2. stack \in Seq(Frame)
  BY DEF IInv, TypeInv
<1>3. /\ stack' \in Seq(Frame) /\ DOMAIN stack' \subseteq DOMAIN stack
      /\ \A k \in DOMAIN stack' : stack'[k] = stack[k]
      /\ StackOK(stack) => StackOK(stack')
      /\ \A q : AheadOf(stack, q) => AheadOf(stack', q)
      /\ \A q : AheadOf(stack', q) => AheadOf(stack, q)
  BY <1>1, <1>2, ClosedIs
<1>4. TypeInv' /\ PhaseInv'
  BY <1>1, <1>3 DEF IInv, TypeInv, PhaseInv
<1>5. ListInv'
  BY <1>1, <1>3 DEF IInv, ListInv
<1>6. FoundInv' /\ OrderInv'
  BY <1>1, <1>3 DEF IInv, FoundInv, OrderInv
<1>7. CoverInv'
  BY <1>1, <1>3 DEF IInv, CoverInv, Found
<1>8. NamesInv'
  BY <1>1, NamesStay DEF IInv
<1> QED
  BY <1>4, <1>5, <1>6, <1>7, <1>8 DEF IInv

LEMMA ReportNothingFoundOK == ASSUME IInv, ReportNothingFound PROVE IInv'
<1>1. /\ phase = "scanning" /\ phase' = "succeeded" /\ stack = <<>> /\ files = <<>>
      /\ UNCHANGED <<tree, present, stack, files, winner, results, unmeasured>>
  BY DEF ReportNothingFound, options
<1>2. TypeInv' /\ PhaseInv' /\ FoundInv'
  BY <1>1 DEF IInv, TypeInv, PhaseInv, FoundInv
<1>3. ListInv'
  BY <1>1, ListStays DEF IInv
<1>4. OrderInv'
  BY <1>1 DEF IInv, OrderInv
<1>5. CoverInv'
  BY <1>1 DEF IInv, CoverInv, Found
<1>6. NamesInv'
  BY <1>1, NamesStay DEF IInv
<1> QED
  BY <1>2, <1>3, <1>4, <1>5, <1>6 DEF IInv

LEMMA SortFilesOK == ASSUME IInv, SortFiles PROVE IInv'
<1>1. /\ phase = "scanning" /\ phase' = "measuring" /\ stack = <<>> /\ files \in Seq(Path)
      /\ UNCHANGED <<tree, present, stack, winner, results, unmeasured>>
      /\ results = <<>>
  BY DEF SortFiles, options, IInv, TypeInv, PhaseInv
<1>2. files' = Sorted(files)
  BY DEF SortFiles, SortedBefore, Sorted, InFront
<1>3. \A i, j \in DOMAIN files : files[i] = files[j] => i = j
  BY <1>1 DEF IInv, FoundInv
<1>4. /\ files' \in Seq(Path) /\ DOMAIN files' = DOMAIN files /\ Range(files') = Range(files)
      /\ \A i, j \in DOMAIN files' : i < j => Precedes(files'[i], files'[j])
  BY <1>1, <1>2, <1>3, SortedFacts
<1>5. TypeInv' /\ PhaseInv' /\ FoundInv'
  BY <1>1, <1>4 DEF IInv, TypeInv, PhaseInv, FoundInv
<1>6. ListInv'
  BY <1>1, ListStays DEF IInv
<1>7. OrderInv'
  <2>1. DOMAIN results = {}
    BY <1>1
  <2> QED
    BY <1>1, <1>4, <2>1 DEF IInv, OrderInv
<1>8. CoverInv'
  BY <1>1, <1>4 DEF IInv, CoverInv, Found
<1>9. NamesInv'
  BY <1>1, NamesStay DEF IInv
<1> QED
  BY <1>5, <1>6, <1>7, <1>8, <1>9 DEF IInv

\* The first of the files is taken out.
LEMMA TailIs ==
  ASSUME NEW s \in Seq(Path), s # <<>>,
         \A i, j \in DOMAIN s : i < j => Precedes(s[i], s[j])
  PROVE  /\ Head(s) \in Path /\ Tail(s) \in Seq(Path)
         /\ \A x \in Range(s) : x = Head(s) \/ x \in Range(Tail(s))
         /\ Head(s) = s[1] /\ 1 \in DOMAIN s
         /\ \A j \in DOMAIN Tail(s) : Precedes(Head(s), Tail(s)[j]) /\ j + 1 \in DOMAIN s /\ Tail(s)[j] = s[j + 1]
         /\ \A i, j \in DOMAIN Tail(s) : i < j => Precedes(Tail(s)[i], Tail(s)[j])
<1> DEFINE t == Tail(s)
           n == Len(s)
<1>1. /\ n \in Nat /\ DOMAIN s = 1 .. n /\ n # 0
  BY PathsAre, EmptySeq
<1>2. /\ Head(s) \in Path /\ t \in Seq(Path) /\ Len(t) = n - 1
      /\ \A i \in 1 .. Len(t) : t[i] = s[i + 1]
  BY HeadTailProperties
<1>3. Head(s) = s[1]
  OBVIOUS
<1> HIDE DEF t, n
<1>4. DOMAIN t = 1 .. n - 1
  BY <1>2, LenProperties
<1>5. \A i \in DOMAIN t : i + 1 \in DOMAIN s /\ t[i] = s[i + 1] /\ 1 < i + 1 /\ i \in Nat
  BY <1>1, <1>2, <1>4
<1>6. 1 \in DOMAIN s
  BY <1>1
<1>7. \A j \in DOMAIN t : Precedes(Head(s), t[j])
  BY <1>3, <1>5, <1>6
<1>8. ASSUME NEW i \in DOMAIN t, NEW j \in DOMAIN t, i < j PROVE Precedes(t[i], t[j])
  <2>1. i + 1 < j + 1 /\ i + 1 \in DOMAIN s /\ j + 1 \in DOMAIN s /\ t[i] = s[i + 1] /\ t[j] = s[j + 1]
    BY <1>5, <1>8
  <2> QED
    BY <2>1
<1>9. ASSUME NEW x \in Range(s) PROVE x = Head(s) \/ x \in Range(t)
  <2>1. PICK k \in DOMAIN s : x = s[k]
    BY <1>9 DEF Range
  <2>2. CASE k = 1
    BY <1>3, <2>1, <2>2
  <2>3. CASE k # 1
    <3>1. k - 1 \in DOMAIN t /\ (k - 1) + 1 = k
      BY <1>1, <1>4, <2>3
    <3>2. t[k - 1] = x
      BY <1>5, <2>1, <3>1
    <3> QED
      BY <3>1, <3>2 DEF Range
  <2> QED
    BY <2>2, <2>3
<1> QED
  BY <1>2, <1>3, <1>5, <1>6, <1>7, <1>8, <1>9 DEF t

LEMMA MeasuringIs ==
  ASSUME IInv, phase \in {"measuring", "naming"}, files # <<>>
  PROVE  /\ files \in Seq(Path)
         /\ \A i, j \in DOMAIN files : i < j => Precedes(files[i], files[j])
         /\ \A i \in DOMAIN results, j \in DOMAIN files : Precedes(results[i].path, files[j])
BY DEF IInv, TypeInv, OrderInv

LEMMA MeasureOK == ASSUME IInv, Measure PROVE IInv'
<1>1. /\ phase = "measuring" /\ files # <<>> /\ phase' = "naming"
      /\ UNCHANGED <<tree, present, stack, files, results, unmeasured>>
  BY DEF Measure, Measuring, options
<1>2. winner' \in {"Huffman", "RLE"}
  <2>1. \A node : Winner(node) \in {"Huffman", "RLE"}
    BY DEF Winner
  <2> QED
    BY <2>1 DEF Measure
<1>3. TypeInv' /\ PhaseInv' /\ FoundInv'
  BY <1>1, <1>2 DEF IInv, TypeInv, PhaseInv, FoundInv
<1>4. ListInv'
  BY <1>1, ListStays DEF IInv
<1>5. OrderInv'
  BY <1>1 DEF IInv, OrderInv
<1>6. NamesInv'
  BY <1>1, NamesStay DEF IInv
<1>7. CoverInv'
  BY <1>1 DEF IInv, CoverInv, Found
<1> QED
  BY <1>3, <1>4, <1>5, <1>6, <1>7 DEF IInv

LEMMA AddResultOK == ASSUME IInv, AddResult PROVE IInv'
<1> DEFINE head == Head(files)
           name == Relative(RealPath(head), tree.location[Root])
           result == [path |-> head, name |-> name, winner |-> winner]
           n == Len(results)
<1>1. results' = Append(results, result)
  BY DEF AddResult
<1>2. /\ phase = "naming" /\ phase' = "measuring" /\ files' = Tail(files) /\ winner' = "none"
      /\ UNCHANGED <<tree, present, stack, unmeasured>>
  BY DEF AddResult, options
<1>3. /\ files \in Seq(Path) /\ files # <<>> /\ results \in Seq(Result)
      /\ winner \in {"Huffman", "RLE"}
      /\ \A i, j \in DOMAIN files : i < j => Precedes(files[i], files[j])
      /\ \A i \in DOMAIN results, j \in DOMAIN files : Precedes(results[i].path, files[j])
  BY <1>2, MeasuringIs DEF IInv, TypeInv, PhaseInv
<1>4. /\ head \in Path /\ files' \in Seq(Path)
      /\ \A x \in Range(files) : x = head \/ x \in Range(files')
      /\ head = files[1] /\ 1 \in DOMAIN files
      /\ \A j \in DOMAIN files' : Precedes(head, files'[j]) /\ j + 1 \in DOMAIN files /\ files'[j] = files[j + 1]
      /\ \A i, j \in DOMAIN files' : i < j => Precedes(files'[i], files'[j])
  BY <1>2, <1>3, TailIs
<1> HIDE DEF head
<1>5. /\ name \in [up : Nat, down : Path]
      /\ \A node \in NodesIn(tree, present, head) : name = Relative(tree.location[node], tree.location[Root])
      /\ UnlinkedIn(tree, head) => name = [up |-> 0, down |-> head]
  BY <1>4, TreeIs, NameIs DEF IInv
<1> HIDE DEF name
<1>6. result \in Result /\ result.path = head /\ result.name = name
  BY <1>3, <1>4, <1>5 DEF Result
<1> HIDE DEF result
<1>7. /\ n \in Nat /\ DOMAIN results = 1 .. n
      /\ results' \in Seq(Result) /\ Len(results') = n + 1
      /\ \A i \in 1 .. n : results'[i] = results[i]
      /\ results'[n + 1] = result
  BY <1>1, <1>3, <1>6, AppendProperties, LenProperties
<1>8. DOMAIN results' = 1 .. n + 1
  BY <1>7, LenProperties
<1>9. \A i \in DOMAIN results' : i \in DOMAIN results \/ i = n + 1
  BY <1>7, <1>8
<1>10. TypeInv' /\ PhaseInv' /\ FoundInv'
  BY <1>2, <1>3, <1>4, <1>7 DEF IInv, TypeInv, PhaseInv, FoundInv
<1>11. ListInv'
  BY <1>2, ListStays DEF IInv
<1>12. ASSUME NEW i \in DOMAIN results', NEW j \in DOMAIN files' PROVE Precedes(results'[i].path, files'[j])
  BY <1>3, <1>4, <1>6, <1>7, <1>9
<1>13. ASSUME NEW i \in DOMAIN results', NEW j \in DOMAIN results', i < j
       PROVE  Precedes(results'[i].path, results'[j].path)
  <2>1. i \in DOMAIN results /\ i \in 1 .. n
    BY <1>7, <1>8, <1>13
  <2>2. CASE j \in DOMAIN results
    BY <1>7, <1>13, <2>1, <2>2 DEF IInv, OrderInv
  <2>3. CASE j = n + 1
    BY <1>3, <1>4, <1>6, <1>7, <2>1, <2>3
  <2> QED
    BY <1>9, <2>2, <2>3
<1>14. OrderInv'
  BY <1>4, <1>12, <1>13 DEF OrderInv
<1>15. NamesInv'
  <2> DEFINE fine(r) ==
        /\ \A node \in NodesIn(tree, present, r.path) :
             r.name = Relative(tree.location[node], tree.location[Root])
        /\ UnlinkedIn(tree, r.path) => r.name = [up |-> 0, down |-> r.path]
  <2>1. \A i \in DOMAIN results : fine(results[i])
    BY DEF IInv, NamesInv
  <2>2. fine(result)
    BY <1>5, <1>6
  <2> HIDE DEF fine
  <2>3. \A i \in DOMAIN results' : fine(results'[i])
    BY <1>7, <1>9, <2>1, <2>2
  <2> QED
    BY <1>2, <2>3 DEF NamesInv, fine
<1>16. ASSUME NEW path \in Path, Found(path) PROVE Found(path)'
  <2>1. CASE path \in Range(files)
    <3>1. n + 1 \in DOMAIN results'
      BY <1>7, <1>8
    <3> QED
      BY <1>4, <1>6, <1>7, <2>1, <3>1 DEF Found
  <2>2. CASE \E i \in DOMAIN results : results[i].path = path
    <3>1. \A i \in DOMAIN results : i \in DOMAIN results' /\ results'[i] = results[i]
      BY <1>7, <1>8
    <3> QED
      BY <2>2, <3>1 DEF Found
  <2> QED
    BY <1>2, <1>16, <2>1, <2>2 DEF Found
<1>17. CoverInv'
  BY <1>2, <1>16 DEF IInv, CoverInv
<1> QED
  BY <1>10, <1>11, <1>14, <1>15, <1>17 DEF IInv

LEMMA SkippedOK ==
  ASSUME IInv, Measuring, files' = Tail(files),
         UNCHANGED <<tree, present, phase, stack, winner, results>>,
         unmeasured \subseteq unmeasured', unmeasured' \subseteq Path,
         Head(files) \in unmeasured' \/ ~InPlaceIn(tree, present, Head(files))
  PROVE  IInv'
<1>3. /\ phase = "measuring" /\ files \in Seq(Path) /\ files # <<>>
      /\ \A i, j \in DOMAIN files : i < j => Precedes(files[i], files[j])
      /\ \A i \in DOMAIN results, j \in DOMAIN files : Precedes(results[i].path, files[j])
  BY MeasuringIs DEF Measuring
<1>4. /\ Head(files) \in Path /\ files' \in Seq(Path)
      /\ \A x \in Range(files) : x = Head(files) \/ x \in Range(files')
      /\ \A j \in DOMAIN files' : j + 1 \in DOMAIN files /\ files'[j] = files[j + 1]
      /\ \A i, j \in DOMAIN files' : i < j => Precedes(files'[i], files'[j])
  BY <1>3, TailIs
<1>5. TypeInv' /\ PhaseInv' /\ FoundInv'
  BY <1>3, <1>4 DEF IInv, TypeInv, PhaseInv, FoundInv
<1>6. ListInv'
  BY ListStays DEF IInv
<1>7. OrderInv'
  BY <1>3, <1>4 DEF IInv, OrderInv
<1>8. CoverInv'
  BY <1>3, <1>4 DEF IInv, CoverInv, Found
<1>9. NamesInv'
  BY NamesStay DEF IInv
<1> QED
  BY <1>5, <1>6, <1>7, <1>8, <1>9 DEF IInv

LEMMA SkipMissingOK == ASSUME IInv, SkipMissing PROVE IInv'
<1>1. /\ Measuring /\ files' = Tail(files)
      /\ UNCHANGED <<tree, present, phase, stack, winner, results, unmeasured>>
      /\ "text" \notin KindsIn(tree, present, Head(files))
  BY Now DEF SkipMissing, options
<1>2. ~InPlaceIn(tree, present, Head(files))
  BY <1>1 DEF InPlaceIn
<1>3. unmeasured \subseteq unmeasured' /\ unmeasured' \subseteq Path
  BY <1>1 DEF IInv, TypeInv
<1> QED
  BY <1>1, <1>2, <1>3, SkippedOK

LEMMA SkipUnmeasuredOK == ASSUME IInv, SkipUnmeasured PROVE IInv'
<1>1. /\ Measuring /\ files' = Tail(files) /\ unmeasured' = unmeasured \cup {Head(files)}
      /\ UNCHANGED <<tree, present, phase, stack, winner, results>>
  BY DEF SkipUnmeasured, options
<1>2. Head(files) \in Path
  BY <1>1, MeasuringIs, HeadTailProperties DEF Measuring
<1>3. unmeasured \subseteq unmeasured' /\ unmeasured' \subseteq Path /\ Head(files) \in unmeasured'
  BY <1>1, <1>2 DEF IInv, TypeInv
<1> QED
  BY <1>1, <1>3, SkippedOK

LEMMA ReportOK == ASSUME IInv, Report PROVE IInv'
<1>1. /\ phase = "measuring" /\ phase' = "succeeded" /\ files = <<>>
      /\ UNCHANGED <<tree, present, stack, files, winner, results, unmeasured>>
  BY DEF Report, options
<1>2. TypeInv' /\ PhaseInv' /\ FoundInv'
  BY <1>1 DEF IInv, TypeInv, PhaseInv, FoundInv
<1>3. ListInv'
  BY <1>1, ListStays DEF IInv
<1>4. OrderInv'
  BY <1>1 DEF IInv, OrderInv
<1>5. CoverInv'
  BY <1>1 DEF IInv, CoverInv, Found
<1>6. NamesInv'
  BY <1>1, NamesStay DEF IInv
<1> QED
  BY <1>2, <1>3, <1>4, <1>5, <1>6 DEF IInv

LEMMA AbortOK == ASSUME IInv, Abort PROVE IInv'
<1>1. /\ phase \notin {"starting", "failed"} /\ phase' = "aborted"
      /\ UNCHANGED <<tree, present, stack, files, winner, results, unmeasured>>
  BY DEF Abort, Measuring, options
<1>2. TypeInv' /\ PhaseInv' /\ FoundInv' /\ CoverInv'
  BY <1>1 DEF IInv, TypeInv, PhaseInv, FoundInv, CoverInv
<1>3. ListInv'
  BY <1>1, ListStays DEF IInv
<1>4. OrderInv'
  BY <1>1 DEF IInv, OrderInv
<1>5. NamesInv'
  BY <1>1, NamesStay DEF IInv
<1> QED
  BY <1>2, <1>3, <1>4, <1>5 DEF IInv

LEMMA RemoveNodeOK == ASSUME IInv, RemoveNode PROVE IInv'
<1>1. /\ present' \subseteq present
      /\ UNCHANGED <<tree, phase, stack, files, winner, results, unmeasured>>
  BY DEF RemoveNode, options
<1>2. TypeInv' /\ PhaseInv' /\ FoundInv'
  BY <1>1 DEF IInv, TypeInv, PhaseInv, FoundInv
<1>3. ListInv'
  <2>1. \A k \in DOMAIN stack : stack[k].path \in Path
    BY FramesAre DEF IInv, TypeInv
  <2>2. \A k \in DOMAIN stack : NodesIn(tree, present', stack[k].path) \subseteq NodesIn(tree, present, stack[k].path)
    BY <1>1, <2>1, FewerListed
  <2> QED
    BY <1>1, <2>2 DEF IInv, ListInv
<1>4. OrderInv'
  BY <1>1 DEF IInv, OrderInv
<1>5. CoverInv'
  <2>1. \A path \in Path : InPlaceIn(tree, present', path) => InPlaceIn(tree, present, path)
    BY <1>1, FewerInPlace
  <2> QED
    BY <1>1, <2>1 DEF IInv, CoverInv, Found
<1>6. NamesInv'
  BY <1>1, NamesStay DEF IInv
<1> QED
  BY <1>2, <1>3, <1>4, <1>5, <1>6 DEF IInv

LEMMA StutterOK == ASSUME IInv, UNCHANGED vars PROVE IInv'
<1>1. UNCHANGED <<tree, present, phase, stack, files, winner, results, unmeasured>>
  BY DEF vars, options
<1>2. TypeInv' /\ PhaseInv' /\ FoundInv' /\ CoverInv'
  BY <1>1 DEF IInv, TypeInv, PhaseInv, FoundInv, CoverInv, Found
<1>3. ListInv'
  BY <1>1, ListStays DEF IInv
<1>4. OrderInv'
  BY <1>1 DEF IInv, OrderInv
<1>5. NamesInv'
  BY <1>1, NamesStay DEF IInv
<1> QED
  BY <1>2, <1>3, <1>4, <1>5 DEF IInv

\* What the benchmark knows at every step of the paths it has found, of those it
\* is led to and of those it has measured (benchmark.cpp:20-40, 87-176).
THEOREM BenchmarkInductive == Spec => []IInv
<1>1. IInv /\ [Next]_vars => IInv'
  <2> SUFFICES ASSUME IInv, [Next]_vars PROVE IInv'
    OBVIOUS
  <2> USE DEF Next, Run
  <2>1. CASE CheckDirectory
    BY <2>1, CheckDirectoryOK
  <2>2. CASE OpenDirectory
    BY <2>2, OpenDirectoryOK
  <2>3. CASE VisitEntry
    BY <2>3, VisitEntryOK
  <2>4. CASE LeaveDirectory
    BY <2>4, LeaveDirectoryOK
  <2>5. CASE ReportNothingFound
    BY <2>5, ReportNothingFoundOK
  <2>6. CASE SortFiles
    BY <2>6, SortFilesOK
  <2>7. CASE Measure
    BY <2>7, MeasureOK
  <2>8. CASE SkipMissing
    BY <2>8, SkipMissingOK
  <2>9. CASE SkipUnmeasured
    BY <2>9, SkipUnmeasuredOK
  <2>10. CASE Report
    BY <2>10, ReportOK
  <2>11. CASE Abort
    BY <2>11, AbortOK
  <2>12. CASE RemoveNode
    BY <2>12, RemoveNodeOK
  <2>13. CASE AddResult
    BY <2>13, AddResultOK
  <2>14. CASE UNCHANGED vars
    BY <2>14, StutterOK
  <2> QED
    BY <2>1, <2>2, <2>3, <2>4, <2>5, <2>6, <2>7, <2>8, <2>9, <2>10, <2>11, <2>12, <2>13, <2>14
<1> QED
  BY <1>1, StartOK, PTL DEF Spec

\* Of the names in the report, those of files found without a link are in order
\* and different from each other, in every file system and whichever order the
\* directories were read in, also when a file or the directory is gone before
\* std::filesystem::relative looks for it (benchmark.cpp:92, 124-176).
THEOREM ResultsInOrderHolds == Spec => []ResultsInOrder
<1>1. ASSUME IInv PROVE ResultsInOrder
  <2> SUFFICES ASSUME NEW i \in DOMAIN results, NEW j \in DOMAIN results, i < j,
                      Unlinked(results[i].path), Unlinked(results[j].path)
               PROVE  /\ results[i].name.up = 0 /\ results[j].name.up = 0
                      /\ Precedes(results[i].name.down, results[j].name.down)
    BY DEF ResultsInOrder
  <2>1. /\ results[i].name = [up |-> 0, down |-> results[i].path]
        /\ results[j].name = [up |-> 0, down |-> results[j].path]
    BY <1>1, UnlinkedNow DEF IInv, NamesInv
  <2>2. Precedes(results[i].path, results[j].path)
    BY <1>1 DEF IInv, OrderInv
  <2> QED
    BY <2>1, <2>2
<1> QED
  BY <1>1, BenchmarkInductive, PTL

\* A text file that stays in its place has a result under its real name for each
\* path that leads to it, unless a trial failed, in every file system
\* (benchmark.cpp:20-40, 124-149).
THEOREM FilesInPlaceAreMeasuredHolds == Spec => []FilesInPlaceAreMeasured
<1>1. ASSUME IInv PROVE FilesInPlaceAreMeasured
  <2> SUFFICES ASSUME phase = "succeeded", NEW path \in TextPaths \ unmeasured
               PROVE  \E result \in Range(results), node \in NodesAt(path) :
                        /\ result.path = path
                        /\ result.name = Relative(tree.location[node], tree.location[Root])
    BY DEF FilesInPlaceAreMeasured
  <2>1. path \in Path /\ InPlaceIn(tree, present, path)
    BY <1>1, TreeIs, TextPathsAreInPlace DEF IInv
  <2>2. Found(path) /\ stack = <<>> /\ files = <<>>
    BY <1>1, <2>1 DEF IInv, CoverInv, PhaseInv
  <2>3. ~AheadOf(stack, path) /\ path \notin Range(files)
    BY <2>2 DEF AheadOf, Range
  <2>4. PICK i \in DOMAIN results : results[i].path = path
    BY <2>2, <2>3 DEF Found
  <2>5. PICK node \in NodesIn(tree, present, path) : TRUE
    BY <2>1 DEF InPlaceIn, KindsIn
  <2>6. results[i].name = Relative(tree.location[node], tree.location[Root])
    BY <1>1, <2>4, <2>5 DEF IInv, NamesInv
  <2>7. results[i] \in Range(results) /\ node \in NodesAt(path)
    BY <2>5, Now DEF Range
  <2> QED
    BY <2>4, <2>6, <2>7
<1> QED
  BY <1>1, BenchmarkInductive, PTL
-----------------------------------------------------------------------------
(***************************************************************************)
(* The scan ends: paths cannot become longer and longer, as each name      *)
(* leads further down or follows one more link, and a directory's iterator *)
(* does not come back to a name.                                           *)
(***************************************************************************)
LEMMA Products ==
  ASSUME NEW a \in Nat, NEW b \in Nat
  PROVE  /\ a * b \in Nat /\ (a + 1) * b = a * b + b /\ b * (a + 1) = a * b + b
         /\ \A c \in Nat : c <= a => c * b <= a * b
<1>1. \A x, y \in Nat : x * y \in Nat /\ (x + 1) * y = x * y + y /\ y * (x + 1) = x * y + y
  OBVIOUS
<1>2. ASSUME NEW c \in Nat, c <= a PROVE c * b <= a * b
  <2>1. PICK d \in Nat : a = c + d
    <3>1. a - c \in Nat /\ a = c + (a - c)
      BY <1>2
    <3> QED
      BY <3>1
  <2>2. (c + d) * b = c * b + d * b
    OBVIOUS
  <2>3. c * b \in Nat /\ d * b \in Nat
    BY <1>1
  <2> QED
    BY <2>1, <2>2, <2>3
<1> QED
  BY <1>1, <1>2

\* A path is as long as the levels it went down, each link having led back to
\* the top at most.
LeadsDown(fs, level) ==
  \A node \in Node : \A entry \in fs.entries[node] :
    ~entry.link => level[entry.node] < level[node]

\* Entries that are not links lead down: how many nodes are farther from "/".
LEMMA LevelsExist ==
  ASSUME NEW fs, IsFileSystem(fs)
  PROVE  \E level \in [Node -> 0 .. Cardinality(Node) - 1] : LeadsDown(fs, level)
<1> DEFINE far(node) == Len(fs.location[node])
           farther(node) == {m \in Node : far(m) > far(node)}
           level == [node \in Node |-> Cardinality(farther(node))]
           n == Cardinality(Node)
<1>1. IsFiniteSet(Node) /\ n \in Nat
  BY BenchmarkAssumption, FS_CardinalityType
<1>2. \A node \in Node : far(node) \in Nat
  <2>1. \A node \in Node : fs.location[node] \in Seq(Nat)
    BY DEF IsFileSystem
  <2> QED
    BY <2>1, LenProperties
<1> HIDE DEF far, n
<1>3. ASSUME NEW node \in Node
      PROVE  IsFiniteSet(farther(node)) /\ Cardinality(farther(node)) \in 0 .. n - 1
  <2>1. farther(node) \subseteq Node \ {node}
    BY <1>2
  <2>2. IsFiniteSet(Node \ {node}) /\ Cardinality(Node \ {node}) = n - 1
    BY <1>1, FS_RemoveElement DEF n
  <2> HIDE DEF farther
  <2>3. IsFiniteSet(farther(node)) /\ Cardinality(farther(node)) <= n - 1
    BY <2>1, <2>2, FS_Subset
  <2>4. Cardinality(farther(node)) \in Nat
    BY <2>3, FS_CardinalityType
  <2> QED
    BY <1>1, <2>3, <2>4
<1>4. ASSUME NEW node \in Node, NEW entry \in fs.entries[node], ~entry.link
      PROVE  Cardinality(farther(entry.node)) < Cardinality(farther(node))
  <2>1. entry.node \in Node /\ entry.name \in Nat
    BY EntriesAre
  <2>2. far(entry.node) = far(node) + 1
    <3>1. fs.location[entry.node] = Append(fs.location[node], entry.name) /\ fs.location[node] \in Seq(Nat)
      BY <1>4 DEF IsFileSystem
    <3> QED
      BY <2>1, <3>1, AppendProperties DEF far
  <2>3. /\ farther(entry.node) \subseteq farther(node)
        /\ entry.node \in farther(node) /\ entry.node \notin farther(entry.node)
    BY <1>2, <2>1, <2>2
  <2> HIDE DEF farther
  <2>4. /\ IsFiniteSet(farther(node)) /\ Cardinality(farther(node)) \in Nat
        /\ Cardinality(farther(entry.node)) \in Nat
    <3>1. Cardinality(farther(node)) \in 0 .. n - 1 /\ Cardinality(farther(entry.node)) \in 0 .. n - 1
      BY <1>3, <2>1
    <3> QED
      BY <1>1, <1>3, <3>1
  <2>5. /\ Cardinality(farther(entry.node)) <= Cardinality(farther(node))
        /\ Cardinality(farther(entry.node)) # Cardinality(farther(node))
    BY <2>3, <2>4, FS_Subset
  <2> QED
    BY <2>4, <2>5
<1> HIDE DEF farther
<1>5. level \in [Node -> 0 .. n - 1]
  BY <1>3
<1>6. LeadsDown(fs, level)
  <2>1. \A node \in Node : \A entry \in fs.entries[node] : entry.node \in Node
    BY EntriesAre
  <2> QED
    BY <1>4, <2>1 DEF LeadsDown
<1> HIDE DEF level
<1> QED
  BY <1>5, <1>6 DEF n

LEMMA LevelsPassed ==
  ASSUME NEW fs, IsFileSystem(fs), NEW there, there \subseteq Node,
         NEW level \in [Node -> 0 .. Cardinality(Node) - 1], LeadsDown(fs, level),
         NEW path \in Path, NEW place \in PlacesIn(fs, there, path)
  PROVE  /\ place.links \in 0 .. MaxLinks
         /\ Len(path) <= place.links * Cardinality(Node) + (Cardinality(Node) - 1 - level[place.node])
<1> DEFINE n == Cardinality(Node)
           fine(p, a) == /\ a.links \in 0 .. MaxLinks
                         /\ Len(p) <= a.links * n + (n - 1 - level[a.node])
           good == {p \in Path : \A a \in PlacesIn(fs, there, p) : fine(p, a)}
<1>1. n \in Nat /\ MaxLinks \in Nat
  BY BenchmarkAssumption, FS_CardinalityType
<1> HIDE DEF n
<1>2. level \in [Node -> 0 .. n - 1]
  BY DEF n
<1>3. <<>> \in good
  <2>1. <<>> \in Path /\ Len(<<>>) = 0 /\ PlacesIn(fs, there, <<>>) = StartIn(there)
    BY EmptySeq, PlacesStep DEF Path
  <2>2. ASSUME NEW a \in StartIn(there) PROVE fine(<<>>, a)
    <3>1. a.node = Root /\ a.links = 0
      BY <2>2 DEF StartIn
    <3>2. level[Root] \in 0 .. n - 1
      BY <1>2, BenchmarkAssumption
    <3>3. 0 * n = 0
      BY <1>1
    <3> QED
      BY <1>1, <2>1, <3>1, <3>2, <3>3
  <2> HIDE DEF fine
  <2> QED
    BY <2>1, <2>2
<1>4. ASSUME NEW p \in Path, NEW x \in Nat, p \in good PROVE Append(p, x) \in good
  <2>1. Append(p, x) \in Path /\ Len(Append(p, x)) = Len(p) + 1
    BY AppendedName
  <2>2. Len(p) \in Nat
    BY LenProperties DEF Path
  <2>3. PlacesIn(fs, there, Append(p, x)) = FollowIn(fs, there, PlacesIn(fs, there, p), x)
    BY PlacesStep
  <2>4. ASSUME NEW a \in PlacesIn(fs, there, Append(p, x)) PROVE fine(Append(p, x), a)
    <3>1. PICK from \in PlacesIn(fs, there, p) : \E e \in fs.entries[from.node] :
             /\ a = [node |-> e.node, links |-> from.links + (IF e.link THEN 1 ELSE 0)]
             /\ a.links <= MaxLinks
      BY <2>3, <2>4, Followed
    <3>2. PICK e \in fs.entries[from.node] :
             /\ a = [node |-> e.node, links |-> from.links + (IF e.link THEN 1 ELSE 0)]
             /\ a.links <= MaxLinks
      BY <3>1
    <3>3. from.node \in Node
      <4>1. from \in Place
        BY OnePlace
      <4> QED
        BY <4>1 DEF Place
    <3>4. e.node \in Node /\ e.link \in BOOLEAN
      BY <3>3, EntriesAre
    <3>5. level[from.node] \in 0 .. n - 1 /\ level[e.node] \in 0 .. n - 1
      BY <1>2, <3>3, <3>4
    <3>6. from.links \in 0 .. MaxLinks /\ Len(p) <= from.links * n + (n - 1 - level[from.node])
      BY <1>4
    <3>7. a.node = e.node /\ a.links = from.links + (IF e.link THEN 1 ELSE 0) /\ a.links <= MaxLinks
      BY <3>2
    <3>8. PICK c \in Nat : c = from.links * n
      BY <1>1, <3>6, Products
    <3>9. PICK lf \in 0 .. n - 1 : lf = level[from.node]
      BY <3>5
    <3>10. PICK le \in 0 .. n - 1 : le = level[e.node]
      BY <3>5
    <3>11. Len(p) <= c + (n - 1 - lf)
      BY <3>6, <3>8, <3>9
    <3>12. CASE e.link
      <4>1. a.links = from.links + 1 /\ a.links \in 0 .. MaxLinks
        BY <1>1, <3>6, <3>7, <3>12
      <4>2. a.links * n = c + n
        BY <1>1, <3>6, <3>8, <4>1, Products
      <4>3. Len(p) + 1 <= c + n + (n - 1 - le)
        BY <1>1, <2>2, <3>11
      <4> QED
        BY <2>1, <3>7, <3>10, <4>1, <4>2, <4>3
    <3>13. CASE ~e.link
      <4>1. a.links = from.links /\ a.links * n = c
        BY <3>6, <3>7, <3>8, <3>13
      <4>2. le < lf
        BY <3>3, <3>9, <3>10, <3>13 DEF LeadsDown
      <4>3. Len(p) + 1 <= c + (n - 1 - le)
        BY <1>1, <2>2, <3>11, <4>2
      <4> QED
        BY <2>1, <3>6, <3>7, <3>10, <4>1, <4>3
    <3> QED
      BY <3>12, <3>13
  <2> HIDE DEF fine
  <2> QED
    BY <2>1, <2>4
<1> HIDE DEF good
<1>5. path \in good
  BY <1>3, <1>4, AllPaths
<1> QED
  BY <1>5 DEF good, n

\* What is listed is finite, and only listed on short paths.
LEMMA ListedAbove ==
  ASSUME NEW fs, IsFileSystem(fs), NEW there, there \subseteq Node, NEW path \in Path
  PROVE  /\ IsFiniteSet(ListingIn(fs, there, path))
         /\ ListingIn(fs, there, path) # {} => Len(path) < MaxDepth
<1>1. /\ NodesIn(fs, there, path) \subseteq Node
      /\ \A node \in NodesIn(fs, there, path) : ListingIn(fs, there, path) \subseteq fs.entries[node]
  BY OneNode, ListingIs
<1>2. CASE ListingIn(fs, there, path) = {}
  BY <1>2, FS_EmptySet
<1>3. CASE ListingIn(fs, there, path) # {}
  <2>1. PICK node \in NodesIn(fs, there, path) : TRUE
    BY <1>3 DEF ListingIn
  <2>2. IsFiniteSet(fs.entries[node]) /\ ListingIn(fs, there, path) \subseteq fs.entries[node]
    BY <1>1, <2>1 DEF IsFileSystem
  <2>3. PICK place \in PlacesIn(fs, there, path) : node = place.node
    BY <2>1 DEF NodesIn
  <2>4. PICK level \in [Node -> 0 .. Cardinality(Node) - 1] : LeadsDown(fs, level)
    BY LevelsExist
  <2> DEFINE n == Cardinality(Node)
  <2>5. n \in Nat /\ MaxLinks \in Nat
    BY BenchmarkAssumption, FS_CardinalityType
  <2>6. place.links \in 0 .. MaxLinks /\ Len(path) <= place.links * n + (n - 1 - level[place.node])
    BY <2>3, <2>4, LevelsPassed
  <2> HIDE DEF n
  <2>7. level[place.node] \in 0 .. n - 1
    BY <1>1, <2>3, <2>4 DEF n
  <2>8. place.links * n \in Nat /\ place.links * n <= MaxLinks * n /\ MaxLinks * n \in Nat
    BY <2>5, <2>6, Products
  <2>9. MaxDepth = MaxLinks * n + n
    BY <2>5, Products DEF MaxDepth, n
  <2>10. Len(path) \in Nat
    BY LenProperties DEF Path
  <2>11. Len(path) < MaxDepth
    BY <2>5, <2>6, <2>7, <2>8, <2>9, <2>10
  <2> QED
    BY <2>2, <2>11, FS_Subset
<1> QED
  BY <1>2, <1>3

\* Every directory is open one level below the one before it; only one whose
\* entries are known leads further down.
FrameFits(frame, k) ==
  /\ IsFiniteSet(frame.left)
  /\ Len(frame.path) = k - 1 /\ k - 1 <= MaxDepth
  /\ frame.left # {} => k - 1 < MaxDepth

DepthInv == \A k \in DOMAIN stack : FrameFits(stack[k], k)

\* The directories a scan holds open at once.
OpenIsBounded == Len(stack) <= MaxDepth + 1

LEMMA FrameOfListing ==
  ASSUME NEW fs, IsFileSystem(fs), NEW there, there \subseteq Node, NEW path \in Path,
         NEW k \in Nat, Len(path) = k - 1, k - 1 <= MaxDepth
  PROVE  FrameFits([path |-> path, left |-> ListingIn(fs, there, path)], k)
<1> DEFINE frame == [path |-> path, left |-> ListingIn(fs, there, path)]
<1>1. frame.path = path /\ frame.left = ListingIn(fs, there, path)
  OBVIOUS
<1> HIDE DEF frame
<1>2. FrameFits(frame, k)
  BY <1>1, ListedAbove DEF FrameFits
<1> QED
  BY <1>2 DEF frame

LEMMA OpenDirectoryDeep == ASSUME IInv, OpenDirectory PROVE DepthInv'
<1> DEFINE frame == [path |-> <<>>, left |-> ListingIn(tree, present, <<>>)]
<1>1. stack' = <<frame>> \/ stack' = <<>>
  BY Now DEF OpenDirectory, Open
<1>2. <<>> \in Path /\ Len(<<>>) = 1 - 1 /\ 1 - 1 <= MaxDepth /\ 1 \in Nat
  BY EmptySeq, MaxDepthIsNat DEF Path
<1>3. IsFileSystem(tree) /\ present \subseteq Node
  BY TreeIs DEF IInv
<1>4. FrameFits(frame, 1)
  BY <1>2, <1>3, FrameOfListing
<1> HIDE DEF frame
<1>5. DOMAIN <<frame>> = {1} /\ <<frame>>[1] = frame /\ DOMAIN <<>> = {}
  OBVIOUS
<1> QED
  BY <1>1, <1>4, <1>5 DEF DepthInv

LEMMA VisitedDeep ==
  ASSUME IInv, DepthInv, NEW entry \in Last(stack).left, NEW kind, Visited(entry, kind)
  PROVE  DepthInv'
<1> DEFINE p == Append(Last(stack).path, entry.name)
           frame == [path |-> p, left |-> ListingIn(tree, present, p)]
           past == Past(stack, entry)
           n == Len(stack)
<1>1. /\ stack \in Seq(Frame) /\ stack # <<>> /\ IsFileSystem(tree) /\ present \subseteq Node
      /\ stack' = IF kind \in Directories THEN Append(past, frame) ELSE past
  BY TreeIs DEF Visited, IInv, TypeInv
<1>2. /\ n \in DOMAIN stack /\ n \in Nat /\ Last(stack) = stack[n] /\ DOMAIN stack = 1 .. n
      /\ stack[n].path \in Path
  BY <1>1, FramesAre
<1>3. /\ past \in Seq(Frame) /\ Len(past) = n /\ DOMAIN past = DOMAIN stack
      /\ \A k \in DOMAIN stack : past[k].path = stack[k].path /\ past[k].left \subseteq stack[k].left
  BY <1>1, PastIs
<1>4. p \in Path /\ entry.name \in Nat /\ entry \in stack[n].left
  BY <1>1, <1>2, TopIs
<1>5. p = Append(stack[n].path, entry.name)
  BY <1>2
<1> HIDE DEF past, n, p
<1>6. Len(p) = Len(stack[n].path) + 1
  BY <1>2, <1>4, <1>5, AppendedName
<1>7. FrameFits(stack[n], n)
  BY <1>2 DEF DepthInv
<1>8. Len(p) = (n + 1) - 1 /\ (n + 1) - 1 <= MaxDepth /\ n + 1 \in Nat
  BY <1>2, <1>4, <1>6, <1>7, MaxDepthIsNat DEF FrameFits
<1>9. FrameFits(frame, n + 1)
  BY <1>1, <1>4, <1>8, FrameOfListing
<1>10. frame \in Frame
  <2>1. ListingIn(tree, present, p) \subseteq Entry
    BY <1>1, <1>4, ListingIs
  <2> QED
    BY <1>4, <2>1 DEF Frame
<1> HIDE DEF frame
<1>11. ASSUME NEW k \in DOMAIN past PROVE FrameFits(past[k], k)
  <2>1. FrameFits(stack[k], k) /\ past[k].path = stack[k].path /\ past[k].left \subseteq stack[k].left
    BY <1>3, <1>11 DEF DepthInv
  <2> QED
    BY <2>1, FS_Subset DEF FrameFits
<1>12. /\ DOMAIN Append(past, frame) = DOMAIN past \cup {n + 1}
       /\ \A k \in DOMAIN past : Append(past, frame)[k] = past[k]
       /\ Append(past, frame)[n + 1] = frame
  BY <1>3, <1>10, OpenedIs
<1> QED
  BY <1>1, <1>9, <1>11, <1>12 DEF DepthInv

LEMMA DepthStep == IInv /\ DepthInv /\ [Next]_vars => DepthInv'
<1> SUFFICES ASSUME IInv, DepthInv, [Next]_vars PROVE DepthInv'
  OBVIOUS
<1>1. CASE stack' = stack
  BY <1>1 DEF DepthInv
<1>2. CASE OpenDirectory
  BY <1>2, OpenDirectoryDeep
<1>3. CASE VisitEntry
  BY <1>3, VisitMeans, VisitedDeep
<1>4. CASE LeaveDirectory
  <2>1. stack \in Seq(Frame) /\ stack # <<>> /\ stack' = Front(stack)
    BY <1>4 DEF LeaveDirectory, IInv, TypeInv
  <2>2. DOMAIN stack' \subseteq DOMAIN stack /\ \A k \in DOMAIN stack' : stack'[k] = stack[k]
    BY <2>1, ClosedIs
  <2> QED
    BY <2>2 DEF DepthInv
<1>5. stack' = stack \/ OpenDirectory \/ VisitEntry \/ LeaveDirectory
  BY DEF Next, Run, CheckDirectory, ReportNothingFound, SortFiles, Measure, AddResult,
     SkipMissing, SkipUnmeasured, Report, Abort, RemoveNode, vars
<1> QED
  BY <1>1, <1>2, <1>3, <1>4, <1>5

LEMMA DepthInductive == Spec => [](IInv /\ DepthInv)
<1>1. Init => DepthInv
  <2>1. DOMAIN <<>> = {}
    BY EmptySeq
  <2> QED
    BY <2>1 DEF Init, DepthInv
<1> QED
  BY <1>1, DepthStep, BenchmarkInductive, PTL DEF Spec

\* The directories open at once are as many as a path has levels, also where
\* links lead in circles: as many as there are nodes, times the links a path may
\* follow (benchmark.cpp:20-40).
THEOREM OpenIsBoundedHolds == Spec => []OpenIsBounded
<1>1. IInv /\ DepthInv => OpenIsBounded
  <2> SUFFICES ASSUME IInv, DepthInv PROVE OpenIsBounded
    OBVIOUS
  <2>1. stack \in Seq(Frame)
    BY DEF IInv, TypeInv
  <2>2. CASE stack = <<>>
    BY <2>2, EmptySeq, MaxDepthIsNat DEF OpenIsBounded
  <2>3. CASE stack # <<>>
    <3>1. Len(stack) \in DOMAIN stack /\ Len(stack) \in Nat
      BY <2>1, <2>3, FramesAre
    <3>2. Len(stack) - 1 <= MaxDepth
      BY <3>1 DEF DepthInv, FrameFits
    <3> QED
      BY <3>1, <3>2, MaxDepthIsNat DEF OpenIsBounded
  <2> QED
    BY <2>2, <2>3
<1> QED
  BY <1>1, DepthInductive, PTL
\* What a scan still has to do in the open directory of a level: entries, and
\* leaving it.
ToDo(open, level) == IF level \in DOMAIN open THEN 1 + Cardinality(open[level].left) ELSE 0

ScanGetsCloser ==
  \E level \in 1 .. MaxDepth + 1 :
    /\ ToDo(stack, level) \in Nat /\ ToDo(stack', level) \in 0 .. ToDo(stack, level) - 1
    /\ \A above \in 1 .. level - 1 : ToDo(stack', above) = ToDo(stack, above)

Stage ==
  IF phase = "starting" THEN 0
  ELSE IF phase = "opening" THEN 1
  ELSE IF phase = "scanning" THEN 2
  ELSE IF phase \in {"measuring", "naming"} THEN 3 ELSE 4

\* Two steps for each file: the trials and the result.
StepsLeft == 2 * Len(files) - (IF phase = "naming" THEN 1 ELSE 0)

\* Every step brings the benchmark to a later stage, the scan further in one
\* directory and not back in those above, the measuring one step further, or takes
\* nodes away and changes nothing else (benchmark.cpp:20-40, 87-176).  There are
\* five stages, as many directories as OpenIsBounded says, finitely many entries in
\* each: no circle of links and no removal keeps the benchmark going for ever.
BenchmarkAdvances ==
  \/ Stage < Stage'
  \/ UNCHANGED <<Stage, present>> /\ ScanGetsCloser
  \/ UNCHANGED <<Stage, stack, present>> /\ StepsLeft \in Nat /\ StepsLeft' \in 0 .. StepsLeft - 1
  \/ UNCHANGED <<phase, stack, files>> /\ Cardinality(present') < Cardinality(present)

LEMMA VisitedGetsCloser ==
  ASSUME IInv, DepthInv, NEW entry \in Last(stack).left, NEW kind, Visited(entry, kind)
  PROVE  ScanGetsCloser
<1> DEFINE p == Append(Last(stack).path, entry.name)
           frame == [path |-> p, left |-> ListingIn(tree, present, p)]
           past == Past(stack, entry)
           n == Len(stack)
<1>1. /\ stack \in Seq(Frame) /\ stack # <<>> /\ IsFileSystem(tree) /\ present \subseteq Node
      /\ stack' = IF kind \in Directories THEN Append(past, frame) ELSE past
  BY TreeIs DEF Visited, IInv, TypeInv
<1>2. /\ n \in DOMAIN stack /\ n \in Nat /\ Last(stack) = stack[n] /\ DOMAIN stack = 1 .. n
  BY <1>1, FramesAre
<1>3. /\ past \in Seq(Frame) /\ Len(past) = n /\ DOMAIN past = DOMAIN stack
      /\ \A k \in DOMAIN stack : k # n => past[k].left = stack[k].left
      /\ past[n].left = stack[n].left \ {entry}
  BY <1>1, PastIs
<1>4. p \in Path /\ frame \in Frame
  <2>1. p \in Path
    BY <1>1, TopIs
  <2>2. ListingIn(tree, present, p) \subseteq Entry
    BY <1>1, <2>1, ListingIs
  <2> QED
    BY <2>1, <2>2 DEF Frame
<1> HIDE DEF past, n, frame, p
<1>5. entry \in stack[n].left
  BY <1>2
<1>6. FrameFits(stack[n], n)
  BY <1>2 DEF DepthInv
<1>7. DOMAIN stack \subseteq DOMAIN stack' /\ \A k \in DOMAIN stack : stack'[k] = past[k]
  BY <1>1, <1>3, <1>4, OpenedIs
<1>8. \A k \in 1 .. n - 1 : k \in DOMAIN stack /\ k # n
  BY <1>2
<1>9. \A k \in 1 .. n - 1 : ToDo(stack', k) = ToDo(stack, k)
  <2> SUFFICES ASSUME NEW k \in 1 .. n - 1 PROVE ToDo(stack', k) = ToDo(stack, k)
    OBVIOUS
  <2>1. k \in DOMAIN stack /\ k \in DOMAIN stack' /\ stack'[k].left = stack[k].left
    BY <1>3, <1>7, <1>8
  <2> QED
    BY <2>1 DEF ToDo
<1>10. n \in 1 .. MaxDepth + 1
  BY <1>2, <1>6, MaxDepthIsNat DEF FrameFits
<1>11. ToDo(stack, n) \in Nat /\ ToDo(stack', n) \in 0 .. ToDo(stack, n) - 1
  <2>1. ToDo(stack, n) = 1 + Cardinality(stack[n].left) /\ ToDo(stack', n) = 1 + Cardinality(stack[n].left \ {entry})
    BY <1>2, <1>3, <1>7 DEF ToDo
  <2>2. IsFiniteSet(stack[n].left)
    BY <1>6 DEF FrameFits
  <2>3. Cardinality(stack[n].left \ {entry}) = Cardinality(stack[n].left) - 1
    BY <1>5, <2>2, FS_RemoveElement
  <2>4. Cardinality(stack[n].left) \in Nat /\ Cardinality(stack[n].left \ {entry}) \in Nat
    BY <2>2, FS_CardinalityType, FS_RemoveElement
  <2> QED
    BY <2>1, <2>3, <2>4
<1> QED
  BY <1>9, <1>10, <1>11 DEF ScanGetsCloser

LEMMA LeavingGetsCloser == ASSUME IInv, DepthInv, LeaveDirectory PROVE ScanGetsCloser
<1> DEFINE n == Len(stack)
<1>1. stack \in Seq(Frame) /\ stack # <<>> /\ stack' = Front(stack)
  BY DEF LeaveDirectory, IInv, TypeInv
<1>2. n \in DOMAIN stack /\ n \in Nat /\ DOMAIN stack = 1 .. n
  BY <1>1, FramesAre
<1>3. DOMAIN stack' = 1 .. n - 1 /\ \A k \in DOMAIN stack' : stack'[k] = stack[k]
  BY <1>1, ClosedIs
<1> HIDE DEF n
<1>4. FrameFits(stack[n], n)
  BY <1>2 DEF DepthInv
<1>5. n \in 1 .. MaxDepth + 1
  BY <1>2, <1>4, MaxDepthIsNat DEF FrameFits
<1>6. \A k \in 1 .. n - 1 : ToDo(stack', k) = ToDo(stack, k)
  <2> SUFFICES ASSUME NEW k \in 1 .. n - 1 PROVE ToDo(stack', k) = ToDo(stack, k)
    OBVIOUS
  <2>1. k \in DOMAIN stack /\ k \in DOMAIN stack' /\ stack'[k] = stack[k]
    BY <1>2, <1>3
  <2> QED
    BY <2>1 DEF ToDo
<1>7. ToDo(stack, n) \in Nat /\ ToDo(stack', n) \in 0 .. ToDo(stack, n) - 1
  <2>1. Cardinality(stack[n].left) \in Nat
    BY <1>4, FS_CardinalityType DEF FrameFits
  <2>2. ToDo(stack, n) = 1 + Cardinality(stack[n].left)
    BY <1>2 DEF ToDo
  <2>3. n \notin 1 .. n - 1
    BY <1>2
  <2>4. ToDo(stack', n) = 0
    BY <1>3, <2>3 DEF ToDo
  <2> QED
    BY <2>1, <2>2, <2>4
<1> QED
  BY <1>5, <1>6, <1>7 DEF ScanGetsCloser

LEMMA StepAdvances == ASSUME IInv, DepthInv, Next PROVE BenchmarkAdvances
<1> USE DEF Next, Run
<1>1. CASE CheckDirectory \/ OpenDirectory \/ ReportNothingFound \/ SortFiles \/ Report \/ Abort
  <2>1. Stage < Stage'
    BY <1>1 DEF CheckDirectory, OpenDirectory, ReportNothingFound, SortFiles, Report, Abort,
       Measuring, Stage
  <2> QED
    BY <2>1 DEF BenchmarkAdvances
<1>2. CASE VisitEntry
  <2>1. ScanGetsCloser
    BY <1>2, VisitMeans, VisitedGetsCloser
  <2>2. UNCHANGED <<phase, present>>
    BY <1>2 DEF VisitEntry
  <2> QED
    BY <2>1, <2>2 DEF BenchmarkAdvances, Stage
<1>3. CASE LeaveDirectory
  <2>1. ScanGetsCloser
    BY <1>3, LeavingGetsCloser
  <2>2. UNCHANGED <<phase, present>>
    BY <1>3 DEF LeaveDirectory
  <2> QED
    BY <2>1, <2>2 DEF BenchmarkAdvances, Stage
<1>4. CASE Measure
  <2>1. /\ files \in Seq(Path) /\ files # <<>> /\ phase = "measuring" /\ phase' = "naming"
        /\ UNCHANGED <<stack, files, present>>
    BY <1>4 DEF Measure, Measuring, IInv, TypeInv
  <2>2. Len(files) \in Nat \ {0}
    BY <2>1, EmptySeq, LenProperties
  <2>3. StepsLeft = 2 * Len(files) /\ StepsLeft' = 2 * Len(files) - 1
    BY <2>1, <2>2 DEF StepsLeft
  <2>4. StepsLeft \in Nat /\ StepsLeft' \in 0 .. StepsLeft - 1
    BY <2>2, <2>3
  <2> QED
    BY <2>1, <2>4 DEF BenchmarkAdvances, Stage
<1>5. CASE AddResult \/ SkipMissing \/ SkipUnmeasured
  <2>1. /\ phase \in {"measuring", "naming"} /\ phase' = "measuring" /\ files' = Tail(files)
        /\ UNCHANGED <<stack, present>>
    BY <1>5 DEF AddResult, SkipMissing, SkipUnmeasured, Measuring
  <2>2. files \in Seq(Path) /\ files # <<>>
    BY <1>5 DEF AddResult, SkipMissing, SkipUnmeasured, Measuring, IInv, TypeInv, PhaseInv
  <2>3. Len(files) \in Nat \ {0} /\ Len(files') = Len(files) - 1
    BY <2>1, <2>2, EmptySeq, HeadTailProperties, LenProperties
  <2>4. StepsLeft' = 2 * (Len(files) - 1) /\ StepsLeft \in {2 * Len(files), 2 * Len(files) - 1}
    BY <2>1, <2>3 DEF StepsLeft
  <2>5. StepsLeft \in Nat /\ StepsLeft' \in 0 .. StepsLeft - 1
    BY <2>3, <2>4
  <2> QED
    BY <2>1, <2>5 DEF BenchmarkAdvances, Stage
<1>6. CASE RemoveNode
  <2>1. PICK node \in present :
          present' = present \ {n \in Node : IsPrefix(tree.location[node], tree.location[n])}
    BY <1>6 DEF RemoveNode
  <2>2. IsFiniteSet(present) /\ node \in Node
    BY BenchmarkAssumption, FS_Subset DEF IInv, TypeInv
  <2>3. IsPrefix(tree.location[node], tree.location[node])
    BY <2>2, TreeIs, LocationsAre, PrefixFacts DEF IInv
  <2>4. present' \subseteq present /\ present' # present
    BY <2>1, <2>2, <2>3
  <2>5. /\ Cardinality(present) \in Nat /\ Cardinality(present') \in Nat
        /\ Cardinality(present') <= Cardinality(present)
        /\ Cardinality(present') # Cardinality(present)
    BY <2>2, <2>4, FS_CardinalityType, FS_Subset
  <2>6. Cardinality(present') < Cardinality(present)
    BY <2>5
  <2>7. UNCHANGED <<phase, stack, files>>
    BY <1>6 DEF RemoveNode
  <2> QED
    BY <2>6, <2>7 DEF BenchmarkAdvances
<1> QED
  BY <1>1, <1>2, <1>3, <1>4, <1>5, <1>6

\* The benchmark gets on with every step it takes, in every file system, also where
\* links lead in circles and whatever other programs remove (benchmark.cpp:20-40,
\* 87-176).
THEOREM BenchmarkAdvancesHolds == Spec => [][BenchmarkAdvances]_vars
<1>1. IInv /\ DepthInv /\ [Next]_vars => [BenchmarkAdvances]_vars
  BY StepAdvances
<1> QED
  BY <1>1, DepthInductive, PTL DEF Spec
=============================================================================
