-------------------------- MODULE LittleEndianProofs --------------------------
(***************************************************************************)
(* What every proof about bytes counts with: finite sums, the powers of a  *)
(* base, and that a number is read back from the bytes it was stored in.   *)
(***************************************************************************)
EXTENDS LittleEndian, SequenceTheorems, FiniteSetTheorems, WellFoundedInduction, TLAPS

-----------------------------------------------------------------------------
\* Min of a non-empty set of natural numbers is its least element.
LEMMA MinIsLeast ==
  ASSUME NEW S, S \subseteq Nat, S # {}
  PROVE  Min(S) \in S /\ \A y \in S : Min(S) <= y
<1>. DEFINE Less == {ss \in Nat \X Nat : ss[1] < ss[2]}
<1>1. IsWellFoundedOn(Less, Nat)
  BY NatLessThanWellFounded DEF OpToRel
<1>2. PICK x \in S : \A y \in S : ~(<<y, x>> \in Less)
  <2>. HIDE DEF Less
  <2>. QED
    BY <1>1, WFMin
<1>3. ASSUME NEW y \in S PROVE x <= y
  <2>1. x \in Nat /\ y \in Nat
    OBVIOUS
  <2>2. y < x => <<y, x>> \in Less
    BY <2>1
  <2>. HIDE DEF Less
  <2>. QED
    BY <1>2, <2>1, <2>2
<1>. HIDE DEF Less
<1>. QED
  BY <1>3 DEF Min

\* Induction on natural numbers, through the set of those that are good.
LEMMA EveryNumber ==
  ASSUME NEW S, 0 \in S, \A n \in Nat : n \in S => n + 1 \in S
  PROVE  \A n \in Nat : n \in S
<1>. DEFINE missing == Nat \ S
<1>. SUFFICES ASSUME missing # {} PROVE FALSE
  OBVIOUS
<1>1. PICK n \in missing : \A m \in missing : n <= m
  <2>1. missing \subseteq Nat
    OBVIOUS
  <2>. HIDE DEF missing
  <2>. QED
    BY <2>1, MinIsLeast
<1>2. n \in Nat /\ n # 0 /\ n \notin S
  OBVIOUS
<1>3. n - 1 \in Nat /\ ~(n <= n - 1) /\ (n - 1) + 1 = n
  BY <1>2
<1>4. n - 1 \in S
  BY <1>1, <1>3
<1>. QED
  BY <1>2, <1>3, <1>4

-----------------------------------------------------------------------------
(***************************************************************************)
(* Finite sums.                                                            *)
(***************************************************************************)
\* Induction on finite sets, through the set of those that are good.
LEMMA EverySubset ==
  ASSUME NEW S, IsFiniteSet(S), NEW good, {} \in good,
         \A T \in SUBSET S : T # {} /\ (\A x \in T : T \ {x} \in good) => T \in good
  PROVE  \A T \in SUBSET S : T \in good
<1>. DEFINE level == {n \in Nat : \A T \in SUBSET S : Cardinality(T) = n => T \in good}
<1>1. \A T \in SUBSET S : IsFiniteSet(T) /\ Cardinality(T) \in Nat
  BY FS_Subset, FS_CardinalityType
<1>2. 0 \in level
  BY <1>1, FS_EmptySet
<1>3. ASSUME NEW n \in Nat, n \in level PROVE n + 1 \in level
  <2>1. ASSUME NEW T \in SUBSET S, Cardinality(T) = n + 1 PROVE T \in good
    <3>1. ASSUME NEW x \in T PROVE T \ {x} \in good
      <4>1. T \ {x} \in SUBSET S /\ Cardinality(T \ {x}) = Cardinality(T) - 1
        BY <1>1, FS_RemoveElement
      <4>. QED
        BY <1>3, <2>1, <4>1
    <3>2. T # {}
      <4>1. Cardinality(T) # 0
        BY <2>1
      <4>. QED
        BY <4>1, FS_EmptySet
    <3>. QED
      BY <3>1, <3>2
  <2>. QED
    BY <2>1
<1>. HIDE DEF level
<1>4. \A n \in Nat : n \in level
  BY <1>2, <1>3, EveryNumber
<1>. QED
  BY <1>1, <1>4 DEF level

\* One step of the recursion that sums f over the subsets of a set.
SumStep(f, sum, s) ==
  IF s = {} THEN 0 ELSE f[CHOOSE x \in s : TRUE] + sum[s \ {CHOOSE x \in s : TRUE}]

SumsOver(f, S) == CHOOSE sum : sum = [s \in SUBSET S |-> SumStep(f, sum, s)]

LEMMA SumIs ==
  ASSUME NEW f, NEW S
  PROVE  SumFunctionOnSet(f, S) = SumsOver(f, S)[S]
BY DEF SumFunctionOnSet, FoldFunctionOnSet, MapThenFoldSet, SumsOver, SumStep

LEMMA SumsExist ==
  ASSUME NEW f, NEW S, IsFiniteSet(S)
  PROVE  \A s \in SUBSET S : SumsOver(f, S)[s] = SumStep(f, SumsOver(f, S), s)
<1>. DEFINE small(n) == {s \in SUBSET S : Cardinality(s) <= n}
            solves(sum, n) == \A s \in small(n) : sum[s] = SumStep(f, sum, s)
            good == {n \in Nat : \E sum : solves(sum, n)}
<1>1. \A s \in SUBSET S : IsFiniteSet(s) /\ Cardinality(s) \in Nat
  BY FS_Subset, FS_CardinalityType
<1>2. 0 \in good
  <2>. DEFINE sum == [s \in SUBSET S |-> 0]
  <2>1. \A s \in small(0) : s = {}
    BY <1>1, FS_EmptySet
  <2>2. solves(sum, 0)
    BY <2>1 DEF SumStep
  <2>. HIDE DEF sum, solves
  <2>. QED
    BY <2>2
<1>3. ASSUME NEW n \in Nat, n \in good PROVE n + 1 \in good
  <2>1. PICK old : solves(old, n)
    BY <1>3
  <2>. DEFINE new == [s \in SUBSET S |-> SumStep(f, old, s)]
  <2>2. ASSUME NEW s \in small(n) PROVE new[s] = old[s]
    BY <2>1
  <2>3. ASSUME NEW s \in small(n + 1) PROVE new[s] = SumStep(f, new, s)
    <3>1. CASE s = {}
      BY <3>1 DEF SumStep
    <3>2. CASE s # {}
      <4>. DEFINE x == CHOOSE x \in s : TRUE
      <4>1. x \in s
        BY <3>2
      <4>. HIDE DEF x
      <4>2. s \ {x} \in small(n)
        BY <1>1, <4>1, FS_RemoveElement
      <4>3. new[s \ {x}] = old[s \ {x}]
        BY <2>2, <4>2
      <4>4. new[s] = SumStep(f, old, s)
        OBVIOUS
      <4>. HIDE DEF new
      <4>. QED
        BY <3>2, <4>3, <4>4 DEF SumStep, x
    <3>. QED
      BY <3>1, <3>2
  <2>. HIDE DEF new
  <2>4. solves(new, n + 1)
    BY <2>3
  <2>. HIDE DEF solves
  <2>. QED
    BY <2>4
<1>. HIDE DEF good
<1>4. Cardinality(S) \in good
  BY <1>1, <1>2, <1>3, EveryNumber
<1>5. PICK some : solves(some, Cardinality(S))
  BY <1>4 DEF good
<1>6. \A s \in SUBSET S : s \in small(Cardinality(S))
  BY <1>1, FS_Subset
<1>. DEFINE sum == [s \in SUBSET S |-> some[s]]
<1>7. ASSUME NEW s \in SUBSET S PROVE sum[s] = SumStep(f, sum, s)
  <2>1. some[s] = SumStep(f, some, s)
    BY <1>5, <1>6
  <2>2. s \ {CHOOSE x \in s : TRUE} \in SUBSET S
    OBVIOUS
  <2>. QED
    BY <2>1, <2>2 DEF SumStep
<1>8. sum = [s \in SUBSET S |-> SumStep(f, sum, s)]
  <2>1. sum = [s \in SUBSET S |-> sum[s]]
    OBVIOUS
  <2>. HIDE DEF sum
  <2>2. [s \in SUBSET S |-> sum[s]] = [s \in SUBSET S |-> SumStep(f, sum, s)]
    BY <1>7
  <2>. QED
    BY <2>1, <2>2
<1>. HIDE DEF sum
<1>9. SumsOver(f, S) = [s \in SUBSET S |-> SumStep(f, SumsOver(f, S), s)]
  BY <1>8 DEF SumsOver
<1>. QED
  BY <1>9

LEMMA SumsAgree ==
  ASSUME NEW f, NEW S, IsFiniteSet(S), NEW R, R \subseteq S
  PROVE  \A T \in SUBSET R : SumsOver(f, R)[T] = SumsOver(f, S)[T]
<1>. DEFINE good == {T \in SUBSET R : SumsOver(f, R)[T] = SumsOver(f, S)[T]}
<1>1. IsFiniteSet(R)
  BY FS_Subset
<1>2. ASSUME NEW T \in SUBSET R
      PROVE  /\ SumsOver(f, R)[T] = SumStep(f, SumsOver(f, R), T)
             /\ SumsOver(f, S)[T] = SumStep(f, SumsOver(f, S), T)
  <2>1. T \in SUBSET S
    OBVIOUS
  <2>. QED
    BY <1>1, <2>1, SumsExist
<1>3. {} \in good
  BY <1>2 DEF SumStep
<1>4. ASSUME NEW T \in SUBSET R, T # {}, \A x \in T : T \ {x} \in good PROVE T \in good
  <2>1. PICK x : x = CHOOSE e \in T : TRUE
    OBVIOUS
  <2>2. x \in T
    BY <1>4, <2>1
  <2>3. SumsOver(f, R)[T \ {x}] = SumsOver(f, S)[T \ {x}]
    BY <1>4, <2>2
  <2>4. /\ SumsOver(f, R)[T] = f[x] + SumsOver(f, R)[T \ {x}]
        /\ SumsOver(f, S)[T] = f[x] + SumsOver(f, S)[T \ {x}]
    BY <1>2, <1>4, <2>1 DEF SumStep
  <2>. QED
    BY <2>3, <2>4
<1>. HIDE DEF good
<1>5. \A T \in SUBSET R : T \in good
  BY <1>1, <1>3, <1>4, EverySubset
<1>. QED
  BY <1>5 DEF good

LEMMA SumOfNone ==
  ASSUME NEW f
  PROVE  SumFunctionOnSet(f, {}) = 0
<1>1. SumsOver(f, {})[{}] = SumStep(f, SumsOver(f, {}), {})
  BY SumsExist, FS_EmptySet
<1>. QED
  BY <1>1, SumIs DEF SumStep

\* A sum takes some element of the set first.
LEMMA SumOfSome ==
  ASSUME NEW f, NEW S, IsFiniteSet(S), S # {}
  PROVE  \E x \in S : SumFunctionOnSet(f, S) = f[x] + SumFunctionOnSet(f, S \ {x})
<1>1. PICK x : x = CHOOSE e \in S : TRUE
  OBVIOUS
<1>2. x \in S
  BY <1>1
<1>3. SumsOver(f, S)[S] = f[x] + SumsOver(f, S)[S \ {x}]
  <2>1. SumsOver(f, S)[S] = SumStep(f, SumsOver(f, S), S)
    BY SumsExist
  <2>. QED
    BY <1>1, <2>1 DEF SumStep
<1>4. SumsOver(f, S \ {x})[S \ {x}] = SumsOver(f, S)[S \ {x}]
  BY SumsAgree
<1>. QED
  BY <1>2, <1>3, <1>4, SumIs

\* The numbers a set stands for.
AreNumbers(f, S) == \A x \in S : f[x] \in Nat

LEMMA SumIsNat ==
  ASSUME NEW f, NEW S, IsFiniteSet(S), AreNumbers(f, S)
  PROVE  SumFunctionOnSet(f, S) \in Nat
<1>. DEFINE good == {T \in SUBSET S : SumFunctionOnSet(f, T) \in Nat}
<1>1. {} \in good
  BY SumOfNone
<1>2. ASSUME NEW T \in SUBSET S, T # {}, \A x \in T : T \ {x} \in good PROVE T \in good
  <2>1. PICK x \in T : SumFunctionOnSet(f, T) = f[x] + SumFunctionOnSet(f, T \ {x})
    BY <1>2, SumOfSome, FS_Subset
  <2>2. f[x] \in Nat /\ SumFunctionOnSet(f, T \ {x}) \in Nat
    BY <1>2, <2>1 DEF AreNumbers
  <2>. QED
    BY <2>1, <2>2
<1>. HIDE DEF good
<1>3. \A T \in SUBSET S : T \in good
  BY <1>1, <1>2, EverySubset
<1>4. S \in good
  BY <1>3
<1>. QED
  BY <1>4 DEF good

\* Any element may be taken out.
LEMMA SumTakesOut ==
  ASSUME NEW f, NEW S, IsFiniteSet(S), AreNumbers(f, S), NEW y \in S
  PROVE  SumFunctionOnSet(f, S) = f[y] + SumFunctionOnSet(f, S \ {y})
<1>. DEFINE sum(T) == SumFunctionOnSet(f, T)
            good == {T \in SUBSET S : \A z \in T : sum(T) = f[z] + sum(T \ {z})}
<1>0. ASSUME NEW T \in SUBSET S PROVE IsFiniteSet(T) /\ sum(T) \in Nat
  <2>1. IsFiniteSet(T) /\ AreNumbers(f, T)
    BY FS_Subset DEF AreNumbers
  <2>. QED
    BY <2>1, SumIsNat
<1>1. {} \in good
  OBVIOUS
<1>2. ASSUME NEW T \in SUBSET S, T # {}, \A x \in T : T \ {x} \in good PROVE T \in good
  <2>1. PICK x \in T : sum(T) = f[x] + sum(T \ {x})
    BY <1>0, <1>2, SumOfSome
  <2>2. ASSUME NEW z \in T PROVE sum(T) = f[z] + sum(T \ {z})
    <3>1. CASE z = x
      BY <2>1, <3>1
    <3>2. CASE z # x
      <4>1. PICK rest : rest = (T \ {x}) \ {z}
        OBVIOUS
      <4>2. rest = (T \ {z}) \ {x} /\ rest \in SUBSET S
        BY <4>1
      <4>3. sum(T \ {x}) = f[z] + sum(rest) /\ sum(T \ {z}) = f[x] + sum(rest)
        BY <1>2, <3>2, <4>1, <4>2
      <4>4. f[x] \in Nat /\ f[z] \in Nat /\ sum(rest) \in Nat
        BY <1>0, <4>2 DEF AreNumbers
      <4>. HIDE DEF sum
      <4>. QED
        BY <2>1, <4>3, <4>4
    <3>. QED
      BY <3>1, <3>2
  <2>. QED
    BY <2>2
<1>. HIDE DEF good
<1>3. \A T \in SUBSET S : T \in good
  BY <1>1, <1>2, EverySubset
<1>4. S \in good
  BY <1>3
<1>. QED
  BY <1>4 DEF good

LEMMA SumTakesTwo ==
  ASSUME NEW f, NEW S, IsFiniteSet(S), AreNumbers(f, S), NEW a \in S, NEW b \in S, a # b
  PROVE  SumFunctionOnSet(f, S) = f[a] + f[b] + SumFunctionOnSet(f, S \ {a, b})
<1>1. SumFunctionOnSet(f, S) = f[a] + SumFunctionOnSet(f, S \ {a})
  BY SumTakesOut
<1>2. IsFiniteSet(S \ {a}) /\ AreNumbers(f, S \ {a}) /\ b \in S \ {a} /\ (S \ {a}) \ {b} = S \ {a, b}
  BY FS_Subset DEF AreNumbers
<1>3. SumFunctionOnSet(f, S \ {a}) = f[b] + SumFunctionOnSet(f, S \ {a, b})
  BY <1>2, SumTakesOut
<1>4. /\ IsFiniteSet(S \ {a, b}) /\ AreNumbers(f, S \ {a, b})
  BY FS_Subset DEF AreNumbers
<1>5. f[a] \in Nat /\ f[b] \in Nat /\ SumFunctionOnSet(f, S \ {a, b}) \in Nat
  BY <1>4, SumIsNat DEF AreNumbers
<1>. QED
  BY <1>1, <1>3, <1>5

\* Sums of sums, element by element.
LEMMA SumAdds ==
  ASSUME NEW f, NEW g, NEW h, NEW S, IsFiniteSet(S), AreNumbers(f, S), AreNumbers(g, S),
         \A x \in S : h[x] = f[x] + g[x]
  PROVE  SumFunctionOnSet(h, S) = SumFunctionOnSet(f, S) + SumFunctionOnSet(g, S)
<1>. DEFINE good == {T \in SUBSET S :
              SumFunctionOnSet(h, T) = SumFunctionOnSet(f, T) + SumFunctionOnSet(g, T)}
<1>0. ASSUME NEW T \in SUBSET S
      PROVE  /\ IsFiniteSet(T) /\ AreNumbers(f, T) /\ AreNumbers(g, T) /\ AreNumbers(h, T)
             /\ SumFunctionOnSet(f, T) \in Nat /\ SumFunctionOnSet(g, T) \in Nat
  <2>1. IsFiniteSet(T) /\ AreNumbers(f, T) /\ AreNumbers(g, T) /\ AreNumbers(h, T)
    BY FS_Subset DEF AreNumbers
  <2>. QED
    BY <2>1, SumIsNat
<1>1. {} \in good
  BY SumOfNone
<1>2. ASSUME NEW T \in SUBSET S, T # {}, \A x \in T : T \ {x} \in good PROVE T \in good
  <2>1. PICK x : x \in T
    BY <1>2
  <2>2. /\ SumFunctionOnSet(f, T) = f[x] + SumFunctionOnSet(f, T \ {x})
        /\ SumFunctionOnSet(g, T) = g[x] + SumFunctionOnSet(g, T \ {x})
        /\ SumFunctionOnSet(h, T) = h[x] + SumFunctionOnSet(h, T \ {x})
    BY <1>0, <2>1, SumTakesOut
  <2>3. SumFunctionOnSet(h, T \ {x}) = SumFunctionOnSet(f, T \ {x}) + SumFunctionOnSet(g, T \ {x})
    BY <1>2, <2>1
  <2>4. /\ SumFunctionOnSet(f, T \ {x}) \in Nat /\ SumFunctionOnSet(g, T \ {x}) \in Nat
        /\ f[x] \in Nat /\ g[x] \in Nat /\ h[x] = f[x] + g[x]
    BY <1>0, <2>1 DEF AreNumbers
  <2>. QED
    BY <2>2, <2>3, <2>4
<1>. HIDE DEF good
<1>3. \A T \in SUBSET S : T \in good
  BY <1>1, <1>2, EverySubset
<1>4. S \in good
  BY <1>3
<1>. QED
  BY <1>4 DEF good

\* The same numbers, under other names.
LEMMA SumRenamed ==
  ASSUME NEW f, NEW S, IsFiniteSet(S), NEW g, NEW R, NEW to \in [S -> R],
         \A r \in R : \E s \in S : r = to[s],
         \A s, t \in S : to[s] = to[t] => s = t,
         \A s \in S : f[s] = g[to[s]] /\ f[s] \in Nat
  PROVE  SumFunctionOnSet(f, S) = SumFunctionOnSet(g, R)
<1>. DEFINE image(T) == {to[s] : s \in T}
            good == {T \in SUBSET S : IsFiniteSet(image(T)) /\
                                      SumFunctionOnSet(f, T) = SumFunctionOnSet(g, image(T))}
<1>1. {} \in good
  <2>1. image({}) = {}
    OBVIOUS
  <2>. QED
    BY <2>1, SumOfNone, FS_EmptySet
<1>2. ASSUME NEW T \in SUBSET S, T # {}, \A x \in T : T \ {x} \in good PROVE T \in good
  <2>1. PICK x : x \in T
    BY <1>2
  <2>2. to[x] \in image(T) /\ image(T) \ {to[x]} = image(T \ {x}) /\ image(T) = image(T \ {x}) \cup {to[x]}
    BY <2>1
  <2>3. /\ IsFiniteSet(image(T \ {x}))
        /\ SumFunctionOnSet(f, T \ {x}) = SumFunctionOnSet(g, image(T \ {x}))
    BY <1>2, <2>1
  <2>. HIDE DEF image
  <2>4. IsFiniteSet(image(T))
    <3>1. IsFiniteSet(image(T \ {x}) \cup {to[x]})
      BY <2>3, FS_AddElement
    <3>. QED
      BY <2>2, <3>1
  <2>5. SumFunctionOnSet(f, T) = f[x] + SumFunctionOnSet(f, T \ {x})
    <3>1. IsFiniteSet(T) /\ AreNumbers(f, T)
      BY FS_Subset DEF AreNumbers
    <3>. QED
      BY <2>1, <3>1, SumTakesOut
  <2>6. SumFunctionOnSet(g, image(T)) = g[to[x]] + SumFunctionOnSet(g, image(T \ {x}))
    <3>1. AreNumbers(g, image(T))
      BY DEF AreNumbers, image
    <3>2. PICK U, y : U = image(T) /\ y = to[x]
      OBVIOUS
    <3>3. IsFiniteSet(U) /\ AreNumbers(g, U) /\ y \in U
      BY <2>2, <2>4, <3>1, <3>2
    <3>4. SumFunctionOnSet(g, U) = g[y] + SumFunctionOnSet(g, U \ {y})
      BY ONLY <3>3, SumTakesOut
    <3>. QED
      BY <2>2, <3>2, <3>4
  <2>. QED
    BY <2>1, <2>3, <2>4, <2>5, <2>6
<1>3. image(S) = R
  OBVIOUS
<1>. HIDE DEF good
<1>4. S \in good
  BY <1>1, <1>2, EverySubset
<1>. QED
  BY <1>3, <1>4 DEF good

LEMMA SumUnchanged ==
  ASSUME NEW f, NEW g, NEW S, IsFiniteSet(S), \A x \in S : f[x] = g[x] /\ f[x] \in Nat
  PROVE  SumFunctionOnSet(f, S) = SumFunctionOnSet(g, S)
<1>. DEFINE same == [x \in S |-> x]
<1>1. /\ same \in [S -> S] /\ \A x \in S : same[x] = x
  OBVIOUS
<1>. HIDE DEF same
<1>. QED
  BY <1>1, SumRenamed

\* Two sets without a common element.
LEMMA SumOfUnion ==
  ASSUME NEW f, NEW S, NEW R, IsFiniteSet(S), IsFiniteSet(R), S \cap R = {},
         AreNumbers(f, S), AreNumbers(f, R)
  PROVE  SumFunctionOnSet(f, S \cup R) = SumFunctionOnSet(f, S) + SumFunctionOnSet(f, R)
<1>. DEFINE good == {T \in SUBSET S :
              SumFunctionOnSet(f, T \cup R) = SumFunctionOnSet(f, T) + SumFunctionOnSet(f, R)}
<1>0. ASSUME NEW T \in SUBSET S
      PROVE  /\ IsFiniteSet(T) /\ AreNumbers(f, T) /\ IsFiniteSet(T \cup R) /\ AreNumbers(f, T \cup R)
             /\ SumFunctionOnSet(f, T) \in Nat /\ SumFunctionOnSet(f, R) \in Nat
  <2>1. IsFiniteSet(T) /\ AreNumbers(f, T) /\ IsFiniteSet(T \cup R) /\ AreNumbers(f, T \cup R)
    BY FS_Subset, FS_Union DEF AreNumbers
  <2>. QED
    BY <2>1, SumIsNat
<1>1. {} \in good
  <2>1. {} \cup R = R
    OBVIOUS
  <2>. QED
    BY <1>0, <2>1, SumOfNone
<1>2. ASSUME NEW T \in SUBSET S, T # {}, \A x \in T : T \ {x} \in good PROVE T \in good
  <2>1. PICK x : x \in T
    BY <1>2
  <2>2. x \in T \cup R /\ (T \cup R) \ {x} = (T \ {x}) \cup R
    BY <2>1
  <2>8. PICK U : U = T \cup R
    OBVIOUS
  <2>9. /\ IsFiniteSet(T) /\ AreNumbers(f, T)
        /\ IsFiniteSet(U) /\ AreNumbers(f, U) /\ x \in U
    BY <1>0, <2>2, <2>8
  <2>. HIDE DEF good
  <2>6. SumFunctionOnSet(f, T) = f[x] + SumFunctionOnSet(f, T \ {x})
    BY <2>1, <2>9, SumTakesOut
  <2>10. SumFunctionOnSet(f, U) = f[x] + SumFunctionOnSet(f, U \ {x})
    BY <2>9, SumTakesOut
  <2>7. SumFunctionOnSet(f, T \cup R) = f[x] + SumFunctionOnSet(f, (T \cup R) \ {x})
    BY <2>8, <2>10
  <2>3. /\ SumFunctionOnSet(f, T) = f[x] + SumFunctionOnSet(f, T \ {x})
        /\ SumFunctionOnSet(f, T \cup R) = f[x] + SumFunctionOnSet(f, (T \ {x}) \cup R)
    BY <2>2, <2>6, <2>7
  <2>4. SumFunctionOnSet(f, (T \ {x}) \cup R) = SumFunctionOnSet(f, T \ {x}) + SumFunctionOnSet(f, R)
    BY <1>2, <2>1 DEF good
  <2>5. SumFunctionOnSet(f, T \ {x}) \in Nat /\ SumFunctionOnSet(f, R) \in Nat /\ f[x] \in Nat
    BY <1>0, <2>1 DEF AreNumbers
  <2>. QED
    BY <2>3, <2>4, <2>5 DEF good
<1>. HIDE DEF good
<1>3. \A T \in SUBSET S : T \in good
  BY <1>1, <1>2, EverySubset
<1>4. S \in good
  BY <1>3
<1>. QED
  BY <1>4 DEF good

\* A sum of multiples is a multiple.
LEMMA SumOfMultiples ==
  ASSUME NEW f, NEW S, IsFiniteSet(S), NEW q \in Nat,
         \A x \in S : \E k \in Nat : f[x] = k * q
  PROVE  \E k \in Nat : SumFunctionOnSet(f, S) = k * q
<1>. DEFINE good == {T \in SUBSET S : \E k \in Nat : SumFunctionOnSet(f, T) = k * q}
<1>1. {} \in good
  <2>1. 0 * q = 0
    OBVIOUS
  <2>. QED
    BY <2>1, SumOfNone
<1>2. ASSUME NEW T \in SUBSET S, T # {}, \A x \in T : T \ {x} \in good PROVE T \in good
  <2>1. PICK x \in T : SumFunctionOnSet(f, T) = f[x] + SumFunctionOnSet(f, T \ {x})
    BY <1>2, SumOfSome, FS_Subset
  <2>2. PICK k \in Nat : f[x] = k * q
    OBVIOUS
  <2>3. PICK m \in Nat : SumFunctionOnSet(f, T \ {x}) = m * q
    BY <1>2, <2>1
  <2>4. k * q + m * q = (k + m) * q /\ k + m \in Nat
    OBVIOUS
  <2>. QED
    BY <2>1, <2>2, <2>3, <2>4
<1>. HIDE DEF good
<1>3. \A T \in SUBSET S : T \in good
  BY <1>1, <1>2, EverySubset
<1>4. S \in good
  BY <1>3
<1>. QED
  BY <1>4 DEF good

-----------------------------------------------------------------------------
(***************************************************************************)
(* Powers.                                                                 *)
(***************************************************************************)
LEMMA PowerIsDefined ==
  ASSUME NEW base
  PROVE  /\ Power(base)[0] = 1
         /\ \A n \in Nat : Power(base)[n + 1] = base * Power(base)[n]
<1>. DEFINE step(f, n) == IF n = 0 THEN 1 ELSE base * f[n - 1]
            upTo(f, n) == \A k \in 0 .. n : f[k] = step(f, k)
            good == {n \in Nat : \E f : upTo(f, n)}
<1>1. 0 \in good
  <2>. DEFINE f == [k \in 0 .. 0 |-> 1]
  <2>1. upTo(f, 0)
    OBVIOUS
  <2>. HIDE DEF f, upTo
  <2>. QED
    BY <2>1
<1>2. ASSUME NEW n \in Nat, n \in good PROVE n + 1 \in good
  <2>1. PICK f : upTo(f, n)
    BY <1>2
  <2>. DEFINE g == [k \in 0 .. n + 1 |-> IF k = n + 1 THEN base * f[n] ELSE f[k]]
  <2>2. /\ \A k \in 0 .. n : g[k] = f[k]
        /\ g[n + 1] = base * f[n]
    OBVIOUS
  <2>. HIDE DEF g
  <2>3. ASSUME NEW k \in 0 .. n + 1 PROVE g[k] = step(g, k)
    <3>1. CASE k = n + 1
      <4>1. k # 0 /\ k - 1 = n /\ n \in 0 .. n
        BY <3>1
      <4>. QED
        BY <2>2, <3>1, <4>1
    <3>2. CASE k # n + 1
      <4>1. k \in 0 .. n /\ (k # 0 => k - 1 \in 0 .. n)
        BY <3>2
      <4>2. f[k] = step(f, k)
        BY <2>1, <4>1
      <4>. QED
        BY <2>2, <4>1, <4>2
    <3>. QED
      BY <3>1, <3>2
  <2>4. upTo(g, n + 1)
    BY <2>3
  <2>. HIDE DEF upTo
  <2>. QED
    BY <2>4
<1>. HIDE DEF good
<1>3. \A n \in Nat : \E f : upTo(f, n)
  <2>1. \A n \in Nat : n \in good
    BY <1>1, <1>2, EveryNumber
  <2>. QED
    BY <2>1 DEF good
\* Two solutions agree where both are defined.
<1>. DEFINE partial(n) == CHOOSE f : upTo(f, n)
<1>4. ASSUME NEW n \in Nat PROVE upTo(partial(n), n)
  <2>. HIDE DEF upTo
  <2>. QED
    BY <1>3
<1>. HIDE DEF partial
<1>5. ASSUME NEW f, NEW g, NEW n \in Nat, NEW m \in Nat, upTo(f, n), upTo(g, m)
      PROVE  \A k \in Nat : k <= n /\ k <= m => f[k] = g[k]
  <2>. DEFINE same == {k \in Nat : k <= n /\ k <= m => f[k] = g[k]}
  <2>1. 0 \in same
    BY <1>5
  <2>2. ASSUME NEW k \in Nat, k \in same PROVE k + 1 \in same
    <3>. SUFFICES ASSUME k + 1 <= n, k + 1 <= m PROVE f[k + 1] = g[k + 1]
      OBVIOUS
    <3>1. k + 1 \in 0 .. n /\ k + 1 \in 0 .. m /\ k + 1 # 0 /\ (k + 1) - 1 = k /\ k <= n /\ k <= m
      OBVIOUS
    <3>2. f[k + 1] = base * f[k] /\ g[k + 1] = base * g[k] /\ f[k] = g[k]
      BY <1>5, <2>2, <3>1
    <3>. QED
      BY <3>2
  <2>. HIDE DEF same
  <2>3. \A k \in Nat : k \in same
    BY <2>1, <2>2, EveryNumber
  <2>. QED
    BY <2>3 DEF same
<1>. DEFINE all == [n \in Nat |-> partial(n)[n]]
<1>6. ASSUME NEW n \in Nat PROVE all[n] = step(all, n)
  <2>1. partial(n)[n] = step(partial(n), n)
    BY <1>4
  <2>2. CASE n = 0
    BY <2>1, <2>2
  <2>3. CASE n # 0
    <3>1. n - 1 \in Nat /\ n - 1 <= n /\ n - 1 <= n - 1
      BY <2>3
    <3>2. upTo(partial(n), n) /\ upTo(partial(n - 1), n - 1)
      BY <1>4, <3>1
    <3>. HIDE DEF upTo
    <3>3. partial(n)[n - 1] = partial(n - 1)[n - 1]
      BY <1>5, <3>1, <3>2
    <3>. QED
      BY <2>1, <2>3, <3>1, <3>3
  <2>. QED
    BY <2>2, <2>3
<1>7. all = [n \in Nat |-> step(all, n)]
  <2>1. all = [n \in Nat |-> all[n]]
    OBVIOUS
  <2>. HIDE DEF all, step
  <2>2. [n \in Nat |-> all[n]] = [n \in Nat |-> step(all, n)]
    BY <1>6
  <2>. QED
    BY <2>1, <2>2
<1>. HIDE DEF all
<1>. DEFINE power == CHOOSE f : f = [n \in Nat |-> step(f, n)]
<1>8. power = [n \in Nat |-> step(power, n)]
  <2>. HIDE DEF step
  <2>. QED
    BY <1>7
<1>11. Power(base) = power
  BY DEF Power
<1>. HIDE DEF power
<1>9. \A n \in Nat : power[n] = step(power, n)
  BY <1>8
<1>10. \A n \in Nat : n + 1 \in Nat /\ n + 1 # 0 /\ (n + 1) - 1 = n
  OBVIOUS
<1>. QED
  BY <1>9, <1>10, <1>11

LEMMA PowerFacts ==
  ASSUME NEW base \in Nat \ {0}
  PROVE  /\ \A n \in Nat : Power(base)[n] \in Nat \ {0}
         /\ \A n, m \in Nat : Power(base)[n + m] = Power(base)[m] * Power(base)[n]
<1>1. \A n \in Nat : Power(base)[n] \in Nat \ {0}
  <2>. DEFINE good == {n \in Nat : Power(base)[n] \in Nat \ {0}}
  <2>1. 0 \in good
    BY PowerIsDefined
  <2>2. ASSUME NEW n \in Nat, n \in good PROVE n + 1 \in good
    <3>1. PICK p \in Nat \ {0} : p = Power(base)[n]
      BY <2>2
    <3>2. base * p \in Nat \ {0} /\ Power(base)[n + 1] = base * p
      BY <3>1, PowerIsDefined
    <3>. QED
      BY <3>2
  <2>. HIDE DEF good
  <2>3. \A n \in Nat : n \in good
    BY <2>1, <2>2, EveryNumber
  <2>. QED
    BY <2>3 DEF good
<1>2. ASSUME NEW n \in Nat
      PROVE \A m \in Nat : Power(base)[n + m] = Power(base)[m] * Power(base)[n]
  <2>. DEFINE good == {m \in Nat : Power(base)[n + m] = Power(base)[m] * Power(base)[n]}
  <2>1. 0 \in good
    <3>1. n + 0 = n /\ Power(base)[0] * Power(base)[n] = Power(base)[n]
      BY <1>1, PowerIsDefined
    <3>. QED
      BY <3>1
  <2>2. ASSUME NEW m \in Nat, m \in good PROVE m + 1 \in good
    <3>1. PICK x, y, z \in Nat : x = Power(base)[m] /\ y = Power(base)[n] /\ z = Power(base)[n + m]
      BY <1>1
    <3>2. Power(base)[n + (m + 1)] = base * z /\ Power(base)[m + 1] = base * x
      <4>1. n + m \in Nat /\ n + (m + 1) = (n + m) + 1
        OBVIOUS
      <4>. QED
        BY <3>1, <4>1, PowerIsDefined
    <3>3. z = x * y
      BY <2>2, <3>1
    <3>4. base * z = (base * x) * y
      BY <3>3
    <3>. QED
      BY <3>1, <3>2, <3>4
  <2>. HIDE DEF good
  <2>3. \A m \in Nat : m \in good
    BY <2>1, <2>2, EveryNumber
  <2>. QED
    BY <2>3 DEF good
<1>. QED
  BY <1>1, <1>2

\* A larger exponent gives a multiple of the power.
LEMMA PowerDivides ==
  ASSUME NEW base \in Nat \ {0}, NEW m \in Nat, NEW n \in Nat, n <= m
  PROVE  \E k \in Nat : Power(base)[m] = k * Power(base)[n]
<1>1. PICK d \in Nat : n + d = m
  <2>1. m - n \in Nat /\ n + (m - n) = m
    OBVIOUS
  <2>. QED
    BY <2>1
<1>. QED
  BY <1>1, PowerFacts

LEMMA PowersOfTwo ==
  /\ Power(2)[0] = 1 /\ Power(2)[1] = 2
  /\ \A n \in Nat : Power(2)[n] \in Nat \ {0} /\ Power(2)[n + 1] = 2 * Power(2)[n]
  /\ \A m, n \in Nat : Power(2)[m + n] = Power(2)[m] * Power(2)[n]
<1>1. 2 \in Nat \ {0}
  OBVIOUS
<1>2. /\ \A n \in Nat : Power(2)[n] \in Nat \ {0}
      /\ \A n, m \in Nat : Power(2)[n + m] = Power(2)[m] * Power(2)[n]
  BY ONLY <1>1, PowerFacts
<1>3. \A m, n \in Nat : m + n = n + m
  OBVIOUS
<1>4. Power(2)[0] = 1 /\ \A n \in Nat : Power(2)[n + 1] = 2 * Power(2)[n]
  BY PowerIsDefined
<1>5. Power(2)[1] = 2
  <2>1. 0 \in Nat /\ 0 + 1 = 1 /\ 2 * 1 = 2
    OBVIOUS
  <2>. QED
    BY <1>4, <2>1
<1>. QED
  BY <1>2, <1>3, <1>4, <1>5

-----------------------------------------------------------------------------
(***************************************************************************)
(* Numbers and their bytes.                                                *)
(***************************************************************************)
\* A quotient and a remainder are what they are told to be.
LEMMA DivisionIs ==
  ASSUME NEW d \in Nat \ {0}, NEW q \in Nat, NEW r \in 0 .. d - 1
  PROVE  (q * d + r) \div d = q /\ (q * d + r) % d = r
<1>. DEFINE n == q * d + r
            a == n \div d
            b == n % d
<1>1. n \in Nat /\ a \in Int /\ b \in 0 .. d - 1 /\ n = d * a + b
  OBVIOUS
<1>2. n = d * q + r
  OBVIOUS
<1>. HIDE DEF a, b, n
<1>3. a = q
  <2>1. CASE a <= q - 1
    <3>1. d * a <= d * (q - 1)
      BY <1>1, <2>1
    <3>2. d * (q - 1) = d * q - d
      OBVIOUS
    <3>. QED
      BY <1>1, <1>2, <3>1, <3>2
  <2>2. CASE q + 1 <= a
    <3>1. d * (q + 1) <= d * a
      BY <1>1, <2>2
    <3>2. d * (q + 1) = d * q + d
      OBVIOUS
    <3>. QED
      BY <1>1, <1>2, <3>1, <3>2
  <2>. QED
    BY <1>1, <2>1, <2>2
<1>4. b = r
  BY <1>1, <1>2, <1>3
<1>. QED
  BY <1>3, <1>4 DEF n, a, b

\* One digit more needs no more than the base times as many numbers.
LEMMA DigitFits ==
  ASSUME NEW base \in Nat \ {0}, NEW d \in Nat \ {0}, NEW c \in 0 .. base - 1, NEW x \in 0 .. d - 1
  PROVE  c * d + x \in 0 .. base * d - 1
<1>1. c * d \in Nat /\ c * d <= (base - 1) * d
  OBVIOUS
<1>2. (base - 1) * d = base * d - d /\ base * d \in Nat
  OBVIOUS
<1>. QED
  BY <1>1, <1>2

\* The remainder by a longer divisor has one more digit.
LEMMA NextDigit ==
  ASSUME NEW n \in Nat, NEW d \in Nat \ {0}, NEW base \in Nat \ {0}
  PROVE  /\ n \div d \in Nat /\ (n \div d) % base \in 0 .. base - 1 /\ base * d \in Nat \ {0}
         /\ n % (base * d) = ((n \div d) % base) * d + (n % d)
<1>. DEFINE q == n \div d
            r == n % d
            p == q \div base
            c == q % base
<1>2. q \in Nat /\ r \in 0 .. d - 1 /\ n = q * d + r
  OBVIOUS
<1>4. p \in Nat /\ c \in 0 .. base - 1 /\ q = p * base + c
  <2>. HIDE DEF q
  <2>. QED
    BY <1>2
<1>. HIDE DEF q, r, p, c
<1>5. base * d \in Nat \ {0}
  OBVIOUS
<1>6. n = p * (base * d) + (c * d + r)
  <2>1. (p * base + c) * d = p * (base * d) + c * d
    BY <1>4
  <2>. QED
    BY <1>2, <1>4, <2>1
<1>7. c * d + r \in 0 .. base * d - 1
  BY <1>2, <1>4, DigitFits
<1>8. n % (base * d) = c * d + r
  BY <1>4, <1>5, <1>6, <1>7, DivisionIs
<1>. QED
  BY <1>2, <1>4, <1>5, <1>8 DEF c, r, q

\* What each byte adds to the number.
Parts(bytes) == [b \in DOMAIN bytes |-> bytes[b] * ByteValue(b)]

\* What the first k bytes add up to.
FirstBytes(bytes, k) == SumFunctionOnSet(Parts(bytes), 1 .. k)

LEMMA BytesAddUp ==
  ASSUME NEW width \in Nat, NEW bytes \in [1 .. width -> Byte]
  PROVE  /\ FromBytes(bytes) = FirstBytes(bytes, width)
         /\ FirstBytes(bytes, 0) = 0
         /\ \A k \in 0 .. width - 1 :
              /\ FirstBytes(bytes, k) \in Nat
              /\ FirstBytes(bytes, k + 1) = bytes[k + 1] * ByteValue(k + 1) + FirstBytes(bytes, k)
<1>1. \A b \in 1 .. width : ByteValue(b) \in Nat \ {0} /\ bytes[b] \in Nat
  <2>1. \A b \in 1 .. width : b - 1 \in Nat /\ MaxByte + 1 \in Nat \ {0}
    BY ByteStreamAssumption
  <2>2. \A b \in 1 .. width : ByteValue(b) \in Nat \ {0}
    BY <2>1, PowerFacts DEF ByteValue
  <2>3. \A b \in 1 .. width : bytes[b] \in Nat
    BY ByteStreamAssumption DEF Byte
  <2>. QED
    BY <2>2, <2>3
<1>2. /\ DOMAIN Parts(bytes) = 1 .. width
      /\ \A b \in 1 .. width : Parts(bytes)[b] = bytes[b] * ByteValue(b) /\ Parts(bytes)[b] \in Nat
  BY <1>1 DEF Parts
<1>3. FromBytes(bytes) = FirstBytes(bytes, width)
  BY <1>2 DEF FromBytes, FirstBytes, Parts, SumFunction
<1>4. FirstBytes(bytes, 0) = 0
  <2>1. 1 .. 0 = {}
    OBVIOUS
  <2>. QED
    BY <2>1, SumOfNone DEF FirstBytes
<1>5. ASSUME NEW k \in 0 .. width PROVE FirstBytes(bytes, k) \in Nat
  <2>1. IsFiniteSet(1 .. k)
    BY FS_Interval
  <2>2. \A b \in 1 .. k : b \in 1 .. width
    OBVIOUS
  <2>3. AreNumbers(Parts(bytes), 1 .. k)
    BY <1>2, <2>2 DEF AreNumbers
  <2>. QED
    BY <2>1, <2>3, SumIsNat DEF FirstBytes
<1>6. ASSUME NEW k \in 0 .. width - 1
      PROVE  FirstBytes(bytes, k + 1) = bytes[k + 1] * ByteValue(k + 1) + FirstBytes(bytes, k)
  <2>1. PICK S, b : S = 1 .. k + 1 /\ b = k + 1
    OBVIOUS
  <2>4. IsFiniteSet(S)
    <3>1. IsFiniteSet(1 .. k + 1)
      BY FS_Interval
    <3>. QED
      BY <2>1, <3>1
  <2>5. b \in S /\ S \ {b} = 1 .. k /\ b \in 1 .. width /\ \A c \in S : c \in 1 .. width
    BY <2>1
  <2>6. AreNumbers(Parts(bytes), S)
    BY <1>2, <2>5 DEF AreNumbers
  <2>7. SumFunctionOnSet(Parts(bytes), S)
          = Parts(bytes)[b] + SumFunctionOnSet(Parts(bytes), S \ {b})
    BY ONLY <2>4, <2>5, <2>6, SumTakesOut
  <2>. QED
    BY <1>2, <2>1, <2>5, <2>7 DEF FirstBytes
<1>. QED
  BY <1>3, <1>4, <1>5, <1>6

\* A number has as many bytes as it is asked for.
LEMMA ToBytesType ==
  ASSUME NEW n \in Nat, NEW width \in Nat
  PROVE  /\ ToBytes(n, width) \in [1 .. width -> Byte]
         /\ ToBytes(n, width) \in Seq(Byte) /\ Len(ToBytes(n, width)) = width
<1>1. ASSUME NEW b \in 1 .. width
      PROVE  (n \div ByteValue(b)) % (MaxByte + 1) \in Byte
  <2>1. MaxByte + 1 \in Nat \ {0} /\ b - 1 \in Nat /\ 0 .. (MaxByte + 1) - 1 = 0 .. MaxByte
    BY ByteStreamAssumption
  <2>2. PICK d \in Nat \ {0} : d = ByteValue(b)
    BY <2>1, PowerFacts DEF ByteValue
  <2>3. (n \div d) % (MaxByte + 1) \in 0 .. (MaxByte + 1) - 1
    BY <2>1, <2>2, NextDigit
  <2>. QED
    BY <2>1, <2>2, <2>3 DEF Byte
<1>2. ToBytes(n, width) \in [1 .. width -> Byte]
  BY <1>1 DEF ToBytes
<1>. QED
  BY <1>2, LenProperties, SeqDef

\* Bytes never make a number that takes more bytes.
LEMMA FromBytesFits ==
  ASSUME NEW width \in Nat, NEW bytes \in [1 .. width -> Byte]
  PROVE  FromBytes(bytes) \in 0 .. Power(MaxByte + 1)[width] - 1
<1>. DEFINE fits == {k \in Nat : k <= width => FirstBytes(bytes, k) \in 0 .. Power(MaxByte + 1)[k] - 1}
<1>1. MaxByte + 1 \in Nat \ {0}
  BY ByteStreamAssumption
<1>2. 0 \in fits
  <2>1. Power(MaxByte + 1)[0] = 1 /\ FirstBytes(bytes, 0) = 0
    BY <1>1, PowerIsDefined, BytesAddUp
  <2>. QED
    BY <2>1
<1>3. ASSUME NEW k \in Nat, k \in fits PROVE k + 1 \in fits
  <2>. SUFFICES ASSUME k + 1 <= width
                PROVE  FirstBytes(bytes, k + 1) \in 0 .. Power(MaxByte + 1)[k + 1] - 1
    OBVIOUS
  <2>1. k \in 0 .. width - 1 /\ k <= width /\ k + 1 \in 1 .. width /\ (k + 1) - 1 = k
    OBVIOUS
  <2>2. PICK d \in Nat \ {0} : d = Power(MaxByte + 1)[k]
    BY <1>1, PowerFacts
  <2>3. ByteValue(k + 1) = d /\ Power(MaxByte + 1)[k + 1] = (MaxByte + 1) * d
    BY <1>1, <2>1, <2>2, PowerIsDefined DEF ByteValue
  <2>4. PICK x \in 0 .. d - 1 : x = FirstBytes(bytes, k)
    BY <1>3, <2>1, <2>2
  <2>5. PICK c \in 0 .. MaxByte : c = bytes[k + 1]
    BY <2>1 DEF Byte
  <2>6. FirstBytes(bytes, k + 1) = c * d + x
    BY <2>1, <2>3, <2>4, <2>5, BytesAddUp
  <2>7. c \in 0 .. (MaxByte + 1) - 1
    BY <2>5, ByteStreamAssumption
  <2>8. c * d + x \in 0 .. (MaxByte + 1) * d - 1
    BY <1>1, <2>2, <2>4, <2>7, DigitFits
  <2>. QED
    BY <2>3, <2>6, <2>8
<1>. HIDE DEF fits
<1>4. \A k \in Nat : k \in fits
  BY <1>2, <1>3, EveryNumber
<1>5. FirstBytes(bytes, width) \in 0 .. Power(MaxByte + 1)[width] - 1
  BY <1>4 DEF fits
<1>. QED
  BY <1>5, BytesAddUp

\* What the bytes of a number hold when they are few: its lowest ones.
LEMMA LowestBytes ==
  ASSUME NEW n \in Nat, NEW width \in Nat
  PROVE  FromBytes(ToBytes(n, width)) = n % Power(MaxByte + 1)[width]
<1>. DEFINE bytes == ToBytes(n, width)
            read == {k \in Nat : k <= width => FirstBytes(bytes, k) = n % Power(MaxByte + 1)[k]}
<1>1. MaxByte + 1 \in Nat \ {0} /\ bytes \in [1 .. width -> Byte]
  BY ByteStreamAssumption, ToBytesType
<1>. HIDE DEF bytes
<1>2. 0 \in read
  <2>1. Power(MaxByte + 1)[0] = 1 /\ FirstBytes(bytes, 0) = 0
    BY <1>1, PowerIsDefined, BytesAddUp
  <2>2. n % 1 = 0
    OBVIOUS
  <2>. QED
    BY <2>1, <2>2
<1>3. ASSUME NEW k \in Nat, k \in read PROVE k + 1 \in read
  <2>. SUFFICES ASSUME k + 1 <= width
                PROVE  FirstBytes(bytes, k + 1) = n % Power(MaxByte + 1)[k + 1]
    OBVIOUS
  <2>1. k \in 0 .. width - 1 /\ k <= width /\ k + 1 \in 1 .. width /\ (k + 1) - 1 = k
    OBVIOUS
  <2>2. PICK d \in Nat \ {0} : d = Power(MaxByte + 1)[k]
    BY <1>1, PowerFacts
  <2>3. ByteValue(k + 1) = d /\ Power(MaxByte + 1)[k + 1] = (MaxByte + 1) * d
    BY <1>1, <2>1, <2>2, PowerIsDefined DEF ByteValue
  <2>4. bytes[k + 1] = (n \div d) % (MaxByte + 1)
    BY <2>1, <2>3 DEF bytes, ToBytes
  <2>5. FirstBytes(bytes, k) = n % d
    BY <1>3, <2>1, <2>2
  <2>6. FirstBytes(bytes, k + 1) = bytes[k + 1] * ByteValue(k + 1) + FirstBytes(bytes, k)
    BY <1>1, <2>1, BytesAddUp
  <2>7. n % ((MaxByte + 1) * d) = ((n \div d) % (MaxByte + 1)) * d + (n % d)
    BY <1>1, <2>2, NextDigit
  <2>. QED
    BY <2>3, <2>4, <2>5, <2>6, <2>7
<1>. HIDE DEF read
<1>4. \A k \in Nat : k \in read
  BY <1>2, <1>3, EveryNumber
<1>5. FirstBytes(bytes, width) = n % Power(MaxByte + 1)[width]
  BY <1>4 DEF read
<1>. QED
  BY <1>1, <1>5, BytesAddUp DEF bytes

\* A number is read back from the bytes it was stored in, if they are enough.
THEOREM BytesAreReadBack ==
  ASSUME NEW width \in Nat, NEW n \in 0 .. Power(MaxByte + 1)[width] - 1
  PROVE  FromBytes(ToBytes(n, width)) = n
<1>1. MaxByte + 1 \in Nat \ {0}
  BY ByteStreamAssumption
<1>2. PICK d \in Nat \ {0} : d = Power(MaxByte + 1)[width]
  BY <1>1, PowerFacts
<1>3. n % d = n
  BY <1>2
<1>. QED
  BY <1>2, <1>3, LowestBytes
=============================================================================
