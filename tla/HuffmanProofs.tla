----------------------------- MODULE HuffmanProofs -----------------------------
(***************************************************************************)
(* Proofs about HuffmanBuild, for any frequency table: no value is lost or *)
(* coded twice, the codes are prefix-free, no child is missing, every      *)
(* round has one outcome, the loop ends in a tree, and no prefix code is   *)
(* shorter than the one that tree stands for.                              *)
(*                                                                         *)
(* Proofs about HuffmanArchive, for any inputs and any damage.  The parts  *)
(* of the invariant about types, sizes and the tree hold for whatever      *)
(* bytes the decoder is given; WriterInv, ReaderInv, CodingInv and         *)
(* RestoreInv follow the encoder's own archive bit by bit and give that it *)
(* is decoded to its input: HuffmanArchive implements ArchiveContract.     *)
(***************************************************************************)
EXTENDS HuffmanArchive, HuffmanBuild, LittleEndianProofs

-----------------------------------------------------------------------------
(***************************************************************************)
(* What build_tree does to the nodes in its heap, for every frequency      *)
(* table: what its own proofs need, and those about the encoder and the    *)
(* decoder that call it.                                                   *)
(***************************************************************************)
\* A bit in front of a code.
LEMMA BitInFront ==
  ASSUME NEW b \in Bit, NEW s \in Seq(Bit)
  PROVE  /\ <<b>> \o s \in Seq(Bit)
         /\ Len(<<b>> \o s) = Len(s) + 1
         /\ (<<b>> \o s)[1] = b
         /\ \A i \in 2 .. Len(s) + 1 : (<<b>> \o s)[i] = s[i - 1]
<1>1. <<b>> \in Seq(Bit) /\ Len(<<b>>) = 1 /\ <<b>>[1] = b
  OBVIOUS
<1>. QED
  BY <1>1, ConcatProperties

\* A prefix, element by element.
LEMMA PrefixByElement ==
  ASSUME NEW s \in Seq(Bit), NEW t \in Seq(Bit)
  PROVE  IsPrefix(s, t) <=>
           Len(s) <= Len(t) /\ \A i \in 1 .. Len(s) : s[i] = t[i]
<1>1. SubSeq(s, 1, Len(s)) = s
  BY SubSeqFull
<1>2. ASSUME Len(s) <= Len(t)
      PROVE  /\ SubSeq(t, 1, Len(s)) \in Seq(Bit)
             /\ Len(SubSeq(t, 1, Len(s))) = Len(s)
             /\ \A i \in 1 .. Len(s) : SubSeq(t, 1, Len(s))[i] = t[i]
  BY <1>2, SubSeqProperties
<1>3. ASSUME Len(s) <= Len(t), \A i \in 1 .. Len(s) : s[i] = t[i]
      PROVE  s = SubSeq(t, 1, Len(s))
  BY <1>2, <1>3, SeqEqual
<1>. QED
  BY <1>1, <1>2, <1>3 DEF IsPrefix

\* The same bit in front of two codes, or different ones.
LEMMA PrefixInFront ==
  ASSUME NEW b \in Bit, NEW c \in Bit, NEW s \in Seq(Bit), NEW t \in Seq(Bit),
         IsPrefix(<<b>> \o s, <<c>> \o t)
  PROVE  b = c /\ IsPrefix(s, t)
<1>. DEFINE bs == <<b>> \o s
            ct == <<c>> \o t
<1>1. /\ bs \in Seq(Bit) /\ Len(bs) = Len(s) + 1 /\ bs[1] = b
      /\ \A i \in 2 .. Len(s) + 1 : bs[i] = s[i - 1]
  BY BitInFront
<1>2. /\ ct \in Seq(Bit) /\ Len(ct) = Len(t) + 1 /\ ct[1] = c
      /\ \A i \in 2 .. Len(t) + 1 : ct[i] = t[i - 1]
  BY BitInFront
<1>. HIDE DEF bs, ct
<1>3. Len(bs) <= Len(ct) /\ \A i \in 1 .. Len(bs) : bs[i] = ct[i]
  BY <1>1, <1>2, PrefixByElement DEF bs, ct
<1>4. Len(s) \in Nat /\ Len(t) \in Nat
  OBVIOUS
<1>5. b = c /\ Len(s) <= Len(t)
  BY <1>1, <1>2, <1>3, <1>4
<1>6. ASSUME NEW i \in 1 .. Len(s) PROVE s[i] = t[i]
  <2>1. i + 1 \in 2 .. Len(s) + 1 /\ i + 1 \in 2 .. Len(t) + 1 /\ i + 1 \in 1 .. Len(bs)
    BY <1>1, <1>4, <1>5
  <2>2. bs[i + 1] = s[(i + 1) - 1]
    BY ONLY <1>1, <2>1
  <2>3. ct[i + 1] = t[(i + 1) - 1]
    BY ONLY <1>2, <2>1
  <2>4. bs[i + 1] = ct[i + 1]
    BY ONLY <1>3, <2>1
  <2>5. (i + 1) - 1 = i
    OBVIOUS
  <2>. QED
    BY <2>2, <2>3, <2>4, <2>5
<1>. QED
  BY <1>5, <1>6, PrefixByElement

-----------------------------------------------------------------------------
(***************************************************************************)
(* One merge: what Join makes of two trees without common leaves.          *)
(***************************************************************************)
Disjoint(a, b) == Values(a) \cap Values(b) = {}

\* The leaves of the parent and their codes.
LEMMA JoinFacts ==
  ASSUME NEW a, NEW b, Disjoint(a, b)
  PROVE  /\ Join(a, b).frequency = (a.frequency + b.frequency) % SizeMod
         /\ Values(Join(a, b)) = Values(a) \cup Values(b)
         /\ \A v \in Values(a) : Join(a, b).codes[v] = <<0>> \o a.codes[v]
         /\ \A v \in Values(b) : Join(a, b).codes[v] = <<1>> \o b.codes[v]
<1>. DEFINE codes == [v \in Values(a) \cup Values(b) |->
                        IF v \in Values(a) THEN <<0>> \o a.codes[v] ELSE <<1>> \o b.codes[v]]
<1>1. /\ Join(a, b).codes = codes
      /\ Join(a, b).frequency = (a.frequency + b.frequency) % SizeMod
  BY DEF Join, ParentFrequency
<1>2. DOMAIN codes = Values(a) \cup Values(b)
  OBVIOUS
<1>3. \A v \in Values(a) : codes[v] = <<0>> \o a.codes[v]
  OBVIOUS
<1>4. \A v \in Values(b) : codes[v] = <<1>> \o b.codes[v]
  BY DEF Disjoint
<1>. QED
  BY <1>1, <1>2, <1>3, <1>4 DEF Values

\* The parent of two nodes is a node.
LEMMA JoinType ==
  ASSUME NEW a, NEW b, NodeTypeOK(a), NodeTypeOK(b), Disjoint(a, b)
  PROVE  NodeTypeOK(Join(a, b))
<1>1. (a.frequency + b.frequency) % SizeMod \in Size
  BY ByteStreamAssumption DEF NodeTypeOK, Size
<1>2. ASSUME NEW v \in Values(a) PROVE <<0>> \o a.codes[v] \in Seq(Bit)
  BY BitInFront DEF NodeTypeOK, Bit
<1>3. ASSUME NEW v \in Values(b) PROVE <<1>> \o b.codes[v] \in Seq(Bit)
  BY BitInFront DEF NodeTypeOK, Bit
<1>. DEFINE n == Join(a, b)
<1>4. /\ n.frequency = (a.frequency + b.frequency) % SizeMod
      /\ Values(n) = Values(a) \cup Values(b)
      /\ \A v \in Values(a) : n.codes[v] = <<0>> \o a.codes[v]
      /\ \A v \in Values(b) : n.codes[v] = <<1>> \o b.codes[v]
  BY JoinFacts
<1>. HIDE DEF n
<1>5. Values(n) \subseteq Byte /\ Values(n) # {}
  BY <1>4 DEF NodeTypeOK
<1>6. \A v \in Values(n) : n.codes[v] \in Seq(Bit)
  <2>1. \A v \in Values(a) : n.codes[v] \in Seq(Bit)
    BY <1>2, <1>4
  <2>2. \A v \in Values(b) : n.codes[v] \in Seq(Bit)
    BY <1>3, <1>4
  <2>. QED
    BY <1>4, <2>1, <2>2
<1>7. n.frequency \in Size
  BY <1>1, <1>4
<1>8. NodeTypeOK(n)
  BY <1>5, <1>6, <1>7 DEF NodeTypeOK
<1>. QED
  BY <1>8 DEF n

\* Two prefix-free trees make a prefix-free one.
LEMMA JoinPrefixFree ==
  ASSUME NEW a, NEW b, NodeTypeOK(a), NodeTypeOK(b), Disjoint(a, b),
         CodesPrefixFree(a), CodesPrefixFree(b)
  PROVE  CodesPrefixFree(Join(a, b))
<1>. DEFINE n == Join(a, b)
<1>. SUFFICES ASSUME NEW v \in Values(n), NEW w \in Values(n), v # w,
                     IsPrefix(n.codes[v], n.codes[w])
              PROVE  FALSE
  BY DEF CodesPrefixFree
<1>1. /\ Values(n) = Values(a) \cup Values(b)
      /\ \A x \in Values(a) : n.codes[x] = <<0>> \o a.codes[x]
      /\ \A x \in Values(b) : n.codes[x] = <<1>> \o b.codes[x]
  BY JoinFacts
<1>. HIDE DEF n
<1>2. 0 \in Bit /\ 1 \in Bit /\ 0 # 1
  BY DEF Bit
<1>3. /\ \A x \in Values(a) : a.codes[x] \in Seq(Bit)
      /\ \A x \in Values(b) : b.codes[x] \in Seq(Bit)
  BY DEF NodeTypeOK
<1>4. CASE v \in Values(a) /\ w \in Values(a)
  <2>1. IsPrefix(<<0>> \o a.codes[v], <<0>> \o a.codes[w])
    BY <1>1, <1>4
  <2>2. IsPrefix(a.codes[v], a.codes[w])
    BY <1>2, <1>3, <1>4, <2>1, PrefixInFront
  <2>. QED
    BY <1>4, <2>2 DEF CodesPrefixFree
<1>5. CASE v \in Values(b) /\ w \in Values(b)
  <2>1. IsPrefix(<<1>> \o b.codes[v], <<1>> \o b.codes[w])
    BY <1>1, <1>5
  <2>2. IsPrefix(b.codes[v], b.codes[w])
    BY <1>2, <1>3, <1>5, <2>1, PrefixInFront
  <2>. QED
    BY <1>5, <2>2 DEF CodesPrefixFree
<1>6. CASE v \in Values(a) /\ w \in Values(b)
  <2>1. IsPrefix(<<0>> \o a.codes[v], <<1>> \o b.codes[w])
    BY <1>1, <1>6
  <2>. QED
    BY <1>2, <1>3, <1>6, <2>1, PrefixInFront
<1>7. CASE v \in Values(b) /\ w \in Values(a)
  <2>1. IsPrefix(<<1>> \o b.codes[v], <<0>> \o a.codes[w])
    BY <1>1, <1>7
  <2>. QED
    BY <1>2, <1>3, <1>7, <2>1, PrefixInFront
<1>. QED
  BY <1>1, <1>4, <1>5, <1>6, <1>7

\* Below the new root a tree is as complete as it was.
LEMMA CompleteBelowRoot ==
  ASSUME NEW m, NEW n, NEW b \in Bit,
         NodeTypeOK(m), CodesComplete(m), Values(m) \subseteq Values(n),
         \A x \in Values(m) : n.codes[x] = <<b>> \o m.codes[x],
         NEW v \in Values(m), NEW i \in 2 .. Len(n.codes[v])
  PROVE  Branches(n, v, i)
<1>1. \A x \in Values(m) :
        /\ m.codes[x] \in Seq(Bit)
        /\ Len(m.codes[x]) \in Nat
        /\ Len(n.codes[x]) = Len(m.codes[x]) + 1
        /\ n.codes[x][1] = b
        /\ \A k \in 2 .. Len(m.codes[x]) + 1 : n.codes[x][k] = m.codes[x][k - 1]
  <2>. SUFFICES ASSUME NEW x \in Values(m)
                PROVE  /\ m.codes[x] \in Seq(Bit)
                       /\ Len(m.codes[x]) \in Nat
                       /\ Len(n.codes[x]) = Len(m.codes[x]) + 1
                       /\ n.codes[x][1] = b
                       /\ \A k \in 2 .. Len(m.codes[x]) + 1 : n.codes[x][k] = m.codes[x][k - 1]
    OBVIOUS
  <2>1. m.codes[x] \in Seq(Bit)
    BY DEF NodeTypeOK
  <2>2. Len(m.codes[x]) \in Nat
    BY <2>1
  <2>3. n.codes[x] = <<b>> \o m.codes[x]
    OBVIOUS
  <2>4. /\ Len(<<b>> \o m.codes[x]) = Len(m.codes[x]) + 1
        /\ (<<b>> \o m.codes[x])[1] = b
        /\ \A k \in 2 .. Len(m.codes[x]) + 1 : (<<b>> \o m.codes[x])[k] = m.codes[x][k - 1]
    BY <2>1, BitInFront
  <2>. QED
    BY ONLY <2>1, <2>2, <2>3, <2>4
<1>2. i - 1 \in 1 .. Len(m.codes[v]) /\ i \in 2 .. Len(m.codes[v]) + 1
  BY <1>1
<1>3. PICK w \in Values(m) :
        /\ Len(m.codes[w]) >= i - 1
        /\ \A k \in 1 .. (i - 1) - 1 : m.codes[w][k] = m.codes[v][k]
        /\ m.codes[w][i - 1] # m.codes[v][i - 1]
  BY <1>2 DEF CodesComplete, Branches
<1>4. Len(m.codes[w]) \in Nat /\ Len(n.codes[w]) = Len(m.codes[w]) + 1
  BY <1>1
<1>5. Len(n.codes[w]) >= i /\ i \in 2 .. Len(m.codes[w]) + 1
  BY <1>2, <1>3, <1>4
<1>6. n.codes[w][i] # n.codes[v][i]
  BY <1>1, <1>2, <1>3, <1>5
<1>7. ASSUME NEW k \in 1 .. i - 1 PROVE n.codes[w][k] = n.codes[v][k]
  <2>1. CASE k = 1
    BY <1>1, <2>1
  <2>2. CASE k # 1
    <3>1. /\ k - 1 \in 1 .. (i - 1) - 1
          /\ k \in 2 .. Len(m.codes[v]) + 1
          /\ k \in 2 .. Len(m.codes[w]) + 1
      BY <1>2, <1>4, <1>5, <2>2
    <3>2. m.codes[w][k - 1] = m.codes[v][k - 1]
      BY <1>3, <3>1
    <3>. QED
      BY <1>1, <3>1, <3>2
  <2>. QED
    BY <2>1, <2>2
<1>. QED
  BY <1>5, <1>6, <1>7 DEF Branches

\* Two complete trees make a complete one.
LEMMA JoinComplete ==
  ASSUME NEW a, NEW b, NodeTypeOK(a), NodeTypeOK(b), Disjoint(a, b),
         CodesComplete(a), CodesComplete(b)
  PROVE  CodesComplete(Join(a, b))
<1>. DEFINE n == Join(a, b)
<1>. SUFFICES ASSUME NEW v \in Values(n), NEW i \in 1 .. Len(n.codes[v])
              PROVE  Branches(n, v, i)
  BY DEF CodesComplete
<1>1. /\ Values(n) = Values(a) \cup Values(b)
      /\ \A x \in Values(a) : n.codes[x] = <<0>> \o a.codes[x]
      /\ \A x \in Values(b) : n.codes[x] = <<1>> \o b.codes[x]
  BY JoinFacts
<1>. HIDE DEF n
<1>2. 0 \in Bit /\ 1 \in Bit
  BY DEF Bit
<1>3. \A x \in Values(a) : Len(n.codes[x]) \in Nat \ {0} /\ n.codes[x][1] = 0
  <2> TAKE x \in Values(a)
  <2>1. a.codes[x] \in Seq(Bit) /\ Len(a.codes[x]) \in Nat
    BY LenProperties DEF NodeTypeOK
  <2>2. Len(<<0>> \o a.codes[x]) = Len(a.codes[x]) + 1 /\ (<<0>> \o a.codes[x])[1] = 0
    BY <1>2, <2>1, BitInFront
  <2> QED
    BY <1>1, <2>1, <2>2
<1>4. \A x \in Values(b) : Len(n.codes[x]) \in Nat \ {0} /\ n.codes[x][1] = 1
  <2> TAKE x \in Values(b)
  <2>1. b.codes[x] \in Seq(Bit) /\ Len(b.codes[x]) \in Nat
    BY LenProperties DEF NodeTypeOK
  <2>2. Len(<<1>> \o b.codes[x]) = Len(b.codes[x]) + 1 /\ (<<1>> \o b.codes[x])[1] = 1
    BY <1>2, <2>1, BitInFront
  <2> QED
    BY <1>1, <2>1, <2>2
<1>5. PICK x \in Values(a) : TRUE
  BY DEF NodeTypeOK
<1>6. PICK y \in Values(b) : TRUE
  BY DEF NodeTypeOK
<1>7. CASE i = 1 /\ v \in Values(a)
  <2>1. /\ Len(n.codes[y]) >= i
        /\ \A k \in 1 .. i - 1 : n.codes[y][k] = n.codes[v][k]
        /\ n.codes[y][i] # n.codes[v][i]
    BY <1>3, <1>4, <1>7
  <2>. QED
    BY <1>1, <2>1 DEF Branches
<1>8. CASE i = 1 /\ v \in Values(b)
  <2>1. /\ Len(n.codes[x]) >= i
        /\ \A k \in 1 .. i - 1 : n.codes[x][k] = n.codes[v][k]
        /\ n.codes[x][i] # n.codes[v][i]
    BY <1>3, <1>4, <1>8
  <2>. QED
    BY <1>1, <2>1 DEF Branches
<1>9. CASE i # 1 /\ v \in Values(a)
  <2>1. i \in 2 .. Len(n.codes[v]) /\ Values(a) \subseteq Values(n)
    BY <1>1, <1>9
  <2>2. \A z \in Values(a) : n.codes[z] = <<0>> \o a.codes[z]
    BY <1>1
  <2>3. NodeTypeOK(a) /\ CodesComplete(a) /\ v \in Values(a) /\ 0 \in Bit
    BY <1>2, <1>9
  <2>. QED
    BY <2>1, <2>2, <2>3, CompleteBelowRoot
<1>10. CASE i # 1 /\ v \in Values(b)
  <2>1. i \in 2 .. Len(n.codes[v]) /\ Values(b) \subseteq Values(n)
    BY <1>1, <1>10
  <2>2. \A z \in Values(b) : n.codes[z] = <<1>> \o b.codes[z]
    BY <1>1
  <2>3. NodeTypeOK(b) /\ CodesComplete(b) /\ v \in Values(b) /\ 1 \in Bit
    BY <1>2, <1>10
  <2>. QED
    BY <2>1, <2>2, <2>3, CompleteBelowRoot
<1>. QED
  BY <1>1, <1>7, <1>8, <1>9, <1>10

-----------------------------------------------------------------------------
(***************************************************************************)
(* The heap before the first round.                                        *)
(***************************************************************************)
\* A leaf on its own is a tree with one empty code.
LEMMA LeafFacts ==
  ASSUME NEW v \in Byte, NEW f \in Size
  PROVE  /\ Values(Leaf(v, f)) = {v}
         /\ NodeTypeOK(Leaf(v, f))
         /\ CodesPrefixFree(Leaf(v, f))
         /\ CodesComplete(Leaf(v, f))
<1>1. Leaf(v, f).frequency = f /\ Leaf(v, f).codes = [x \in {v} |-> <<>>]
  BY DEF Leaf
<1>2. Values(Leaf(v, f)) = {v}
  BY <1>1 DEF Values
<1>3. Leaf(v, f).codes[v] = <<>>
  BY <1>1
<1>4. NodeTypeOK(Leaf(v, f))
  BY <1>1, <1>2, <1>3 DEF NodeTypeOK
<1>5. CodesPrefixFree(Leaf(v, f))
  BY <1>2 DEF CodesPrefixFree
<1>6. CodesComplete(Leaf(v, f))
  BY <1>2, <1>3 DEF CodesComplete
<1>. QED
  BY <1>2, <1>4, <1>5, <1>6

\* Trees that have no leaf in common, each with a full prefix code.
Forest(trees) ==
  /\ \A node \in trees : NodeTypeOK(node) /\ CodesPrefixFree(node) /\ CodesComplete(node)
  /\ \A a, b \in trees : a # b => Disjoint(a, b)

Leaves(trees) == UNION {Values(node) : node \in trees}

\* The first heap has a leaf for every value that occurs.
LEMMA MakeHeapForest ==
  ASSUME NEW freqs \in Frequencies
  PROVE  /\ Forest(MakeHeap(freqs)) /\ IsFiniteSet(MakeHeap(freqs))
         /\ Leaves(MakeHeap(freqs)) = {x \in Byte : freqs[x] > 0}
<1>. DEFINE S == {x \in Byte : freqs[x] > 0}
            H == MakeHeap(freqs)
<1>1. H = {Leaf(v, freqs[v]) : v \in S}
  BY DEF MakeHeap
<1>2. \A v \in S : /\ Values(Leaf(v, freqs[v])) = {v}
                   /\ NodeTypeOK(Leaf(v, freqs[v]))
                   /\ CodesPrefixFree(Leaf(v, freqs[v]))
                   /\ CodesComplete(Leaf(v, freqs[v]))
  BY LeafFacts DEF Frequencies
<1>3. IsFiniteSet(S)
  <2>1. IsFiniteSet(Byte)
    BY ByteStreamAssumption, FS_Interval DEF Byte
  <2>2. S \in SUBSET Byte
    OBVIOUS
  <2>. QED
    BY <2>1, <2>2, FS_Subset
<1>. HIDE DEF S, H
<1>4. IsFiniteSet(H)
  <2>. DEFINE f == [v \in S |-> Leaf(v, freqs[v])]
  <2>1. f \in Surjection(S, H)
    BY <1>1 DEF Surjection
  <2>. HIDE DEF f
  <2>. QED
    BY <1>3, <2>1, FS_Surjection
<1>5. Leaves(H) = S
  BY <1>1, <1>2 DEF Leaves
<1>6. ASSUME NEW a \in H, NEW b \in H, a # b PROVE Disjoint(a, b)
  <2>1. PICK v \in S : a = Leaf(v, freqs[v])
    BY <1>1
  <2>2. PICK w \in S : b = Leaf(w, freqs[w])
    BY <1>1
  <2>3. Values(a) = {v} /\ Values(b) = {w} /\ v # w
    BY <1>2, <1>6, <2>1, <2>2
  <2>. QED
    BY <2>3 DEF Disjoint
<1>7. Forest(H)
  BY <1>1, <1>2, <1>6 DEF Forest
<1>. QED
  BY <1>4, <1>5, <1>7 DEF S, H

\* A round of the loop replaces two trees by one with the leaves of both.
LEMMA MergeRoundForest ==
  ASSUME NEW trees, Forest(trees), NEW merged \in MergeRound(trees)
  PROVE  /\ Forest(merged) /\ Leaves(merged) = Leaves(trees) /\ merged # {}
         /\ IsFiniteSet(trees) => IsFiniteSet(merged)
<1>1. PICK pair \in PopTwo(trees) :
        merged = (trees \ {pair[1], pair[2]}) \cup {Join(pair[1], pair[2])}
  BY DEF MergeRound
<1>. DEFINE a == pair[1]
            b == pair[2]
<1>2. a \in trees /\ b \in trees /\ a # b
  BY DEF PopTwo
<1>3. merged = (trees \ {a, b}) \cup {Join(a, b)}
  BY <1>1
<1>. HIDE DEF a, b
<1>4. Disjoint(a, b)
  BY <1>2 DEF Forest
<1>5. /\ NodeTypeOK(a) /\ CodesPrefixFree(a) /\ CodesComplete(a)
      /\ NodeTypeOK(b) /\ CodesPrefixFree(b) /\ CodesComplete(b)
  BY <1>2 DEF Forest
<1>6. NodeTypeOK(Join(a, b)) /\ CodesPrefixFree(Join(a, b)) /\ CodesComplete(Join(a, b))
  BY <1>4, <1>5, JoinType, JoinPrefixFree, JoinComplete
<1>7. Values(Join(a, b)) = Values(a) \cup Values(b)
  BY <1>4, JoinFacts
<1>8. \A node \in merged : NodeTypeOK(node) /\ CodesPrefixFree(node) /\ CodesComplete(node)
  BY <1>3, <1>6 DEF Forest
<1>9. ASSUME NEW c \in merged, NEW d \in merged, c # d PROVE Disjoint(c, d)
  BY <1>2, <1>3, <1>7, <1>9 DEF Forest, Disjoint
<1>10. Leaves(merged) = Leaves(trees)
  BY <1>2, <1>3, <1>7 DEF Leaves
<1>11. ASSUME IsFiniteSet(trees) PROVE IsFiniteSet(merged)
  <2>1. IsFiniteSet((trees \ {a}) \ {b})
    BY <1>11, FS_RemoveElement
  <2>2. merged = ((trees \ {a}) \ {b}) \cup {Join(a, b)}
    BY <1>3
  <2>. QED
    BY <2>1, <2>2, FS_AddElement
<1>. QED
  BY <1>3, <1>8, <1>9, <1>10, <1>11 DEF Forest
-----------------------------------------------------------------------------
(***************************************************************************)
(* The order of the heap leaves no choice.                                 *)
(***************************************************************************)
\* A node that may be popped is the only one that may: two would tie in
\* frequency and in their smallest value, which belongs to one leaf only.
LEMMA PopIsDetermined ==
  ASSUME NEW forest, Forest(forest), NEW trees, trees \subseteq forest,
         NEW a \in trees, NEW b \in trees, MayPop(a, trees), MayPop(b, trees)
  PROVE  a = b
<1>. SUFFICES ASSUME a # b PROVE FALSE
  OBVIOUS
<1>1. ~Before(a, b) /\ ~Before(b, a)
  BY DEF MayPop
<1>2. a.frequency \in Nat /\ b.frequency \in Nat
  BY ByteStreamAssumption DEF Forest, NodeTypeOK, Size
<1>3. /\ Values(a) \subseteq Nat /\ Values(a) # {}
      /\ Values(b) \subseteq Nat /\ Values(b) # {}
  BY ByteStreamAssumption DEF Forest, NodeTypeOK, Byte
<1>4. /\ Min(Values(a)) \in Values(a) /\ Min(Values(a)) \in Nat
      /\ Min(Values(b)) \in Values(b) /\ Min(Values(b)) \in Nat
  BY <1>3, MinIsLeast
<1>5. Min(Values(a)) = Min(Values(b))
  BY <1>1, <1>2, <1>4 DEF Before
<1>6. Values(a) \cap Values(b) = {}
  BY DEF Forest, Disjoint
<1>. QED
  BY <1>4, <1>5, <1>6

\* Both pops of a round are determined, hence the heap it leaves.
LEMMA RoundIsUnique ==
  ASSUME NEW forest, Forest(forest), NEW g \in MergeRound(forest), NEW h \in MergeRound(forest)
  PROVE  g = h
<1>1. PICK p \in PopTwo(forest) : g = (forest \ {p[1], p[2]}) \cup {Join(p[1], p[2])}
  BY DEF MergeRound
<1>2. PICK q \in PopTwo(forest) : h = (forest \ {q[1], q[2]}) \cup {Join(q[1], q[2])}
  BY DEF MergeRound
<1>3. /\ p[1] \in forest /\ p[2] \in forest \ {p[1]}
      /\ q[1] \in forest /\ q[2] \in forest \ {q[1]}
      /\ MayPop(p[1], forest) /\ MayPop(p[2], forest \ {p[1]})
      /\ MayPop(q[1], forest) /\ MayPop(q[2], forest \ {q[1]})
  BY DEF PopTwo
<1>4. p[1] = q[1]
  BY <1>3, PopIsDetermined
<1>5. p[2] = q[2]
  BY <1>3, <1>4, PopIsDetermined
<1>. QED
  BY <1>1, <1>2, <1>4, <1>5

\* The heaps of n rounds of build_tree, from the first one on.
Rounds(freqs, n, heaps) ==
  heaps[0] = MakeHeap(freqs) /\ \A k \in 1 .. n : heaps[k] \in MergeRound(heaps[k - 1])

\* A heap that build_tree can come to from a table.
BuiltFrom(freqs, forest) ==
  \E n \in Nat : \E heaps : Rounds(freqs, n, heaps) /\ forest = heaps[n]

LEMMA FirstIsBuilt ==
  ASSUME NEW freqs
  PROVE  BuiltFrom(freqs, MakeHeap(freqs))
<1>. DEFINE heaps == [k \in {0} |-> MakeHeap(freqs)]
<1>1. Rounds(freqs, 0, heaps) /\ MakeHeap(freqs) = heaps[0]
  BY DEF Rounds
<1>. HIDE DEF heaps
<1>. QED
  BY <1>1 DEF BuiltFrom

LEMMA NextIsBuilt ==
  ASSUME NEW freqs, NEW forest, BuiltFrom(freqs, forest), NEW merged \in MergeRound(forest)
  PROVE  BuiltFrom(freqs, merged)
<1>1. PICK n \in Nat : \E heaps : Rounds(freqs, n, heaps) /\ forest = heaps[n]
  BY DEF BuiltFrom
<1>2. PICK heaps : Rounds(freqs, n, heaps) /\ forest = heaps[n]
  BY <1>1
<1>. DEFINE more == [k \in 0 .. n + 1 |-> IF k = n + 1 THEN merged ELSE heaps[k]]
<1>3. /\ more[0] = heaps[0] /\ more[n + 1] = merged
      /\ \A k \in 0 .. n : more[k] = heaps[k]
  OBVIOUS
<1>. HIDE DEF more
<1>4. ASSUME NEW k \in 1 .. n + 1 PROVE more[k] \in MergeRound(more[k - 1])
  <2>1. k - 1 \in 0 .. n /\ (k = n + 1 \/ (k \in 1 .. n /\ k \in 0 .. n))
    OBVIOUS
  <2>2. CASE k = n + 1
    BY <1>2, <1>3, <2>1, <2>2
  <2>3. CASE k \in 1 .. n /\ k \in 0 .. n
    BY <1>2, <1>3, <2>1, <2>3 DEF Rounds
  <2>. QED
    BY <2>1, <2>2, <2>3
<1>5. Rounds(freqs, n + 1, more)
  BY <1>2, <1>3, <1>4 DEF Rounds
<1>6. n + 1 \in Nat
  OBVIOUS
<1>. QED
  BY <1>3, <1>5, <1>6 DEF BuiltFrom

\* As long as both go on, two runs of build_tree have the same heap.
LEMMA RoundsAgree ==
  ASSUME NEW freqs \in Frequencies, NEW n \in Nat, NEW m \in Nat, NEW g, NEW h,
         Rounds(freqs, n, g), Rounds(freqs, m, h)
  PROVE  \A k \in 0 .. n : k <= m =>
           /\ g[k] = h[k] /\ Forest(g[k]) /\ IsFiniteSet(g[k])
           /\ Leaves(g[k]) = {x \in Byte : freqs[x] > 0}
<1>. DEFINE Good(k) == /\ g[k] = h[k] /\ Forest(g[k]) /\ IsFiniteSet(g[k])
                       /\ Leaves(g[k]) = {x \in Byte : freqs[x] > 0}
            bad == {k \in 0 .. n : k <= m /\ ~Good(k)}
<1>. SUFFICES ASSUME bad # {} PROVE FALSE
  OBVIOUS
<1>1. bad \subseteq Nat
  OBVIOUS
<1>2. PICK least \in bad : \A k \in bad : least <= k
  <2>. HIDE DEF bad
  <2>. QED
    BY <1>1, MinIsLeast
<1>3. Good(0)
  BY MakeHeapForest DEF Rounds
<1>4. least \in 1 .. n /\ least \in 1 .. m /\ least - 1 \in 0 .. n /\ least - 1 <= m
      /\ ~(least <= least - 1)
  <2>. HIDE DEF Good
  <2>. QED
    BY <1>2, <1>3
<1>5. Good(least - 1)
  <2>. HIDE DEF Good
  <2>. QED
    BY <1>2, <1>4
<1>6. g[least] \in MergeRound(g[least - 1]) /\ h[least] \in MergeRound(g[least - 1])
  BY <1>4, <1>5 DEF Rounds
<1>7. Good(least)
  BY <1>5, <1>6, RoundIsUnique, MergeRoundForest
<1>. QED
  BY <1>2, <1>7

LEMMA BuiltIsForest ==
  ASSUME NEW freqs \in Frequencies, NEW forest, BuiltFrom(freqs, forest)
  PROVE  /\ Forest(forest) /\ IsFiniteSet(forest)
         /\ Leaves(forest) = {x \in Byte : freqs[x] > 0}
<1>1. PICK n \in Nat : \E g : Rounds(freqs, n, g) /\ forest = g[n]
  BY DEF BuiltFrom
<1>2. PICK g : Rounds(freqs, n, g) /\ forest = g[n]
  BY <1>1
<1>3. n \in 0 .. n /\ n <= n
  OBVIOUS
<1>. QED
  BY <1>2, <1>3, RoundsAgree

\* A tree is the end: no further round is possible.
LEMMA TreeIsLast ==
  ASSUME NEW forest, IsFiniteSet(forest), IsTree(forest)
  PROVE  MergeRound(forest) = {}
<1>1. PICK node : forest = {node}
  BY FS_Singleton DEF IsTree
<1>. QED
  BY <1>1 DEF MergeRound, PopTwo

\* From one table there is one tree only (huffman.hpp:33-44).
LEMMA TreeIsUnique ==
  ASSUME NEW freqs \in Frequencies, NEW a, NEW b, BuiltFrom(freqs, a), BuiltFrom(freqs, b),
         IsTree(a), IsTree(b)
  PROVE  a = b
<1>1. PICK n \in Nat : \E g : Rounds(freqs, n, g) /\ a = g[n]
  BY DEF BuiltFrom
<1>2. PICK g : Rounds(freqs, n, g) /\ a = g[n]
  BY <1>1
<1>3. PICK m \in Nat : \E h : Rounds(freqs, m, h) /\ b = h[m]
  BY DEF BuiltFrom
<1>4. PICK h : Rounds(freqs, m, h) /\ b = h[m]
  BY <1>3
<1>5. CASE n = m
  <2>1. n \in 0 .. n /\ n <= m
    BY <1>5
  <2>. QED
    BY <1>2, <1>4, <1>5, <2>1, RoundsAgree
<1>6. ASSUME n < m PROVE FALSE
  <2>1. n \in 0 .. n /\ n <= m /\ n + 1 \in 1 .. m /\ (n + 1) - 1 = n
    BY <1>6
  <2>2. g[n] = h[n] /\ IsFiniteSet(g[n])
    BY <1>2, <1>4, <2>1, RoundsAgree
  <2>3. h[n + 1] \in MergeRound(h[n])
    BY <1>4, <2>1 DEF Rounds
  <2>. QED
    BY <1>2, <2>2, <2>3, TreeIsLast
<1>7. ASSUME m < n PROVE FALSE
  <2>1. m \in 0 .. m /\ m <= n /\ m + 1 \in 1 .. n /\ (m + 1) - 1 = m
    BY <1>7
  <2>2. h[m] = g[m] /\ IsFiniteSet(h[m])
    BY <1>2, <1>4, <2>1, RoundsAgree
  <2>3. g[m + 1] \in MergeRound(g[m])
    BY <1>2, <2>1 DEF Rounds
  <2>. QED
    BY <1>4, <2>2, <2>3, TreeIsLast
<1>. QED
  BY <1>5, <1>6, <1>7

-----------------------------------------------------------------------------
(***************************************************************************)
(* The bytes of the table, and what they hold.                             *)
(***************************************************************************)
\* The powers of two that make up a byte.
LEMMA BitPowers ==
  /\ Power(2)[0] = 1 /\ Power(2)[1] = 2
  /\ \A n \in 0 .. BitsPerByte : Power(2)[n] \in Nat \ {0}
  /\ \A m, n \in 0 .. BitsPerByte :
       m + n <= BitsPerByte => Power(2)[m + n] = Power(2)[m] * Power(2)[n]
<1>1. \A n \in 0 .. BitsPerByte : n \in Nat
  BY HuffmanAssumption
<1>. QED
  BY <1>1, PowersOfTwo

\* A frequency never takes more than its bytes, nor do the bytes hold more than one.
LEMMA FrequencyFits ==
  /\ \A bytes \in [1 .. FrequencyBytes -> Byte] : FromBytes(bytes) \in Size
  /\ \A f \in Size : FromBytes(ToBytes(f, FrequencyBytes)) = f
<1>1. FrequencyBytes \in Nat /\ SizeMod = Power(MaxByte + 1)[FrequencyBytes]
  BY HuffmanAssumption
<1>. QED
  BY <1>1, FromBytesFits, BytesAreReadBack DEF Size

\* The partial results of joining sequences.
LEMMA FlattenSteps ==
  ASSUME NEW seqs, NEW last \in Nat \ {0}, Len(seqs) = last
  PROVE  \E f : /\ f[1] = seqs[1]
                /\ \A i \in 1 .. last - 1 : f[i + 1] = f[i] \o seqs[i + 1]
                /\ FlattenSeq(seqs) = f[last]
<1>. DEFINE step(f, i) == IF i = 1 THEN seqs[i] ELSE f[i - 1] \o seqs[i]
            upTo(f, n) == \A i \in 1 .. n : f[i] = step(f, i)
            good == {n \in Nat : \E f : upTo(f, n)}
<1>1. 0 \in good
  BY 1 .. 0 = {}
<1>2. ASSUME NEW n \in Nat, n \in good PROVE n + 1 \in good
  <2>1. PICK f : upTo(f, n)
    BY <1>2
  <2>. DEFINE g == [i \in 1 .. n + 1 |-> step(f, i)]
  <2>2. \A i \in 1 .. n + 1 : g[i] = step(f, i)
    OBVIOUS
  <2>3. \A i \in 1 .. n : g[i] = f[i]
    BY <2>1, <2>2
  <2>. HIDE DEF g
  <2>4. ASSUME NEW i \in 1 .. n + 1 PROVE g[i] = step(g, i)
    <3>1. i # 1 => i - 1 \in 1 .. n
      OBVIOUS
    <3>. QED
      BY <2>2, <2>3, <3>1
  <2>5. upTo(g, n + 1)
    BY <2>4
  <2>. HIDE DEF upTo
  <2>. QED
    BY <2>5
<1>. HIDE DEF good
<1>3. last \in good
  BY <1>1, <1>2, EveryNumber
<1>4. PICK some : upTo(some, last)
  BY <1>3 DEF good
<1>. DEFINE f == [i \in 1 .. last |-> some[i]]
<1>5. f = [i \in 1 .. last |-> step(f, i)]
  <2>1. \A i \in 1 .. last : i # 1 => i - 1 \in 1 .. last
    OBVIOUS
  <2>2. \A i \in 1 .. last : some[i] = step(f, i)
    BY <1>4, <2>1
  <2>. HIDE DEF step
  <2>. QED
    BY <2>2
<1>. HIDE DEF f
<1>. DEFINE flatten == CHOOSE h : h = [i \in 1 .. last |-> step(h, i)]
<1>6. flatten = [i \in 1 .. last |-> step(flatten, i)]
  <2>. HIDE DEF step
  <2>. QED
    BY <1>5
<1>7. FlattenSeq(seqs) = flatten[last]
  BY DEF FlattenSeq
<1>. HIDE DEF flatten
<1>8. \A i \in 1 .. last : flatten[i] = step(flatten, i)
  BY <1>6
<1>9. /\ 1 \in 1 .. last
      /\ \A i \in 1 .. last - 1 : i + 1 \in 1 .. last /\ i + 1 # 1 /\ (i + 1) - 1 = i
  OBVIOUS
<1>10. flatten[1] = seqs[1] /\ \A i \in 1 .. last - 1 : flatten[i + 1] = flatten[i] \o seqs[i + 1]
  BY <1>8, <1>9
<1>. QED
  BY <1>7, <1>10

\* Where entry k stands among the entries, and in the table.
EntryAt(k) == (k - 1) * (1 + FrequencyBytes)

EntryStart(k) == CountBytes + EntryAt(k)

\* The bytes hold an entry for each value of a set, in the order of the values.
EntriesOf(bytes, S, freqs) ==
  LET n == Cardinality(S)
      value(k) == bytes[EntryAt(k) + 1]
  IN /\ bytes \in Seq(Byte) /\ Len(bytes) = EntryAt(n + 1)
     /\ {value(k) : k \in 1 .. n} = S
     /\ \A j, k \in 1 .. n : j < k => value(j) < value(k)
     /\ \A k \in 1 .. n, b \in 1 .. FrequencyBytes :
          bytes[EntryAt(k) + 1 + b] = ToBytes(freqs[value(k)], FrequencyBytes)[b]

\* Entries follow each other.
LEMMA EntryPlaces ==
  ASSUME NEW n \in Nat
  PROVE  /\ EntryAt(1) = 0 /\ EntryAt(n + 1) \in Nat
         /\ EntryAt(n + 2) = EntryAt(n + 1) + 1 + FrequencyBytes
         /\ \A k \in 1 .. n : /\ EntryAt(k) \in Nat
                              /\ EntryAt(k + 1) = EntryAt(k) + 1 + FrequencyBytes
                              /\ EntryAt(k + 1) <= EntryAt(n + 1)
<1>1. PICK w \in Nat : w = 1 + FrequencyBytes
  BY HuffmanAssumption
<1>2. \A k : EntryAt(k) = (k - 1) * w
  BY <1>1 DEF EntryAt
<1>3. \A m \in Nat : m * w \in Nat /\ (m + 1) * w = m * w + w
  OBVIOUS
<1>4. ASSUME NEW k \in 1 .. n
      PROVE  /\ EntryAt(k) \in Nat
             /\ EntryAt(k + 1) = EntryAt(k) + w
             /\ EntryAt(k + 1) <= EntryAt(n + 1)
  <2>1. PICK m \in Nat, d \in Nat : m = k - 1 /\ d = n - k
    <3>1. k - 1 \in Nat /\ n - k \in Nat
      OBVIOUS
    <3>. QED
      BY <3>1
  <2>2. (k + 1) - 1 = m + 1 /\ (n + 1) - 1 = m + 1 + d
    BY <2>1
  <2>3. EntryAt(k) = m * w /\ EntryAt(k + 1) = (m + 1) * w /\ EntryAt(n + 1) = (m + 1 + d) * w
    BY <1>2, <2>1, <2>2
  <2>4. (m + 1 + d) * w = (m + 1) * w + d * w /\ d * w \in Nat
    OBVIOUS
  <2>. QED
    BY <1>3, <2>3, <2>4
<1>5. EntryAt(1) = 0
  <2>1. 1 - 1 = 0 /\ 0 * w = 0
    OBVIOUS
  <2>. QED
    BY <1>2, <2>1
<1>6. EntryAt(n + 1) \in Nat /\ EntryAt(n + 2) = EntryAt(n + 1) + w
  <2>1. (n + 1) - 1 = n /\ (n + 2) - 1 = n + 1
    OBVIOUS
  <2>. QED
    BY <1>2, <1>3, <2>1
<1>7. \A x \in Nat : x + w = x + 1 + FrequencyBytes
  BY <1>1, HuffmanAssumption
<1>. QED
  BY <1>4, <1>5, <1>6, <1>7

\* One entry more, of a larger value than the others.
LEMMA EntryAppended ==
  ASSUME NEW freqs \in Frequencies, NEW S \in SUBSET Byte, NEW bytes, EntriesOf(bytes, S, freqs),
         NEW v \in Byte, \A u \in S : u < v
  PROVE  EntriesOf(bytes \o (<<v>> \o ToBytes(freqs[v], FrequencyBytes)), S \cup {v}, freqs)
<1>. DEFINE n == Cardinality(S)
            digits == ToBytes(freqs[v], FrequencyBytes)
            entry == <<v>> \o digits
            longer == bytes \o entry
            end == EntryAt(n + 1)
<1>1. n \in Nat /\ Cardinality(S \cup {v}) = n + 1
  <2>1. IsFiniteSet(Byte)
    BY ByteStreamAssumption, FS_Interval DEF Byte
  <2>2. IsFiniteSet(S) /\ v \notin S
    <3>1. ~(v < v)
      BY DEF Byte
    <3>. QED
      BY <2>1, <3>1, FS_Subset
  <2>. QED
    BY <2>2, FS_CardinalityType, FS_AddElement
<1>2. FrequencyBytes \in Nat /\ freqs[v] \in Nat
  BY HuffmanAssumption, ByteStreamAssumption DEF Frequencies, Size
<1>3. /\ bytes \in Seq(Byte) /\ Len(bytes) = end
      /\ {bytes[EntryAt(k) + 1] : k \in 1 .. n} = S
      /\ \A j, k \in 1 .. n : j < k => bytes[EntryAt(j) + 1] < bytes[EntryAt(k) + 1]
      /\ \A k \in 1 .. n, b \in 1 .. FrequencyBytes :
           bytes[EntryAt(k) + 1 + b]
             = ToBytes(freqs[bytes[EntryAt(k) + 1]], FrequencyBytes)[b]
  BY DEF EntriesOf
<1>4. digits \in Seq(Byte) /\ Len(digits) = FrequencyBytes
  BY <1>2, ToBytesType
<1>. HIDE DEF n, digits
<1>5. /\ entry \in Seq(Byte) /\ Len(entry) = 1 + FrequencyBytes /\ entry[1] = v
      /\ \A b \in 1 .. FrequencyBytes : entry[1 + b] = digits[b]
  <2>1. <<v>> \in Seq(Byte) /\ Len(<<v>>) = 1 /\ <<v>>[1] = v
    OBVIOUS
  <2>2. /\ entry \in Seq(Byte) /\ Len(entry) = 1 + Len(digits)
        /\ \A i \in 1 .. 1 + Len(digits) :
             entry[i] = IF i <= 1 THEN <<v>>[i] ELSE digits[i - 1]
    BY <1>4, <2>1, ConcatProperties
  <2>. HIDE DEF entry
  <2>3. 1 \in 1 .. 1 + FrequencyBytes
    BY <1>2
  <2>4. \A b \in 1 .. FrequencyBytes :
          1 + b \in 1 .. 1 + FrequencyBytes /\ ~(1 + b <= 1) /\ (1 + b) - 1 = b
    BY <1>2
  <2>. QED
    BY <1>4, <2>1, <2>2, <2>3, <2>4
<1>. HIDE DEF entry
<1>6. end \in Nat
  BY <1>1, EntryPlaces
<1>7. /\ longer \in Seq(Byte) /\ Len(longer) = end + 1 + FrequencyBytes
      /\ \A i \in 1 .. end : longer[i] = bytes[i]
      /\ \A i \in 1 .. 1 + FrequencyBytes : longer[end + i] = entry[i]
  <2>5. /\ longer \in Seq(Byte) /\ Len(longer) = Len(bytes) + Len(entry)
        /\ \A i \in 1 .. Len(bytes) + Len(entry) :
             longer[i] = IF i <= Len(bytes) THEN bytes[i] ELSE entry[i - Len(bytes)]
    BY <1>3, <1>5, ConcatProperties
  <2>. HIDE DEF longer, end
  <2>1. /\ longer \in Seq(Byte) /\ Len(longer) = end + (1 + FrequencyBytes)
        /\ \A i \in 1 .. end + (1 + FrequencyBytes) :
             longer[i] = IF i <= end THEN bytes[i] ELSE entry[i - end]
    BY <1>3, <1>5, <2>5
  <2>2. \A i \in 1 .. end : i \in 1 .. end + (1 + FrequencyBytes) /\ i <= end
    BY <1>2, <1>6
  <2>3. \A i \in 1 .. 1 + FrequencyBytes :
          end + i \in 1 .. end + (1 + FrequencyBytes) /\ ~(end + i <= end) /\ (end + i) - end = i
    BY <1>2, <1>6
  <2>4. end + (1 + FrequencyBytes) = end + 1 + FrequencyBytes
    BY <1>2, <1>6
  <2>. QED
    BY <2>1, <2>2, <2>3, <2>4
<1>. HIDE DEF longer
<1>8. Len(longer) = EntryAt((n + 1) + 1)
  <2>1. (n + 1) + 1 = n + 2
    BY <1>1
  <2>. QED
    BY <1>1, <1>7, <2>1, EntryPlaces
<1>9. longer[end + 1] = v /\ \A b \in 1 .. FrequencyBytes : longer[end + 1 + b] = digits[b]
  <2>1. 1 \in 1 .. 1 + FrequencyBytes
    BY <1>2
  <2>2. \A b \in 1 .. FrequencyBytes :
          1 + b \in 1 .. 1 + FrequencyBytes /\ end + 1 + b = end + (1 + b)
    BY <1>2, <1>6
  <2>. HIDE DEF end
  <2>. QED
    BY <1>5, <1>7, <2>1, <2>2
<1>10. ASSUME NEW k \in 1 .. n
       PROVE  /\ longer[EntryAt(k) + 1] = bytes[EntryAt(k) + 1]
              /\ longer[EntryAt(k) + 1] \in S
              /\ \A b \in 1 .. FrequencyBytes :
                   longer[EntryAt(k) + 1 + b] = bytes[EntryAt(k) + 1 + b]
  <2>1. EntryAt(k) \in Nat /\ EntryAt(k) + 1 + FrequencyBytes <= end
    BY <1>1, EntryPlaces
  <2>2. /\ EntryAt(k) + 1 \in 1 .. end
        /\ \A b \in 1 .. FrequencyBytes : EntryAt(k) + 1 + b \in 1 .. end
    BY <1>2, <1>6, <2>1
  <2>. HIDE DEF end
  <2>. QED
    BY <1>3, <1>7, <2>2
<1>11. \A k \in 1 .. n + 1 : k \in 1 .. n \/ k = n + 1
  BY <1>1
<1>12. \A k \in 1 .. n : k \in 1 .. n + 1
  BY <1>1
<1>13. n + 1 \in 1 .. n + 1
  BY <1>1
<1>14. {longer[EntryAt(k) + 1] : k \in 1 .. n + 1} = S \cup {v}
  BY <1>3, <1>9, <1>10, <1>11, <1>12, <1>13
<1>15. ASSUME NEW j \in 1 .. n + 1, NEW k \in 1 .. n + 1, j < k
       PROVE  longer[EntryAt(j) + 1] < longer[EntryAt(k) + 1]
  <2>1. j \in 1 .. n
    BY <1>1, <1>15
  <2>2. CASE k \in 1 .. n
    BY <1>3, <1>10, <1>15, <2>1, <2>2
  <2>3. CASE k = n + 1
    BY <1>9, <1>10, <2>1, <2>3
  <2>. QED
    BY <1>11, <2>2, <2>3
<1>16. ASSUME NEW k \in 1 .. n + 1, NEW b \in 1 .. FrequencyBytes
       PROVE  longer[EntryAt(k) + 1 + b]
                = ToBytes(freqs[longer[EntryAt(k) + 1]], FrequencyBytes)[b]
  <2>1. CASE k \in 1 .. n
    BY <1>3, <1>10, <2>1
  <2>2. CASE k = n + 1
    BY <1>9, <2>2 DEF digits
  <2>. QED
    BY <1>11, <2>1, <2>2
<1>17. EntriesOf(longer, S \cup {v}, freqs)
  BY <1>1, <1>7, <1>8, <1>14, <1>15, <1>16 DEF EntriesOf
<1>. QED
  BY <1>17 DEF longer, entry, digits

\* The entries of a table list the values that occur.
LEMMA EntriesAreListed ==
  ASSUME NEW freqs \in Frequencies
  PROVE  EntriesOf(EntryBytes(freqs), Occurring(freqs), freqs)
<1>. DEFINE entry(v) == <<v>> \o ToBytes(freqs[v], FrequencyBytes)
            seqs == [i \in 1 .. MaxByte + 1 |-> IF freqs[i - 1] > 0 THEN entry(i - 1) ELSE <<>>]
            below(i) == {v \in Occurring(freqs) : v < i}
<1>1. MaxByte \in Nat \ {0} /\ MaxByte + 1 \in Nat \ {0}
  BY ByteStreamAssumption
<1>2. Len(seqs) = MaxByte + 1 /\ \A v \in Byte : v + 1 \in 1 .. MaxByte + 1 /\ (v + 1) - 1 = v
  BY <1>1 DEF Byte
<1>3. \A v \in Byte : seqs[v + 1] = IF freqs[v] > 0 THEN entry(v) ELSE <<>>
  BY <1>2
<1>4. EntryBytes(freqs) = FlattenSeq(seqs)
  BY DEF EntryBytes
<1>5. /\ \A v \in Byte : v \in Nat /\ freqs[v] \in Nat
      /\ Occurring(freqs) \subseteq Byte
      /\ \A v \in Byte : v \in Occurring(freqs) <=> freqs[v] > 0
  BY <1>1, ByteStreamAssumption DEF Byte, Size, Frequencies, Occurring
<1>6. ASSUME NEW v \in Byte, NEW bytes, EntriesOf(bytes, below(v), freqs)
      PROVE  EntriesOf(bytes \o seqs[v + 1], below(v + 1), freqs)
  <2>1. CASE freqs[v] > 0
    <3>1. /\ below(v) \in SUBSET Byte /\ \A u \in below(v) : u < v
      BY <1>5
    <3>2. below(v + 1) = below(v) \cup {v}
      BY <1>5, <2>1
    <3>3. seqs[v + 1] = entry(v)
      BY <1>3, <2>1
    <3>. HIDE DEF below, seqs
    <3>4. EntriesOf(bytes \o entry(v), below(v) \cup {v}, freqs)
      BY <1>6, <3>1, EntryAppended
    <3>. QED
      BY <3>2, <3>3, <3>4
  <2>2. CASE ~(freqs[v] > 0)
    <3>1. below(v + 1) = below(v)
      BY <1>5, <2>2
    <3>2. seqs[v + 1] = <<>>
      BY <1>3, <2>2
    <3>3. bytes \in Seq(Byte)
      BY <1>6 DEF EntriesOf
    <3>4. bytes \o <<>> = bytes
      BY <3>3
    <3>. HIDE DEF below, seqs
    <3>. QED
      BY <1>6, <3>1, <3>2, <3>4
  <2>. QED
    BY <2>1, <2>2
<1>. HIDE DEF seqs
<1>7. PICK f : /\ f[1] = seqs[1]
               /\ \A i \in 1 .. (MaxByte + 1) - 1 : f[i + 1] = f[i] \o seqs[i + 1]
               /\ FlattenSeq(seqs) = f[MaxByte + 1]
  BY <1>1, <1>2, FlattenSteps
<1>. DEFINE listed == {i \in Nat : i <= MaxByte => EntriesOf(f[i + 1], below(i + 1), freqs)}
<1>8. EntriesOf(<<>>, {}, freqs)
  <2>1. Cardinality({}) = 0 /\ EntryAt(0 + 1) = 0
    <3>1. EntryAt(1) = 0
      BY EntryPlaces
    <3>. QED
      BY <3>1, FS_EmptySet
  <2>2. <<>> \in Seq(Byte) /\ Len(<<>>) = 0 /\ 1 .. 0 = {}
    OBVIOUS
  <2>. QED
    BY <2>1, <2>2 DEF EntriesOf
<1>9. 0 \in listed
  <2>1. 0 \in Byte /\ 0 + 1 = 1 /\ below(0) = {}
    BY <1>1, <1>5 DEF Byte
  <2>2. seqs[1] \in Seq(Byte)
    <3>1. freqs[0] \in Nat /\ FrequencyBytes \in Nat
      BY <1>5, <2>1, HuffmanAssumption
    <3>2. entry(0) \in Seq(Byte)
      BY <2>1, <3>1, ToBytesType
    <3>3. seqs[0 + 1] = IF freqs[0] > 0 THEN entry(0) ELSE <<>>
      BY <1>3, <2>1
    <3>4. <<>> \in Seq(Byte)
      OBVIOUS
    <3>. HIDE DEF entry
    <3>. QED
      BY <2>1, <3>2, <3>3, <3>4
  <2>3. <<>> \o seqs[1] = seqs[1]
    BY <2>2
  <2>. HIDE DEF below
  <2>4. EntriesOf(<<>> \o seqs[0 + 1], below(0 + 1), freqs)
    BY <1>6, <1>8, <2>1
  <2>. QED
    BY <1>7, <2>1, <2>3, <2>4
<1>10. ASSUME NEW i \in Nat, i \in listed PROVE i + 1 \in listed
  <2>. SUFFICES ASSUME i + 1 <= MaxByte PROVE EntriesOf(f[(i + 1) + 1], below((i + 1) + 1), freqs)
    OBVIOUS
  <2>1. i + 1 \in Byte /\ i <= MaxByte /\ i + 1 \in 1 .. (MaxByte + 1) - 1
    BY <1>1 DEF Byte
  <2>2. f[(i + 1) + 1] = f[i + 1] \o seqs[(i + 1) + 1]
    BY <1>7, <2>1
  <2>. HIDE DEF below
  <2>3. EntriesOf(f[i + 1], below(i + 1), freqs)
    BY <1>10, <2>1
  <2>. QED
    BY <1>6, <2>1, <2>2, <2>3
<1>. HIDE DEF listed
<1>11. \A i \in Nat : i \in listed
  BY <1>9, <1>10, EveryNumber
<1>12. EntriesOf(f[MaxByte + 1], below(MaxByte + 1), freqs)
  BY <1>1, <1>11 DEF listed
<1>13. below(MaxByte + 1) = Occurring(freqs)
  BY <1>1, <1>5 DEF Byte
<1>. HIDE DEF below
<1>. QED
  BY <1>4, <1>7, <1>12, <1>13

\* Where the entries of a table are, and what reading them gives.
THEOREM TableIsReadBack ==
  ASSUME NEW freqs \in Frequencies
  PROVE  LET n == Cardinality(Occurring(freqs))
             bytes == TableBytes(freqs)
             value(k) == bytes[EntryStart(k) + 1]
         IN  /\ n \in Nat /\ bytes \in Seq(Byte) /\ Len(bytes) = EntryStart(n + 1)
             /\ n = 0 => bytes = ToBytes(0, CountBytes)
             /\ FromBytes(SubSeq(bytes, 1, CountBytes)) = n
             /\ {value(k) : k \in 1 .. n} = Occurring(freqs)
             /\ \A j, k \in 1 .. n : j < k => value(j) < value(k)
             /\ \A k \in 1 .. n :
                  FromBytes(SubSeq(bytes, EntryStart(k) + 2, EntryStart(k + 1))) = freqs[value(k)]
<1>. DEFINE n == Cardinality(Occurring(freqs))
            count == ToBytes(n, CountBytes)
            entries == EntryBytes(freqs)
            bytes == count \o entries
            value(k) == bytes[EntryStart(k) + 1]
<1>1. n \in 0 .. MaxByte + 1 /\ n \in Nat
  <2>1. IsFiniteSet(Byte) /\ Cardinality(Byte) = MaxByte + 1
    BY ByteStreamAssumption, FS_Interval DEF Byte
  <2>2. Occurring(freqs) \subseteq Byte
    BY DEF Occurring
  <2>. QED
    BY <2>1, <2>2, FS_Subset, FS_CardinalityType, ByteStreamAssumption
<1>2. /\ entries \in Seq(Byte) /\ Len(entries) = EntryAt(n + 1)
      /\ {entries[EntryAt(k) + 1] : k \in 1 .. n} = Occurring(freqs)
      /\ \A j, k \in 1 .. n : j < k => entries[EntryAt(j) + 1] < entries[EntryAt(k) + 1]
      /\ \A k \in 1 .. n, b \in 1 .. FrequencyBytes :
           entries[EntryAt(k) + 1 + b]
             = ToBytes(freqs[entries[EntryAt(k) + 1]], FrequencyBytes)[b]
  BY EntriesAreListed DEF EntriesOf
<1>3. CountBytes \in Nat /\ FrequencyBytes \in Nat /\ MaxByte \in Nat
  BY HuffmanAssumption, ByteStreamAssumption
<1>4. count \in Seq(Byte) /\ Len(count) = CountBytes /\ FromBytes(count) = n
  <2>1. n \in 0 .. Power(MaxByte + 1)[CountBytes] - 1
    <3>1. MaxByte + 1 \in Nat \ {0} /\ MaxByte + 1 < Power(MaxByte + 1)[CountBytes]
      BY HuffmanAssumption, ByteStreamAssumption
    <3>2. Power(MaxByte + 1)[CountBytes] \in Nat
      BY <1>3, <3>1, PowerFacts
    <3>. HIDE DEF n
    <3>. QED
      BY <1>1, <3>1, <3>2
  <2>. HIDE DEF n
  <2>. QED
    BY <1>1, <1>3, <2>1, ToBytesType, BytesAreReadBack
<1>5. TableBytes(freqs) = bytes
  BY DEF TableBytes
<1>. HIDE DEF n, count, entries
<1>6. EntryAt(n + 1) \in Nat
  BY <1>1, EntryPlaces
<1>7. /\ bytes \in Seq(Byte) /\ Len(bytes) = EntryStart(n + 1)
      /\ \A i \in 1 .. CountBytes : bytes[i] = count[i]
      /\ \A i \in 1 .. EntryAt(n + 1) : bytes[CountBytes + i] = entries[i]
  <2>1. /\ bytes \in Seq(Byte) /\ Len(bytes) = Len(count) + Len(entries)
        /\ \A i \in 1 .. Len(count) + Len(entries) :
             bytes[i] = IF i <= Len(count) THEN count[i] ELSE entries[i - Len(count)]
    BY <1>2, <1>4, ConcatProperties
  <2>. HIDE DEF bytes
  <2>2. \A i \in 1 .. CountBytes : i \in 1 .. CountBytes + EntryAt(n + 1) /\ i <= CountBytes
    BY <1>3, <1>6
  <2>3. \A i \in 1 .. EntryAt(n + 1) :
          /\ CountBytes + i \in 1 .. CountBytes + EntryAt(n + 1)
          /\ ~(CountBytes + i <= CountBytes) /\ (CountBytes + i) - CountBytes = i
    BY <1>3, <1>6
  <2>. QED
    BY <1>2, <1>4, <2>1, <2>2, <2>3 DEF EntryStart
<1>8. n = 0 => bytes = ToBytes(0, CountBytes)
  <2>. SUFFICES ASSUME n = 0 PROVE bytes = ToBytes(0, CountBytes)
    OBVIOUS
  <2>1. Len(entries) = 0
    <3>1. EntryAt(0 + 1) = 0
      BY <1>1, EntryPlaces
    <3>. QED
      BY <1>2, <3>1
  <2>2. entries = <<>>
    BY <1>2, <2>1, EmptySeq
  <2>3. count \o <<>> = count
    BY <1>4
  <2>. QED
    BY <2>2, <2>3 DEF count
<1>. HIDE DEF bytes
<1>9. FromBytes(SubSeq(bytes, 1, CountBytes)) = n
  <2>1. CountBytes <= Len(bytes)
    BY <1>3, <1>6, <1>7 DEF EntryStart
  <2>2. /\ SubSeq(bytes, 1, CountBytes) \in Seq(Byte)
        /\ Len(SubSeq(bytes, 1, CountBytes)) = CountBytes
        /\ \A i \in 1 .. CountBytes : SubSeq(bytes, 1, CountBytes)[i] = bytes[i]
    <3>1. \A i \in 1 .. CountBytes : bytes[i] \in Byte
      BY <1>3, <1>7, <2>1, ElementOfSeq
    <3>. QED
      BY <1>3, <3>1, SubSeqProperties
  <2>3. SubSeq(bytes, 1, CountBytes) = count
    BY <1>4, <1>7, <2>2, SeqEqual
  <2>. QED
    BY <1>4, <2>3
<1>10. ASSUME NEW k \in 1 .. n
       PROVE  /\ value(k) = entries[EntryAt(k) + 1]
              /\ FromBytes(SubSeq(bytes, EntryStart(k) + 2, EntryStart(k + 1))) = freqs[value(k)]
  <2>1. PICK a \in Nat : a = EntryAt(k) /\ EntryAt(k + 1) = a + 1 + FrequencyBytes
                         /\ a + 1 + FrequencyBytes <= EntryAt(n + 1)
    BY <1>1, EntryPlaces
  <2>2. value(k) = entries[a + 1]
    <3>1. a + 1 \in 1 .. EntryAt(n + 1) /\ CountBytes + (a + 1) = EntryStart(k) + 1
      BY <1>3, <1>6, <2>1 DEF EntryStart
    <3>. QED
      BY <1>7, <3>1
  <2>3. PICK v \in Byte : v = value(k)
    BY <1>2, <2>1, <2>2 DEF Occurring
  <2>. DEFINE digits == ToBytes(freqs[v], FrequencyBytes)
              field == SubSeq(bytes, EntryStart(k) + 2, EntryStart(k + 1))
  <2>4. freqs[v] \in Size /\ freqs[v] \in Nat
    BY ByteStreamAssumption DEF Frequencies, Size
  <2>5. /\ digits \in Seq(Byte) /\ Len(digits) = FrequencyBytes
        /\ FromBytes(digits) = freqs[v]
    BY <1>3, <2>4, ToBytesType, FrequencyFits
  <2>6. \A b \in 1 .. FrequencyBytes : digits[b] = entries[a + 1 + b]
    BY <1>2, <2>1, <2>2, <2>3
  <2>. HIDE DEF digits
  <2>7. EntryStart(k) = CountBytes + a /\ EntryStart(k + 1) = CountBytes + a + 1 + FrequencyBytes
    BY <1>3, <2>1 DEF EntryStart
  <2>8. \A i \in EntryStart(k) + 2 .. EntryStart(k + 1) : i \in 1 .. Len(bytes)
    <3>1. PICK x \in Nat : x = EntryAt(n + 1) /\ a + 1 + FrequencyBytes <= x
      BY <1>6, <2>1
    <3>2. Len(bytes) = CountBytes + x
      BY <1>7, <3>1 DEF EntryStart
    <3>. QED
      BY <1>3, <2>7, <3>1, <3>2
  <2>9. /\ field \in Seq(Byte) /\ Len(field) = FrequencyBytes
        /\ \A b \in 1 .. FrequencyBytes : field[b] = bytes[CountBytes + (a + 1 + b)]
    <3>1. PICK lo, hi \in Nat : lo = EntryStart(k) + 2 /\ hi = EntryStart(k + 1)
      BY <1>3, <2>1, <2>7
    <3>2. \A i \in lo .. hi : bytes[i] \in Byte
      <4>1. \A i \in lo .. hi : i \in 1 .. Len(bytes)
        BY <2>8, <3>1
      <4>. QED
        BY <1>7, <4>1, ElementOfSeq
    <3>3. lo <= hi + 1 /\ (hi - lo) + 1 = FrequencyBytes
      BY <1>3, <2>1, <2>7, <3>1
    <3>4. /\ SubSeq(bytes, lo, hi) \in Seq(Byte)
          /\ Len(SubSeq(bytes, lo, hi)) = FrequencyBytes
          /\ \A b \in 1 .. FrequencyBytes : SubSeq(bytes, lo, hi)[b] = bytes[(lo + b) - 1]
      BY <3>1, <3>2, <3>3, SubSeqProperties
    <3>5. \A b \in 1 .. FrequencyBytes : (lo + b) - 1 = CountBytes + (a + 1 + b)
      BY <1>3, <2>1, <2>7, <3>1
    <3>. QED
      BY <3>1, <3>4, <3>5
  <2>. HIDE DEF field
  <2>10. ASSUME NEW b \in 1 .. FrequencyBytes PROVE field[b] = digits[b]
    <3>1. a + 1 + b \in 1 .. EntryAt(n + 1)
      BY <1>3, <1>6, <2>1
    <3>. QED
      BY <1>7, <2>6, <2>9, <3>1
  <2>11. field = digits
    BY <2>5, <2>9, <2>10, SeqEqual
  <2>. QED
    BY <2>1, <2>2, <2>3, <2>5, <2>11 DEF field
<1>11. {value(k) : k \in 1 .. n} = Occurring(freqs)
  BY <1>2, <1>10
<1>12. \A j, k \in 1 .. n : j < k => value(j) < value(k)
  BY <1>2, <1>10
<1>. QED
  BY <1>1, <1>5, <1>7, <1>8, <1>9, <1>10, <1>11, <1>12 DEF n

-----------------------------------------------------------------------------
(***************************************************************************)
(* The loop of build_tree.                                                 *)
(***************************************************************************)
\* The inductive invariant of the loop.
BuildInv == BuildTypeOK /\ LeavesPartition /\ PrefixFree /\ NoMissingChild

\* In other words.
LEMMA BuildInvIsForest ==
  BuildInv <=> weights \in Tables /\ Forest(subtrees) /\ Leaves(subtrees) = Symbols
BY DEF BuildInv, BuildTypeOK, LeavesPartition, PrefixFree, NoMissingChild, Forest, Leaves, Disjoint

\* The leaves of the first heap partition the values that occur.
LEMMA BuildStarts == BuildInit => BuildInv
<1>. SUFFICES ASSUME BuildInit PROVE BuildInv
  OBVIOUS
<1>1. weights \in Tables /\ weights \in Frequencies /\ subtrees = MakeHeap(weights)
  BY TablesAssumption DEF BuildInit
<1>2. Forest(subtrees) /\ Leaves(subtrees) = Symbols
  BY <1>1, MakeHeapForest DEF Symbols
<1>. QED
  BY <1>1, <1>2, BuildInvIsForest

\* A round keeps the invariant.
LEMMA MergeBuilds ==
  ASSUME BuildInv, Merge
  PROVE  BuildInv'
<1>1. /\ weights' \in Tables /\ Symbols' = Symbols
      /\ Forest(subtrees') /\ Leaves(subtrees') = Leaves(subtrees)
  <2>1. subtrees' \in MergeRound(subtrees) /\ weights' = weights
    BY DEF Merge
  <2>2. weights \in Tables /\ Forest(subtrees)
    BY BuildInvIsForest
  <2>. QED
    BY <2>1, <2>2, MergeRoundForest DEF Symbols
<1>2. BuildTypeOK'
  BY <1>1 DEF BuildTypeOK, Forest
<1>3. PrefixFree' /\ NoMissingChild'
  BY <1>1 DEF PrefixFree, NoMissingChild, Forest
<1>4. LeavesPartition'
  <2>1. Leaves(subtrees) = Symbols
    BY BuildInvIsForest
  <2>. QED
    BY <1>1, <2>1 DEF LeavesPartition, Forest, Leaves, Disjoint
<1>. QED
  BY <1>2, <1>3, <1>4 DEF BuildInv

\* Both pops of a round are determined, hence the round.
LEMMA RoundDetermined == BuildInv => RoundIsDetermined
BY BuildInvIsForest, RoundIsUnique DEF RoundIsDetermined

\* The invariant holds throughout the loop of build_tree, for every table.
THEOREM BuildInductive == BuildSpec => []BuildInv
<1>1. BuildInv /\ UNCHANGED buildVars => BuildInv'
  BY DEF buildVars, BuildInv, BuildTypeOK, LeavesPartition, PrefixFree, NoMissingChild, Symbols
<1>2. BuildInv /\ [BuildNext]_buildVars => BuildInv'
  BY <1>1, MergeBuilds DEF BuildNext
<1>. QED
  BY BuildStarts, <1>2, PTL DEF BuildSpec

\* The nodes of the heap stay well-formed, with sums that wrap like uint64_t
\* (huffman.hpp:16-31).
THEOREM BuildTypeCorrect == BuildSpec => []BuildTypeOK
<1>1. BuildInv => BuildTypeOK
  BY DEF BuildInv
<1>. QED
  BY <1>1, BuildInductive, PTL

\* No byte value gets lost or coded twice while nodes move in and out of the
\* heap (huffman.cpp:104-117).
THEOREM LeavesPartitionHolds == BuildSpec => []LeavesPartition
<1>1. BuildInv => LeavesPartition
  BY DEF BuildInv
<1>. QED
  BY <1>1, BuildInductive, PTL

\* The codes generate_codes reads off a tree are prefix-free: the decoder can
\* tell where one ends (huffman.cpp:73-90, 324-330).
THEOREM PrefixFreeHolds == BuildSpec => []PrefixFree
<1>1. BuildInv => PrefixFree
  BY DEF BuildInv
<1>. QED
  BY <1>1, BuildInductive, PTL

\* Every inner node has both children: the decoder's walk never meets a null
\* pointer (huffman.cpp:311-322).
THEOREM NoMissingChildHolds == BuildSpec => []NoMissingChild
<1>1. BuildInv => NoMissingChild
  BY DEF BuildInv
<1>. QED
  BY <1>1, BuildInductive, PTL

\* The comparator leaves no choice to the heap's layout, so that the encoder
\* and the decoder build the same tree from the same table (huffman.hpp:33-44).
THEOREM RoundIsDeterminedHolds == BuildSpec => []RoundIsDetermined
<1>. QED
  BY RoundDetermined, BuildInductive, PTL

-----------------------------------------------------------------------------
(***************************************************************************)
(* The loop gets to its end.                                               *)
(***************************************************************************)
\* Some node of a heap that is not empty may be popped.
LEMMA SomeMayPop ==
  ASSUME NEW forest, Forest(forest), NEW trees, trees \subseteq forest, trees # {}
  PROVE  \E a \in trees : MayPop(a, trees)
<1>1. ASSUME NEW node \in trees
      PROVE  node.frequency \in Nat /\ Min(Values(node)) \in Nat
  <2>1. NodeTypeOK(node)
    BY DEF Forest
  <2>2. Values(node) \subseteq Nat /\ Values(node) # {} /\ node.frequency \in Nat
    BY <2>1, ByteStreamAssumption DEF NodeTypeOK, Byte, Size
  <2>. QED
    BY <2>2, MinIsLeast
<1>. DEFINE found == {node.frequency : node \in trees}
<1>2. PICK least \in found : \A n \in found : least <= n
  <2>1. found \subseteq Nat /\ found # {}
    BY <1>1
  <2>. HIDE DEF found
  <2>. QED
    BY <2>1, MinIsLeast
<1>. DEFINE lightest == {node \in trees : node.frequency = least}
            values == {Min(Values(node)) : node \in lightest}
<1>3. PICK first \in values : \A n \in values : first <= n
  <2>1. values \subseteq Nat /\ values # {}
    BY <1>1, <1>2
  <2>. HIDE DEF values
  <2>. QED
    BY <2>1, MinIsLeast
<1>4. PICK a \in trees : a.frequency = least /\ Min(Values(a)) = first
  BY <1>3
<1>5. ASSUME NEW other \in trees PROVE ~Before(other, a)
  <2>1. ~(other.frequency < a.frequency)
    BY <1>1, <1>2, <1>4
  <2>2. ASSUME other.frequency = a.frequency PROVE ~(Min(Values(other)) < Min(Values(a)))
    <3>1. Min(Values(other)) \in values
      BY <1>4, <2>2
    <3>2. first <= Min(Values(other))
      BY <1>3, <3>1
    <3>. QED
      BY <1>1, <1>4, <3>2
  <2>. QED
    BY <2>1, <2>2 DEF Before
<1>. QED
  BY <1>4, <1>5 DEF MayPop

\* Two nodes can always be merged.
LEMMA RoundExists ==
  ASSUME NEW trees, Forest(trees), NEW x \in trees, NEW y \in trees, x # y
  PROVE  MergeRound(trees) # {}
<1>1. PICK a \in trees : MayPop(a, trees)
  BY SomeMayPop
<1>2. PICK b \in trees \ {a} : MayPop(b, trees \ {a})
  <2>1. trees \ {a} \subseteq trees /\ trees \ {a} # {}
    OBVIOUS
  <2>. QED
    BY <2>1, SomeMayPop
<1>3. <<a, b>> \in PopTwo(trees)
  BY <1>1, <1>2 DEF PopTwo
<1>. QED
  BY <1>3 DEF MergeRound

\* A round takes two nodes and puts back one.
LEMMA RoundShrinks ==
  ASSUME NEW trees, Forest(trees), IsFiniteSet(trees), NEW merged \in MergeRound(trees)
  PROVE  Cardinality(trees) \in Nat /\ Cardinality(merged) = Cardinality(trees) - 1
<1>1. PICK a, b, j :
        /\ a \in trees /\ b \in trees /\ a # b /\ j = Join(a, b)
        /\ merged = (trees \ {a, b}) \cup {j}
  <2>1. PICK pair \in PopTwo(trees) :
          merged = (trees \ {pair[1], pair[2]}) \cup {Join(pair[1], pair[2])}
    BY DEF MergeRound
  <2>. QED
    BY <2>1 DEF PopTwo
<1>2. PICK rest : rest = (trees \ {a}) \ {b}
  OBVIOUS
<1>3. /\ IsFiniteSet(trees \ {a}) /\ Cardinality(trees \ {a}) = Cardinality(trees) - 1
      /\ IsFiniteSet(rest) /\ Cardinality(rest) = Cardinality(trees \ {a}) - 1
  <2>1. IsFiniteSet(trees \ {a}) /\ Cardinality(trees \ {a}) = Cardinality(trees) - 1
    BY <1>1, FS_RemoveElement
  <2>2. b \in trees \ {a}
    BY <1>1
  <2>. QED
    BY <1>2, <2>1, <2>2, FS_RemoveElement
<1>4. j \notin rest
  <2>. SUFFICES ASSUME j \in rest PROVE FALSE
    OBVIOUS
  <2>1. Values(j) = Values(a) \cup Values(b) /\ Values(a) # {}
    BY <1>1, JoinFacts DEF Forest, NodeTypeOK
  <2>2. Disjoint(j, a)
    BY <1>1, <1>2 DEF Forest
  <2>. QED
    BY <2>1, <2>2 DEF Disjoint
<1>5. merged = rest \cup {j}
  BY <1>1, <1>2
<1>6. Cardinality(merged) = Cardinality(rest) + 1
  BY <1>3, <1>4, <1>5, FS_AddElement
<1>7. Cardinality(trees) \in Nat
  BY FS_CardinalityType
<1>. QED
  BY <1>3, <1>6, <1>7

\* The heap is finite, too.
HeapInv == BuildInv /\ IsFiniteSet(subtrees)

LEMMA HeapInductive == BuildSpec => []HeapInv
<1>1. BuildInit => HeapInv
  BY BuildStarts, TablesAssumption, MakeHeapForest DEF BuildInit, HeapInv
<1>2. HeapInv /\ BuildNext => HeapInv'
  <2>. SUFFICES ASSUME HeapInv, BuildNext PROVE HeapInv'
    OBVIOUS
  <2>1. BuildInv' /\ subtrees' \in MergeRound(subtrees)
    BY MergeBuilds DEF BuildNext, Merge, HeapInv
  <2>2. IsFiniteSet(subtrees')
    BY <2>1, BuildInvIsForest, MergeRoundForest DEF HeapInv
  <2>. QED
    BY <2>1, <2>2 DEF HeapInv
<1>3. HeapInv /\ UNCHANGED buildVars => HeapInv'
  BY DEF buildVars, HeapInv, BuildInv, BuildTypeOK, LeavesPartition, PrefixFree, NoMissingChild, Symbols
<1>4. HeapInv /\ [BuildNext]_buildVars => HeapInv'
  BY <1>2, <1>3
<1>. QED
  BY <1>1, <1>4, PTL DEF BuildSpec

\* The loop is never stuck with several nodes: where no round is possible, the
\* heap holds the one tree of all values that occur.
StopsAtTree ==
  Symbols # {} /\ MergeRound(subtrees) = {} =>
    IsTree(subtrees) /\ Values(Root(subtrees)) = Symbols

\* build_tree returns a tree for every table with a value that occurs: pop_heap
\* always finds its two nodes (huffman.cpp:103-122).
THEOREM StopsAtTreeHolds == BuildSpec => []StopsAtTree
<1>1. HeapInv => StopsAtTree
  <2>. SUFFICES ASSUME HeapInv, Symbols # {}, MergeRound(subtrees) = {}
                PROVE  IsTree(subtrees) /\ Values(Root(subtrees)) = Symbols
    BY DEF StopsAtTree
  <2>1. Forest(subtrees) /\ Leaves(subtrees) = Symbols
    BY BuildInvIsForest DEF HeapInv
  <2>2. subtrees # {}
    BY <2>1 DEF Leaves
  <2>3. PICK root : subtrees = {root}
    BY <2>1, <2>2, RoundExists
  <2>4. Cardinality(subtrees) = 1
    BY <2>3, FS_Singleton
  <2>. QED
    BY <2>1, <2>3, <2>4 DEF IsTree, Root, Leaves
<1>. QED
  BY <1>1, HeapInductive, PTL

\* Every round leaves one node fewer: the loop comes to an end (huffman.cpp:103-118).
THEOREM RoundsShrinkHeap ==
  BuildSpec => [][Cardinality(subtrees') = Cardinality(subtrees) - 1]_buildVars
<1>1. HeapInv /\ [BuildNext]_buildVars => [Cardinality(subtrees') = Cardinality(subtrees) - 1]_buildVars
  <2>. SUFFICES ASSUME HeapInv, BuildNext PROVE Cardinality(subtrees') = Cardinality(subtrees) - 1
    OBVIOUS
  <2>1. subtrees' \in MergeRound(subtrees) /\ Forest(subtrees) /\ IsFiniteSet(subtrees)
    BY BuildInvIsForest DEF BuildNext, Merge, HeapInv
  <2>. QED
    BY <2>1, RoundShrinks
<1>. QED
  BY <1>1, HeapInductive, PTL DEF BuildSpec

-----------------------------------------------------------------------------
(***************************************************************************)
(* Depths that leave room for each other, and how to give two of them the  *)
(* same place at the bottom.                                               *)
(***************************************************************************)
Depths(S, limit) == [S -> 0 .. limit]

Shares(depth, S, limit) == [s \in S |-> Power(2)[limit - depth[s]]]

Products(f, depth, S) == [s \in S |-> f[s] * depth[s]]

\* Every depth leaves its share of the room: Kraft's inequality.
HasRoom(depth, S, limit) ==
  SumFunctionOnSet(Shares(depth, S, limit), S) <= Power(2)[limit]

Weighed(f, depth, S) == SumFunctionOnSet(Products(f, depth, S), S)

LEMMA DepthFacts ==
  ASSUME NEW S, IsFiniteSet(S), NEW limit \in Nat, NEW depth \in Depths(S, limit),
         NEW f, AreNumbers(f, S)
  PROVE  /\ \A s \in S : depth[s] \in 0 .. limit /\ f[s] \in Nat
         /\ AreNumbers(depth, S) /\ AreNumbers(Shares(depth, S, limit), S) /\ AreNumbers(Products(f, depth, S), S)
         /\ \A s \in S : /\ Shares(depth, S, limit)[s] = Power(2)[limit - depth[s]]
                         /\ Products(f, depth, S)[s] = f[s] * depth[s]
<1>1. ASSUME NEW s \in S
      PROVE  /\ depth[s] \in 0 .. limit /\ f[s] \in Nat /\ depth[s] \in Nat
             /\ Power(2)[limit - depth[s]] \in Nat /\ f[s] * depth[s] \in Nat
  <2>1. depth[s] \in 0 .. limit /\ f[s] \in Nat
    BY DEF Depths, AreNumbers
  <2>2. limit - depth[s] \in Nat /\ depth[s] \in Nat
    BY <2>1
  <2>3. Power(2)[limit - depth[s]] \in Nat
    BY <2>2, PowersOfTwo
  <2>4. f[s] * depth[s] \in Nat
    BY <2>1, <2>2
  <2>. QED
    BY <2>1, <2>2, <2>3, <2>4
<1>. QED
  BY <1>1 DEF AreNumbers, Shares, Products

\* Two sums that differ in one element.
LEMMA SumChanged ==
  ASSUME NEW S, IsFiniteSet(S), NEW a \in S, NEW g, NEW h, AreNumbers(g, S), AreNumbers(h, S),
         \A s \in S \ {a} : g[s] = h[s]
  PROVE  \E x \in Nat : /\ SumFunctionOnSet(g, S) = g[a] + x
                        /\ SumFunctionOnSet(h, S) = h[a] + x
<1>1. IsFiniteSet(S \ {a}) /\ AreNumbers(g, S \ {a})
  BY FS_Subset DEF AreNumbers
<1>2. \A s \in S \ {a} : g[s] = h[s] /\ g[s] \in Nat
  BY DEF AreNumbers
<1>3. SumFunctionOnSet(g, S \ {a}) = SumFunctionOnSet(h, S \ {a})
  BY <1>1, <1>2, SumUnchanged
<1>4. SumFunctionOnSet(g, S \ {a}) \in Nat
  BY <1>1, SumIsNat
<1>5. SumFunctionOnSet(g, S) = g[a] + SumFunctionOnSet(g, S \ {a})
  BY SumTakesOut
<1>6. SumFunctionOnSet(h, S) = h[a] + SumFunctionOnSet(h, S \ {a})
  BY SumTakesOut
<1>. QED
  BY <1>3, <1>4, <1>5, <1>6

\* A depth given to one element, and what changes.
LEMMA DepthChanged ==
  ASSUME NEW S, IsFiniteSet(S), NEW limit \in Nat, NEW depth \in Depths(S, limit),
         NEW f, AreNumbers(f, S), NEW a \in S,
         NEW new \in Depths(S, limit), \A s \in S \ {a} : depth[s] = new[s]
  PROVE  /\ \E x \in Nat :
              /\ SumFunctionOnSet(Shares(depth, S, limit), S) = Power(2)[limit - depth[a]] + x
              /\ SumFunctionOnSet(Shares(new, S, limit), S) = Power(2)[limit - new[a]] + x
         /\ \E y \in Nat :
              /\ Weighed(f, depth, S) = f[a] * depth[a] + y
              /\ Weighed(f, new, S) = f[a] * new[a] + y
         /\ \E z \in Nat :
              /\ SumFunctionOnSet(depth, S) = depth[a] + z
              /\ SumFunctionOnSet(new, S) = new[a] + z
<1>1. /\ AreNumbers(depth, S) /\ AreNumbers(Shares(depth, S, limit), S) /\ AreNumbers(Products(f, depth, S), S)
      /\ \A s \in S : /\ Shares(depth, S, limit)[s] = Power(2)[limit - depth[s]]
                      /\ Products(f, depth, S)[s] = f[s] * depth[s]
  BY DepthFacts
<1>2. /\ AreNumbers(new, S) /\ AreNumbers(Shares(new, S, limit), S) /\ AreNumbers(Products(f, new, S), S)
      /\ \A s \in S : /\ Shares(new, S, limit)[s] = Power(2)[limit - new[s]]
                      /\ Products(f, new, S)[s] = f[s] * new[s]
  BY DepthFacts
<1>3. \A s \in S \ {a} : /\ Shares(depth, S, limit)[s] = Shares(new, S, limit)[s]
                         /\ Products(f, depth, S)[s] = Products(f, new, S)[s]
  <2>1. ASSUME NEW s \in S \ {a}
        PROVE  /\ Shares(depth, S, limit)[s] = Shares(new, S, limit)[s]
               /\ Products(f, depth, S)[s] = Products(f, new, S)[s]
    <3>1. depth[s] = new[s] /\ s \in S
      OBVIOUS
    <3>. QED
      BY <1>1, <1>2, <3>1
  <2>. QED
    BY <2>1
<1>4. PICK x \in Nat :
        /\ SumFunctionOnSet(Shares(depth, S, limit), S) = Shares(depth, S, limit)[a] + x
        /\ SumFunctionOnSet(Shares(new, S, limit), S) = Shares(new, S, limit)[a] + x
  BY <1>1, <1>2, <1>3, SumChanged
<1>5. PICK y \in Nat :
        /\ SumFunctionOnSet(Products(f, depth, S), S) = Products(f, depth, S)[a] + y
        /\ SumFunctionOnSet(Products(f, new, S), S) = Products(f, new, S)[a] + y
  BY <1>1, <1>2, <1>3, SumChanged
<1>6. PICK z \in Nat : /\ SumFunctionOnSet(depth, S) = depth[a] + z
                       /\ SumFunctionOnSet(new, S) = new[a] + z
  BY <1>1, <1>2, SumChanged
<1>7. \E k \in Nat : /\ SumFunctionOnSet(Shares(depth, S, limit), S) = Power(2)[limit - depth[a]] + k
                     /\ SumFunctionOnSet(Shares(new, S, limit), S) = Power(2)[limit - new[a]] + k
  BY <1>1, <1>2, <1>4
<1>8. \E k \in Nat : Weighed(f, depth, S) = f[a] * depth[a] + k /\ Weighed(f, new, S) = f[a] * new[a] + k
  <2>1. Products(f, depth, S)[a] = f[a] * depth[a] /\ Products(f, new, S)[a] = f[a] * new[a]
    BY <1>1, <1>2
  <2>. QED
    BY <1>5, <2>1 DEF Weighed
<1>. QED
  BY <1>6, <1>7, <1>8

\* The only element at the bottom may move up: its share is the only odd one.
LEMMA LoneMovesUp ==
  ASSUME NEW S, IsFiniteSet(S), NEW limit \in Nat, NEW depth \in Depths(S, limit),
         HasRoom(depth, S, limit), NEW a \in S, depth[a] >= 1,
         \A s \in S \ {a} : depth[s] < depth[a],
         NEW new \in Depths(S, limit), \A s \in S \ {a} : depth[s] = new[s],
         new[a] = depth[a] - 1
  PROVE  HasRoom(new, S, limit)
<1>1. PICK m : m = depth[a]
  OBVIOUS
<1>2. m \in 1 .. limit /\ limit - m \in Nat /\ limit - (m - 1) = (limit - m) + 1 /\ (limit - m) + 1 <= limit
  BY <1>1 DEF Depths
<1>3. PICK q : q = Power(2)[limit - m]
  OBVIOUS
<1>4. q \in Nat \ {0} /\ Power(2)[(limit - m) + 1] = 2 * q
  BY <1>2, <1>3, PowersOfTwo
<1>. DEFINE shares == Shares(depth, S, limit)
            R == S \ {a}
<1>5. AreNumbers(shares, S) /\ \A s \in S : shares[s] = Power(2)[limit - depth[s]]
  <2>. DEFINE f == [s \in S |-> 0]
  <2>1. AreNumbers(f, S)
    BY DEF AreNumbers
  <2>. HIDE DEF f
  <2>. QED
    BY <2>1, DepthFacts
<1>6. PICK x \in Nat :
        /\ SumFunctionOnSet(Shares(depth, S, limit), S) = Power(2)[limit - depth[a]] + x
        /\ SumFunctionOnSet(Shares(new, S, limit), S) = Power(2)[limit - new[a]] + x
  <2>. DEFINE f == [s \in S |-> 0]
  <2>1. AreNumbers(f, S)
    BY DEF AreNumbers
  <2>. HIDE DEF f
  <2>. QED
    BY <2>1, DepthChanged
<1>. HIDE DEF shares
<1>7. IsFiniteSet(R) /\ AreNumbers(shares, R)
  BY <1>5, FS_Subset DEF AreNumbers
<1>8. SumFunctionOnSet(shares, S) = Power(2)[limit - depth[a]] + SumFunctionOnSet(shares, R)
      /\ SumFunctionOnSet(shares, R) \in Nat
  BY <1>5, <1>7, SumTakesOut, SumIsNat
<1>9. \A s \in R : \E k \in Nat : shares[s] = k * (2 * q)
  <2>1. ASSUME NEW s \in R PROVE \E k \in Nat : shares[s] = k * (2 * q)
    <3>1. s \in S /\ depth[s] \in 0 .. limit /\ depth[s] < m
      BY <1>1 DEF Depths
    <3>2. PICK n \in Nat : n = limit - depth[s] /\ (limit - m) + 1 <= n
      BY <1>2, <3>1
    <3>3. PICK c \in Nat : c = (limit - m) + 1
      BY <1>2
    <3>4. \E k \in Nat : Power(2)[n] = k * Power(2)[c]
      BY <3>2, <3>3, PowerDivides
    <3>. QED
      BY <1>4, <1>5, <3>1, <3>2, <3>3, <3>4
  <2>. QED
    BY <2>1
<1>10. PICK k \in Nat : SumFunctionOnSet(shares, R) = k * (2 * q)
  <2>1. PICK c \in Nat : c = 2 * q
    BY <1>4
  <2>2. PICK T : T = R
    OBVIOUS
  <2>3. IsFiniteSet(T) /\ \A s \in T : \E k \in Nat : shares[s] = k * c
    BY <1>7, <1>9, <2>1, <2>2
  <2>4. \E k \in Nat : SumFunctionOnSet(shares, T) = k * c
    BY <2>3, SumOfMultiples
  <2>. QED
    BY <2>1, <2>2, <2>4
<1>11. PICK r \in Nat : Power(2)[limit] = r * (2 * q)
  <2>1. PICK c \in Nat : c = (limit - m) + 1 /\ c <= limit
    BY <1>2
  <2>2. \E j \in Nat : Power(2)[limit] = j * Power(2)[c]
    BY <2>1, PowerDivides
  <2>. QED
    BY <1>4, <2>1, <2>2
<1>12. x = k * (2 * q) /\ q + k * (2 * q) <= r * (2 * q)
  <2>1. q + x <= r * (2 * q)
    BY <1>1, <1>3, <1>6, <1>11 DEF HasRoom
  <2>2. q + x = q + SumFunctionOnSet(shares, R) /\ SumFunctionOnSet(shares, R) \in Nat
    BY <1>1, <1>3, <1>6, <1>8 DEF shares
  <2>3. x = SumFunctionOnSet(shares, R)
    BY <1>4, <2>2
  <2>. QED
    BY <1>10, <2>1, <2>3
<1>13. 2 * q + k * (2 * q) <= r * (2 * q)
  <2>1. k < r
    <3>1. ASSUME r <= k PROVE FALSE
      <4>1. PICK d \in Nat : k = r + d
        <5>1. k - r \in Nat /\ k = r + (k - r)
          BY <3>1
        <5>. QED
          BY <5>1
      <4>2. k * (2 * q) = r * (2 * q) + d * (2 * q) /\ d * (2 * q) \in Nat /\ r * (2 * q) \in Nat
        BY <1>4, <4>1
      <4>. QED
        BY <1>4, <1>12, <4>2
    <3>. QED
      BY <3>1
  <2>2. PICK d \in Nat : r = (k + 1) + d
    <3>1. r - (k + 1) \in Nat /\ r = (k + 1) + (r - (k + 1))
      BY <2>1
    <3>. QED
      BY <3>1
  <2>3. /\ r * (2 * q) = k * (2 * q) + 2 * q + d * (2 * q)
        /\ d * (2 * q) \in Nat /\ k * (2 * q) \in Nat
    BY <1>4, <2>2
  <2>. QED
    BY <1>4, <2>3
<1>. QED
  <2>1. Power(2)[limit - new[a]] = 2 * q
    BY <1>1, <1>2, <1>4
  <2>2. SumFunctionOnSet(Shares(new, S, limit), S) = 2 * q + k * (2 * q)
    BY <1>6, <1>12, <2>1
  <2>. QED
    BY <1>11, <1>13, <2>2 DEF HasRoom

\* Two elements trade their depths: the lighter one goes down.
LEMMA DepthsSwapped ==
  ASSUME NEW S, IsFiniteSet(S), NEW limit \in Nat, NEW depth \in Depths(S, limit),
         NEW f, AreNumbers(f, S), NEW u \in S, NEW v \in S, u # v,
         HasRoom(depth, S, limit), depth[u] <= depth[v], f[u] <= f[v]
  PROVE  \E e \in Depths(S, limit) :
           /\ HasRoom(e, S, limit) /\ Weighed(f, e, S) <= Weighed(f, depth, S)
           /\ e[u] = depth[v] /\ \A s \in S \ {u, v} : e[s] = depth[s]
<1>. DEFINE mid == [depth EXCEPT ![u] = depth[v]]
            e == [mid EXCEPT ![v] = depth[u]]
<1>1. depth[u] \in 0 .. limit /\ depth[v] \in 0 .. limit /\ f[u] \in Nat /\ f[v] \in Nat
  BY DEF Depths, AreNumbers
<1>2. mid \in Depths(S, limit) /\ mid[u] = depth[v] /\ \A s \in S \ {u} : depth[s] = mid[s]
  BY <1>1 DEF Depths
<1>3. e \in Depths(S, limit) /\ e[v] = depth[u] /\ \A s \in S \ {v} : mid[s] = e[s]
  BY <1>1, <1>2 DEF Depths
<1>. HIDE DEF mid, e
<1>4. /\ \E x \in Nat :
           /\ SumFunctionOnSet(Shares(depth, S, limit), S) = Power(2)[limit - depth[u]] + x
           /\ SumFunctionOnSet(Shares(mid, S, limit), S) = Power(2)[limit - mid[u]] + x
      /\ \E y \in Nat :
           /\ Weighed(f, depth, S) = f[u] * depth[u] + y
           /\ Weighed(f, mid, S) = f[u] * mid[u] + y
  BY <1>2, DepthChanged
<1>5. /\ \E x \in Nat :
           /\ SumFunctionOnSet(Shares(mid, S, limit), S) = Power(2)[limit - mid[v]] + x
           /\ SumFunctionOnSet(Shares(e, S, limit), S) = Power(2)[limit - e[v]] + x
      /\ \E y \in Nat :
           /\ Weighed(f, mid, S) = f[v] * mid[v] + y
           /\ Weighed(f, e, S) = f[v] * e[v] + y
  BY <1>2, <1>3, DepthChanged
<1>6. mid[v] = depth[v]
  BY <1>2
<1>7. PICK p, r : /\ p = Power(2)[limit - depth[u]] /\ r = Power(2)[limit - depth[v]]
                  /\ p \in Nat /\ r \in Nat
  <2>1. limit - depth[u] \in Nat /\ limit - depth[v] \in Nat
    BY <1>1
  <2>. QED
    BY <2>1, PowersOfTwo
<1>8. HasRoom(e, S, limit)
  <2>1. PICK x \in Nat : /\ SumFunctionOnSet(Shares(depth, S, limit), S) = p + x
                         /\ SumFunctionOnSet(Shares(mid, S, limit), S) = r + x
    BY <1>2, <1>4, <1>7
  <2>2. PICK x2 \in Nat : /\ SumFunctionOnSet(Shares(mid, S, limit), S) = r + x2
                          /\ SumFunctionOnSet(Shares(e, S, limit), S) = p + x2
    BY <1>3, <1>5, <1>6, <1>7
  <2>3. x = x2
    BY <1>7, <2>1, <2>2
  <2>. QED
    BY <2>1, <2>2, <2>3 DEF HasRoom
<1>9. Weighed(f, e, S) <= Weighed(f, depth, S)
  <2>1. PICK y \in Nat : /\ Weighed(f, depth, S) = f[u] * depth[u] + y
                         /\ Weighed(f, mid, S) = f[u] * depth[v] + y
    BY <1>2, <1>4
  <2>2. PICK y2 \in Nat : /\ Weighed(f, mid, S) = f[v] * depth[v] + y2
                          /\ Weighed(f, e, S) = f[v] * depth[u] + y2
    BY <1>3, <1>5, <1>6
  <2>3. PICK d, g, i, j : d = depth[u] /\ i = depth[v] - depth[u] /\ g = f[u] /\ j = f[v] - f[u]
    OBVIOUS
  <2>4. d \in Nat /\ g \in Nat /\ i \in Nat /\ j \in Nat /\ depth[v] = d + i /\ f[v] = g + j
    BY <1>1, <2>3
  <2>5. /\ g * (d + i) = g * d + g * i /\ (g + j) * (d + i) = g * d + g * i + j * d + j * i
        /\ (g + j) * d = g * d + j * d
        /\ g * d \in Nat /\ g * i \in Nat /\ j * d \in Nat /\ j * i \in Nat
    BY <2>4
  <2>6. /\ Weighed(f, depth, S) = g * d + y
        /\ g * (d + i) + y = (g + j) * (d + i) + y2
        /\ Weighed(f, e, S) = (g + j) * d + y2
    BY <2>1, <2>2, <2>3, <2>4
  <2>. QED
    BY <2>5, <2>6
<1>10. e[u] = depth[v] /\ \A s \in S \ {u, v} : e[s] = depth[s]
  BY <1>2, <1>3
<1>. QED
  BY <1>3, <1>8, <1>9, <1>10

\* Depths that have room and cost no more than the given ones.
NoWorse(f, depth, S, limit) ==
  {e \in Depths(S, limit) : HasRoom(e, S, limit) /\ Weighed(f, e, S) <= Weighed(f, depth, S)}

\* Some such depths have two elements at the bottom: the smallest ones do.
LEMMA TwoAtBottom ==
  ASSUME NEW S, IsFiniteSet(S), NEW limit \in Nat, NEW f, AreNumbers(f, S),
         NEW depth \in Depths(S, limit), HasRoom(depth, S, limit),
         NEW a \in S, NEW b \in S, a # b
  PROVE  \E e \in NoWorse(f, depth, S, limit) : \E x, y \in S :
           x # y /\ e[x] = e[y] /\ e[x] >= 1 /\ \A s \in S : e[s] <= e[x]
<1>. DEFINE N == NoWorse(f, depth, S, limit)
            sizes == {SumFunctionOnSet(e, S) : e \in N}
<1>1. ASSUME NEW e \in Depths(S, limit)
      PROVE  Weighed(f, e, S) \in Nat /\ SumFunctionOnSet(e, S) \in Nat
  <2>1. AreNumbers(Products(f, e, S), S) /\ AreNumbers(e, S)
    BY DepthFacts
  <2>. QED
    BY <2>1, SumIsNat DEF Weighed
<1>2. depth \in N
  BY <1>1 DEF NoWorse
<1>3. sizes \subseteq Nat /\ sizes # {}
  BY <1>1, <1>2 DEF NoWorse
<1>4. PICK e \in N : \A g \in N : SumFunctionOnSet(e, S) <= SumFunctionOnSet(g, S)
  <2>1. Min(sizes) \in sizes /\ \A n \in sizes : Min(sizes) <= n
    <3>. HIDE DEF sizes
    <3>. QED
      BY <1>3, MinIsLeast
  <2>. QED
    BY <2>1
<1>5. /\ e \in Depths(S, limit) /\ HasRoom(e, S, limit) /\ Weighed(f, e, S) <= Weighed(f, depth, S)
      /\ \A s \in S : e[s] \in 0 .. limit
  BY <1>4 DEF NoWorse, Depths
<1>6. PICK x \in S : \A s \in S : e[s] <= e[x]
  <2>. DEFINE left == {limit - e[s] : s \in S}
  <2>1. left \subseteq Nat /\ left # {}
    BY <1>5
  <2>2. Min(left) \in left /\ \A n \in left : Min(left) <= n
    <3>. HIDE DEF left
    <3>. QED
      BY <2>1, MinIsLeast
  <2>3. PICK x \in S : \A s \in S : limit - e[x] <= limit - e[s]
    BY <2>2
  <2>4. \A s \in S : e[s] <= e[x]
    BY <1>5, <2>3
  <2>. QED
    BY <2>4
<1>7. e[x] >= 1
  <2>. SUFFICES ASSUME ~(e[x] >= 1) PROVE FALSE
    OBVIOUS
  <2>1. \A s \in S : e[s] = 0
    BY <1>5, <1>6
  <2>. DEFINE shares == Shares(e, S, limit)
  <2>2. AreNumbers(shares, S) /\ shares[a] = Power(2)[limit] /\ shares[b] = Power(2)[limit]
    <3>1. limit - e[a] = limit /\ limit - e[b] = limit
      BY <2>1
    <3>2. /\ AreNumbers(Shares(e, S, limit), S)
          /\ \A s \in S : Shares(e, S, limit)[s] = Power(2)[limit - e[s]]
      BY <1>5, DepthFacts
    <3>. QED
      BY <3>1, <3>2
  <2>3. Power(2)[limit] \in Nat \ {0}
    BY PowersOfTwo
  <2>. HIDE DEF shares
  <2>4. SumFunctionOnSet(shares, S) = shares[a] + shares[b] + SumFunctionOnSet(shares, S \ {a, b})
    BY <2>2, SumTakesTwo
  <2>5. SumFunctionOnSet(shares, S \ {a, b}) \in Nat
    <3>1. IsFiniteSet(S \ {a, b}) /\ AreNumbers(shares, S \ {a, b})
      BY <2>2, FS_Subset DEF AreNumbers
    <3>. QED
      BY <3>1, SumIsNat
  <2>6. SumFunctionOnSet(shares, S) <= Power(2)[limit]
    BY <1>5 DEF HasRoom, shares
  <2>. QED
    BY <2>2, <2>3, <2>4, <2>5, <2>6
<1>8. \E y \in S \ {x} : e[y] = e[x]
  <2>. SUFFICES ASSUME \A y \in S \ {x} : e[y] # e[x] PROVE FALSE
    OBVIOUS
  <2>1. \A s \in S \ {x} : e[s] < e[x]
    BY <1>5, <1>6
  <2>. DEFINE new == [e EXCEPT ![x] = e[x] - 1]
  <2>2. /\ new \in Depths(S, limit) /\ new[x] = e[x] - 1 /\ \A s \in S \ {x} : e[s] = new[s]
    <3>1. e[x] - 1 \in 0 .. limit
      BY <1>5, <1>7
    <3>. QED
      BY <1>5, <3>1 DEF Depths
  <2>. HIDE DEF new, N
  <2>3. HasRoom(new, S, limit)
    BY <1>5, <1>7, <2>1, <2>2, LoneMovesUp
  <2>4. /\ \E y \in Nat :
             /\ Weighed(f, e, S) = f[x] * e[x] + y
             /\ Weighed(f, new, S) = f[x] * new[x] + y
        /\ \E z \in Nat :
             /\ SumFunctionOnSet(e, S) = e[x] + z
             /\ SumFunctionOnSet(new, S) = new[x] + z
    BY <1>5, <2>2, DepthChanged
  <2>5. Weighed(f, new, S) <= Weighed(f, e, S)
    <3>1. PICK d \in Nat, n \in Nat : e[x] = d + 1 /\ new[x] = d /\ n = f[x]
      <4>1. e[x] \in Nat /\ e[x] >= 1 /\ f[x] \in Nat
        BY <1>5, <1>7 DEF AreNumbers
      <4>2. e[x] - 1 \in Nat /\ e[x] = (e[x] - 1) + 1
        BY <4>1
      <4>. QED
        BY <2>2, <4>1, <4>2
    <3>2. n * (d + 1) = n * d + n /\ n * d \in Nat
      OBVIOUS
    <3>3. \E y \in Nat : /\ Weighed(f, e, S) = n * (d + 1) + y
                         /\ Weighed(f, new, S) = n * d + y
      BY <2>4, <3>1
    <3>. QED
      BY <3>2, <3>3
  <2>6. new \in N
    <3>1. /\ Weighed(f, new, S) \in Nat /\ Weighed(f, e, S) \in Nat /\ Weighed(f, depth, S) \in Nat
      BY <1>1, <1>5, <2>2
    <3>2. Weighed(f, new, S) <= Weighed(f, depth, S)
      BY <1>5, <2>5, <3>1
    <3>. QED
      BY <2>2, <2>3, <3>2 DEF N, NoWorse
  <2>7. SumFunctionOnSet(e, S) <= SumFunctionOnSet(new, S)
    BY <1>4, <2>6
  <2>. QED
    BY <1>5, <2>2, <2>4, <2>7
<1>. QED
  BY <1>4, <1>6, <1>7, <1>8

\* The two lightest elements may be the ones at the bottom.
LEMMA LightestAtBottom ==
  ASSUME NEW S, IsFiniteSet(S), NEW limit \in Nat, NEW f, AreNumbers(f, S),
         NEW depth \in Depths(S, limit), HasRoom(depth, S, limit),
         NEW a \in S, NEW b \in S, a # b,
         \A s \in S \ {a, b} : f[a] <= f[s] /\ f[b] <= f[s]
  PROVE  \E e \in NoWorse(f, depth, S, limit) : e[a] = e[b] /\ e[a] >= 1
<1>. DEFINE N == NoWorse(f, depth, S, limit)
<1>0. ASSUME NEW e \in N, NEW u \in S, NEW v \in S, u # v, e[u] <= e[v], f[u] <= f[v]
      PROVE  \E g \in N : g[u] = e[v] /\ \A s \in S \ {u, v} : g[s] = e[s]
  <2>1. e \in Depths(S, limit) /\ HasRoom(e, S, limit) /\ Weighed(f, e, S) <= Weighed(f, depth, S)
    BY <1>0 DEF NoWorse
  <2>2. PICK g \in Depths(S, limit) :
          /\ HasRoom(g, S, limit) /\ Weighed(f, g, S) <= Weighed(f, e, S)
          /\ g[u] = e[v] /\ \A s \in S \ {u, v} : g[s] = e[s]
    BY <1>0, <2>1, DepthsSwapped
  <2>3. ASSUME NEW h \in Depths(S, limit) PROVE Weighed(f, h, S) \in Nat
    <3>1. AreNumbers(Products(f, h, S), S)
      BY DepthFacts
    <3>. QED
      BY <3>1, SumIsNat DEF Weighed
  <2>4. Weighed(f, g, S) <= Weighed(f, depth, S)
    <3>1. Weighed(f, g, S) \in Nat /\ Weighed(f, e, S) \in Nat /\ Weighed(f, depth, S) \in Nat
      BY <2>1, <2>2, <2>3
    <3>. QED
      BY <2>1, <2>2, <3>1
  <2>. QED
    BY <2>2, <2>4 DEF NoWorse
<1>1. PICK e \in N, x \in S, y \in S :
        x # y /\ e[x] = e[y] /\ e[x] >= 1 /\ \A s \in S : e[s] <= e[x]
  BY TwoAtBottom
<1>. HIDE DEF N
<1>2. \E g \in N : \E z \in S \ {a} : g[a] = e[x] /\ g[z] = e[x] /\ g[b] <= e[x]
  <2>1. CASE e[a] = e[x]
    <3>1. \E z \in S \ {a} : e[z] = e[x]
      BY <1>1
    <3>. QED
      BY <1>1, <2>1, <3>1
  <2>2. CASE e[a] # e[x]
    <3>1. PICK w \in S, z \in S : w # z /\ w # b /\ w # a /\ z # a /\ e[w] = e[x] /\ e[z] = e[x]
      BY <1>1, <2>2
    <3>2. f[a] <= f[w] /\ e[a] <= e[w]
      BY <1>1, <3>1
    <3>3. PICK g \in N : g[a] = e[w] /\ \A s \in S \ {a, w} : g[s] = e[s]
      BY <1>0, <3>1, <3>2
    <3>4. g[b] = e[b] /\ g[z] = e[z]
      BY <3>1, <3>3
    <3>. QED
      BY <1>1, <3>1, <3>3, <3>4
  <2>. QED
    BY <2>1, <2>2
<1>3. PICK g \in N, z \in S \ {a} : g[a] = e[x] /\ g[z] = e[x] /\ g[b] <= e[x]
  BY <1>2
<1>4. CASE g[b] = e[x]
  BY <1>1, <1>3, <1>4 DEF N
<1>5. CASE g[b] # e[x]
  <2>1. z \in S /\ z # b /\ z # a /\ f[b] <= f[z] /\ g[b] <= g[z]
    BY <1>3, <1>5
  <2>2. PICK h \in N : h[b] = g[z] /\ \A s \in S \ {b, z} : h[s] = g[s]
    BY <1>0, <2>1
  <2>3. h[a] = g[a]
    BY <2>1, <2>2
  <2>. QED
    BY <1>1, <1>3, <2>2, <2>3 DEF N
<1>. QED
  BY <1>4, <1>5

\* T has j, as heavy as both, in the place of a and b.
Replaces(j, a, b, S, f, T, g) ==
  /\ a \in S /\ b \in S /\ a # b /\ j \notin S \ {a, b}
  /\ T = (S \ {a, b}) \cup {j}
  /\ g[j] = f[a] + f[b] /\ \A s \in S \ {a, b} : g[s] = f[s]

\* Two elements at one depth become one element above them: the room stays, the
\* cost drops by what the two weigh.
LEMMA PairBecomesOne ==
  ASSUME NEW S, IsFiniteSet(S), NEW limit \in Nat, NEW f, AreNumbers(f, S),
         NEW e \in Depths(S, limit), HasRoom(e, S, limit),
         NEW a, NEW b, NEW j, NEW T, NEW g, Replaces(j, a, b, S, f, T, g),
         e[a] = e[b], e[a] >= 1
  PROVE  /\ IsFiniteSet(T) /\ AreNumbers(g, T)
         /\ \E d \in Depths(T, limit) :
              HasRoom(d, T, limit) /\ Weighed(f, e, S) = Weighed(g, d, T) + f[a] + f[b]
<1>0. /\ a \in S /\ b \in S /\ a # b /\ j \notin S \ {a, b} /\ T = (S \ {a, b}) \cup {j}
      /\ g[j] = f[a] + f[b] /\ \A s \in S \ {a, b} : g[s] = f[s]
  BY DEF Replaces
<1>. USE <1>0
<1>1. PICK R : R = S \ {a, b}
  OBVIOUS
<1>2. /\ IsFiniteSet(R) /\ IsFiniteSet(T) /\ T = R \cup {j} /\ j \in T /\ j \notin R /\ T \ {j} = R
      /\ R \subseteq S
  BY <1>1, FS_Subset, FS_AddElement
<1>3. /\ \A s \in S : e[s] \in 0 .. limit /\ f[s] \in Nat
      /\ AreNumbers(Shares(e, S, limit), S) /\ AreNumbers(Products(f, e, S), S)
      /\ \A s \in S : /\ Shares(e, S, limit)[s] = Power(2)[limit - e[s]]
                      /\ Products(f, e, S)[s] = f[s] * e[s]
  BY DepthFacts
<1>4. AreNumbers(g, T)
  BY <1>1, <1>2, <1>3 DEF AreNumbers
<1>. DEFINE d == [t \in T |-> IF t = j THEN e[a] - 1 ELSE e[t]]
<1>5. /\ d \in Depths(T, limit) /\ d[j] = e[a] - 1 /\ \A s \in R : d[s] = e[s]
  BY <1>2, <1>3 DEF Depths
<1>. HIDE DEF d
<1>6. /\ AreNumbers(Shares(d, T, limit), T) /\ AreNumbers(Products(g, d, T), T)
      /\ \A s \in T : /\ Shares(d, T, limit)[s] = Power(2)[limit - d[s]]
                      /\ Products(g, d, T)[s] = g[s] * d[s]
  <2>1. IsFiniteSet(T) /\ AreNumbers(g, T) /\ d \in Depths(T, limit) /\ limit \in Nat
    BY <1>2, <1>4, <1>5
  <2>. HIDE DEF d
  <2>. QED
    BY ONLY <2>1, DepthFacts
<1>7. PICK x \in Nat :
        /\ SumFunctionOnSet(Shares(e, S, limit), S) = Power(2)[limit - e[a]] + Power(2)[limit - e[b]] + x
        /\ SumFunctionOnSet(Shares(d, T, limit), T) = Power(2)[limit - d[j]] + x
  <2>. DEFINE old == Shares(e, S, limit)
              new == Shares(d, T, limit)
  <2>1. AreNumbers(old, S) /\ AreNumbers(new, T) /\ AreNumbers(old, R)
    BY <1>1, <1>3, <1>6 DEF AreNumbers
  <2>2. \A s \in R : old[s] = new[s] /\ old[s] \in Nat
    <3>1. ASSUME NEW s \in R PROVE old[s] = new[s] /\ old[s] \in Nat
      <4>1. s \in S /\ s \in T /\ d[s] = e[s]
        BY <1>2, <1>5
      <4>2. old[s] \in Nat
        BY <2>1, <4>1 DEF AreNumbers
      <4>3. old[s] = Power(2)[limit - e[s]] /\ new[s] = Power(2)[limit - d[s]]
        BY <1>3, <1>6, <4>1
      <4>. QED
        BY <4>1, <4>2, <4>3
    <3>. QED
      BY <3>1
  <2>3. /\ old[a] = Power(2)[limit - e[a]] /\ old[b] = Power(2)[limit - e[b]]
        /\ new[j] = Power(2)[limit - d[j]]
    BY <1>2, <1>3, <1>6
  <2>. HIDE DEF old, new
  <2>4. SumFunctionOnSet(old, R) = SumFunctionOnSet(new, R)
    BY <1>2, <2>2, SumUnchanged
  <2>5. SumFunctionOnSet(old, S) = old[a] + old[b] + SumFunctionOnSet(old, S \ {a, b})
    BY <2>1, SumTakesTwo
  <2>6. SumFunctionOnSet(new, T) = new[j] + SumFunctionOnSet(new, T \ {j})
    BY <1>2, <2>1, SumTakesOut
  <2>7. SumFunctionOnSet(old, R) \in Nat
    BY <1>2, <2>1, SumIsNat
  <2>. QED
    BY <1>1, <1>2, <2>3, <2>4, <2>5, <2>6, <2>7 DEF old, new
<1>8. PICK y \in Nat :
        /\ Weighed(f, e, S) = f[a] * e[a] + f[b] * e[b] + y
        /\ Weighed(g, d, T) = g[j] * d[j] + y
  <2>. DEFINE old == Products(f, e, S)
              new == Products(g, d, T)
  <2>1. AreNumbers(old, S) /\ AreNumbers(new, T) /\ AreNumbers(old, R)
    BY <1>1, <1>3, <1>6 DEF AreNumbers
  <2>2. \A s \in R : old[s] = new[s] /\ old[s] \in Nat
    <3>1. ASSUME NEW s \in R PROVE old[s] = new[s] /\ old[s] \in Nat
      <4>1. s \in S /\ s \in T /\ d[s] = e[s] /\ g[s] = f[s]
        BY <1>1, <1>2, <1>5
      <4>2. old[s] \in Nat
        BY <2>1, <4>1 DEF AreNumbers
      <4>3. old[s] = f[s] * e[s] /\ new[s] = g[s] * d[s]
        BY <1>3, <1>6, <4>1
      <4>. QED
        BY <4>1, <4>2, <4>3
    <3>. QED
      BY <3>1
  <2>3. /\ old[a] = f[a] * e[a] /\ old[b] = f[b] * e[b] /\ new[j] = g[j] * d[j]
    BY <1>2, <1>3, <1>6
  <2>. HIDE DEF old, new
  <2>4. SumFunctionOnSet(old, R) = SumFunctionOnSet(new, R)
    BY <1>2, <2>2, SumUnchanged
  <2>5. SumFunctionOnSet(old, S) = old[a] + old[b] + SumFunctionOnSet(old, S \ {a, b})
    BY <2>1, SumTakesTwo
  <2>6. SumFunctionOnSet(new, T) = new[j] + SumFunctionOnSet(new, T \ {j})
    BY <1>2, <2>1, SumTakesOut
  <2>7. SumFunctionOnSet(old, R) \in Nat
    BY <1>2, <2>1, SumIsNat
  <2>8. PICK y \in Nat : /\ SumFunctionOnSet(old, S) = old[a] + old[b] + y
                         /\ SumFunctionOnSet(new, T) = new[j] + y
    BY <1>1, <1>2, <2>4, <2>5, <2>6, <2>7
  <2>. QED
    BY <2>3, <2>8 DEF old, new, Weighed
<1>9. HasRoom(d, T, limit)
  <2>1. PICK q \in Nat : q = limit - e[a]
    BY <1>3
  <2>2. limit - e[b] = q /\ limit - d[j] = q + 1
    BY <1>3, <1>5, <2>1
  <2>3. Power(2)[q + 1] = 2 * Power(2)[q] /\ Power(2)[q] \in Nat /\ Power(2)[limit] \in Nat
    BY PowersOfTwo
  <2>4. SumFunctionOnSet(Shares(d, T, limit), T) = SumFunctionOnSet(Shares(e, S, limit), S)
    BY <1>7, <2>1, <2>2, <2>3
  <2>. QED
    BY <2>4 DEF HasRoom
<1>10. Weighed(f, e, S) = Weighed(g, d, T) + f[a] + f[b]
  <2>1. PICK n \in Nat, m \in Nat, k \in Nat : n = f[a] /\ m = f[b] /\ k = e[a] - 1
    BY <1>3
  <2>2. e[a] = k + 1 /\ e[b] = k + 1 /\ d[j] = k /\ g[j] = n + m
    BY <1>3, <1>5, <2>1
  <2>3. /\ Weighed(f, e, S) = n * (k + 1) + m * (k + 1) + y
        /\ Weighed(g, d, T) = (n + m) * k + y
    BY <1>8, <2>1, <2>2
  <2>4. /\ n * (k + 1) = n * k + n /\ m * (k + 1) = m * k + m /\ (n + m) * k = n * k + m * k
        /\ n * k \in Nat /\ m * k \in Nat
    OBVIOUS
  <2>. QED
    BY <2>1, <2>3, <2>4
<1>. QED
  BY <1>2, <1>4, <1>5, <1>9, <1>10

-----------------------------------------------------------------------------
(***************************************************************************)
(* What the nodes of the heap weigh and cost.                              *)
(***************************************************************************)
LeafDepths(node) == [v \in Values(node) |-> Len(node.codes[v])]

\* The bits that the codes below a node cost.
NodeCost(freqs, node) == Weighed(freqs, LeafDepths(node), Values(node))

NodeCosts(freqs, trees) == [node \in trees |-> NodeCost(freqs, node)]

NodeWeights(trees) == [node \in trees |-> node.frequency]

\* A node weighs what its leaves do.
AddsUp(freqs, trees) ==
  \A node \in trees : node.frequency = SumFunctionOnSet(freqs, Values(node))

\* The nodes can be hung at depths that leave room and cost n bits at most.
Affordable(freqs, trees, limit, n) ==
  \E depth \in Depths(trees, limit) :
    /\ HasRoom(depth, trees, limit)
    /\ SumFunctionOnSet(NodeCosts(freqs, trees), trees)
         + Weighed(NodeWeights(trees), depth, trees) <= n

LEMMA NodeFacts ==
  ASSUME NEW freqs \in Frequencies, NEW node, NodeTypeOK(node)
  PROVE  /\ IsFiniteSet(Values(node)) /\ AreNumbers(freqs, Values(node))
         /\ \A v \in Values(node) :
              /\ v \in Byte /\ freqs[v] \in Nat /\ node.codes[v] \in Seq(Bit)
              /\ Len(node.codes[v]) \in Nat
              /\ Products(freqs, LeafDepths(node), Values(node))[v] = freqs[v] * Len(node.codes[v])
         /\ AreNumbers(Products(freqs, LeafDepths(node), Values(node)), Values(node))
         /\ NodeCost(freqs, node) \in Nat
         /\ NodeCost(freqs, node)
              = SumFunctionOnSet(Products(freqs, LeafDepths(node), Values(node)), Values(node))
<1>1. IsFiniteSet(Values(node))
  <2>1. IsFiniteSet(Byte)
    BY ByteStreamAssumption, FS_Interval DEF Byte
  <2>2. Values(node) \in SUBSET Byte
    BY DEF NodeTypeOK
  <2>. QED
    BY <2>1, <2>2, FS_Subset
<1>2. ASSUME NEW v \in Values(node)
      PROVE  /\ v \in Byte /\ freqs[v] \in Nat /\ node.codes[v] \in Seq(Bit)
             /\ Len(node.codes[v]) \in Nat
  <2>1. v \in Byte /\ node.codes[v] \in Seq(Bit)
    BY DEF NodeTypeOK
  <2>2. freqs[v] \in Size
    BY <2>1 DEF Frequencies
  <2>3. freqs[v] \in Nat
    BY <2>2, ByteStreamAssumption DEF Size
  <2>. QED
    BY <2>1, <2>3, LenProperties
<1>3. ASSUME NEW v \in Values(node)
      PROVE  Products(freqs, LeafDepths(node), Values(node))[v] = freqs[v] * Len(node.codes[v])
  BY DEF Products, LeafDepths
<1>4. AreNumbers(Products(freqs, LeafDepths(node), Values(node)), Values(node))
  <2>1. ASSUME NEW v \in Values(node)
        PROVE  Products(freqs, LeafDepths(node), Values(node))[v] \in Nat
    <3>1. freqs[v] * Len(node.codes[v]) \in Nat
      BY <1>2
    <3>. QED
      BY <1>3, <3>1
  <2>. QED
    BY <2>1 DEF AreNumbers
<1>5. NodeCost(freqs, node) \in Nat
  BY <1>1, <1>4, SumIsNat DEF NodeCost, Weighed
<1>. QED
  BY <1>1, <1>2, <1>3, <1>4, <1>5 DEF AreNumbers, NodeCost, Weighed

\* No leaf weighs more than the whole table.
LEMMA PartOfTotal ==
  ASSUME NEW freqs \in Frequencies, NEW S \in SUBSET Byte
  PROVE  /\ SumFunctionOnSet(freqs, S) \in Nat /\ SumFunctionOnSet(freqs, Byte) \in Nat
         /\ SumFunctionOnSet(freqs, S) <= SumFunctionOnSet(freqs, Byte)
<1>1. IsFiniteSet(Byte)
  BY ByteStreamAssumption, FS_Interval DEF Byte
<1>2. PICK R : R = Byte \ S
  OBVIOUS
<1>3. IsFiniteSet(S) /\ IsFiniteSet(R) /\ S \cap R = {} /\ S \cup R = Byte
  BY <1>1, <1>2, FS_Subset
<1>4. \A v \in Byte : freqs[v] \in Nat
  BY ByteStreamAssumption DEF Frequencies, Size
<1>5. AreNumbers(freqs, S) /\ AreNumbers(freqs, R) /\ AreNumbers(freqs, Byte)
  BY <1>2, <1>4 DEF AreNumbers
<1>6. SumFunctionOnSet(freqs, S \cup R) = SumFunctionOnSet(freqs, S) + SumFunctionOnSet(freqs, R)
  BY <1>3, <1>5, SumOfUnion
<1>7. SumFunctionOnSet(freqs, S) \in Nat /\ SumFunctionOnSet(freqs, R) \in Nat
  BY <1>3, <1>5, SumIsNat
<1>8. SumFunctionOnSet(freqs, Byte) = SumFunctionOnSet(freqs, S) + SumFunctionOnSet(freqs, R)
  <2>1. PICK U : U = Byte /\ U = S \cup R
    BY <1>3
  <2>2. SumFunctionOnSet(freqs, U) = SumFunctionOnSet(freqs, S) + SumFunctionOnSet(freqs, R)
    BY <1>6, <2>1
  <2>. QED
    BY <2>1, <2>2
<1>. QED
  BY <1>7, <1>8

\* One half of the parent: every code below it gets a bit longer.
LEMMA HalfCost ==
  ASSUME NEW freqs \in Frequencies, NEW node, NodeTypeOK(node), NEW p,
         \A v \in Values(node) : p[v] = freqs[v] * (Len(node.codes[v]) + 1)
  PROVE  /\ AreNumbers(p, Values(node))
         /\ SumFunctionOnSet(p, Values(node))
              = NodeCost(freqs, node) + SumFunctionOnSet(freqs, Values(node))
<1>. DEFINE q == Products(freqs, LeafDepths(node), Values(node))
<1>1. /\ IsFiniteSet(Values(node)) /\ AreNumbers(freqs, Values(node)) /\ AreNumbers(q, Values(node))
      /\ \A v \in Values(node) : /\ freqs[v] \in Nat /\ Len(node.codes[v]) \in Nat
                                 /\ q[v] = freqs[v] * Len(node.codes[v])
      /\ NodeCost(freqs, node) = SumFunctionOnSet(q, Values(node))
  BY NodeFacts
<1>. HIDE DEF q
<1>2. ASSUME NEW v \in Values(node) PROVE p[v] = q[v] + freqs[v] /\ p[v] \in Nat
  <2>1. PICK n \in Nat, m \in Nat : n = freqs[v] /\ m = Len(node.codes[v])
    BY <1>1
  <2>2. n * (m + 1) = n * m + n /\ n * m \in Nat
    OBVIOUS
  <2>3. p[v] = n * (m + 1) /\ q[v] = n * m
    BY <1>1, <2>1
  <2>. QED
    BY <2>1, <2>2, <2>3
<1>3. SumFunctionOnSet(p, Values(node))
        = SumFunctionOnSet(q, Values(node)) + SumFunctionOnSet(freqs, Values(node))
  BY <1>1, <1>2, SumAdds
<1>. QED
  BY <1>1, <1>2, <1>3 DEF AreNumbers

\* The parent's codes cost one bit more for each value below it.
LEMMA JoinCost ==
  ASSUME NEW freqs \in Frequencies, NEW a, NEW b, NodeTypeOK(a), NodeTypeOK(b), Disjoint(a, b)
  PROVE  NodeCost(freqs, Join(a, b))
           = NodeCost(freqs, a) + NodeCost(freqs, b)
               + SumFunctionOnSet(freqs, Values(a)) + SumFunctionOnSet(freqs, Values(b))
<1>1. PICK j : j = Join(a, b)
  OBVIOUS
<1>2. /\ Values(j) = Values(a) \cup Values(b) /\ NodeTypeOK(j)
      /\ \A v \in Values(a) : j.codes[v] = <<0>> \o a.codes[v]
      /\ \A v \in Values(b) : j.codes[v] = <<1>> \o b.codes[v]
  <2>1. NodeTypeOK(Join(a, b))
    BY JoinType
  <2>2. /\ Values(Join(a, b)) = Values(a) \cup Values(b)
        /\ \A v \in Values(a) : Join(a, b).codes[v] = <<0>> \o a.codes[v]
        /\ \A v \in Values(b) : Join(a, b).codes[v] = <<1>> \o b.codes[v]
    BY JoinFacts
  <2>. QED
    BY <1>1, <2>1, <2>2
<1>. DEFINE p == Products(freqs, LeafDepths(j), Values(j))
<1>3. /\ \A v \in Values(j) : p[v] = freqs[v] * Len(j.codes[v])
      /\ NodeCost(freqs, j) = SumFunctionOnSet(p, Values(j))
  BY <1>2, NodeFacts
<1>4. /\ IsFiniteSet(Values(a)) /\ IsFiniteSet(Values(b))
      /\ NodeCost(freqs, a) \in Nat /\ NodeCost(freqs, b) \in Nat
      /\ AreNumbers(freqs, Values(a)) /\ AreNumbers(freqs, Values(b))
      /\ \A v \in Values(a) : a.codes[v] \in Seq(Bit)
      /\ \A v \in Values(b) : b.codes[v] \in Seq(Bit)
  BY NodeFacts
<1>. HIDE DEF p
<1>5. ASSUME NEW v \in Values(a) PROVE p[v] = freqs[v] * (Len(a.codes[v]) + 1)
  <2>1. Len(<<0>> \o a.codes[v]) = Len(a.codes[v]) + 1
    BY <1>4, BitInFront DEF Bit
  <2>. QED
    BY <1>2, <1>3, <2>1
<1>6. ASSUME NEW v \in Values(b) PROVE p[v] = freqs[v] * (Len(b.codes[v]) + 1)
  <2>1. Len(<<1>> \o b.codes[v]) = Len(b.codes[v]) + 1
    BY <1>4, BitInFront DEF Bit
  <2>. QED
    BY <1>2, <1>3, <2>1
<1>7. /\ AreNumbers(p, Values(a))
      /\ SumFunctionOnSet(p, Values(a)) = NodeCost(freqs, a) + SumFunctionOnSet(freqs, Values(a))
  BY <1>5, HalfCost
<1>8. /\ AreNumbers(p, Values(b))
      /\ SumFunctionOnSet(p, Values(b)) = NodeCost(freqs, b) + SumFunctionOnSet(freqs, Values(b))
  BY <1>6, HalfCost
<1>9. SumFunctionOnSet(p, Values(a) \cup Values(b))
        = SumFunctionOnSet(p, Values(a)) + SumFunctionOnSet(p, Values(b))
  BY <1>4, <1>7, <1>8, SumOfUnion DEF Disjoint
<1>10. SumFunctionOnSet(freqs, Values(a)) \in Nat /\ SumFunctionOnSet(freqs, Values(b)) \in Nat
  BY <1>4, SumIsNat
<1>. QED
  BY <1>1, <1>2, <1>3, <1>4, <1>7, <1>8, <1>9, <1>10

\* A round keeps the sums right and finds depths for its heap that cost no more.
LEMMA RoundAffordable ==
  ASSUME NEW freqs \in Frequencies, SumFunctionOnSet(freqs, Byte) < SizeMod,
         NEW trees, Forest(trees), IsFiniteSet(trees), AddsUp(freqs, trees),
         NEW merged \in MergeRound(trees)
  PROVE  /\ AddsUp(freqs, merged)
         /\ \A limit \in Nat : \A n \in Nat :
              Affordable(freqs, trees, limit, n) => Affordable(freqs, merged, limit, n)
<1>1. PICK a, b, j :
        /\ a \in trees /\ b \in trees /\ a # b /\ j = Join(a, b)
        /\ MayPop(a, trees) /\ MayPop(b, trees \ {a})
        /\ merged = (trees \ {a, b}) \cup {j}
  <2>1. PICK pair \in PopTwo(trees) :
          merged = (trees \ {pair[1], pair[2]}) \cup {Join(pair[1], pair[2])}
    BY DEF MergeRound
  <2>2. /\ pair[1] \in trees /\ pair[2] \in trees /\ pair[1] # pair[2]
        /\ MayPop(pair[1], trees) /\ MayPop(pair[2], trees \ {pair[1]})
    BY DEF PopTwo
  <2>. QED
    BY <2>1, <2>2
<1>2. /\ \A node \in trees : NodeTypeOK(node)
      /\ \A c, d \in trees : c # d => Disjoint(c, d)
  BY DEF Forest
<1>3. /\ j.frequency = (a.frequency + b.frequency) % SizeMod
      /\ Values(j) = Values(a) \cup Values(b)
  BY <1>1, <1>2, JoinFacts
<1>4. /\ a.frequency = SumFunctionOnSet(freqs, Values(a)) /\ a.frequency \in Nat
      /\ b.frequency = SumFunctionOnSet(freqs, Values(b)) /\ b.frequency \in Nat
      /\ j.frequency = SumFunctionOnSet(freqs, Values(j))
      /\ j.frequency = a.frequency + b.frequency
  <2>1. /\ IsFiniteSet(Values(a)) /\ AreNumbers(freqs, Values(a))
        /\ IsFiniteSet(Values(b)) /\ AreNumbers(freqs, Values(b))
    BY <1>1, <1>2, NodeFacts
  <2>2. a.frequency = SumFunctionOnSet(freqs, Values(a)) /\ b.frequency = SumFunctionOnSet(freqs, Values(b))
    BY <1>1 DEF AddsUp
  <2>3. a.frequency \in Nat /\ b.frequency \in Nat
    BY <2>1, <2>2, SumIsNat
  <2>4. SumFunctionOnSet(freqs, Values(j)) = a.frequency + b.frequency
    <3>1. Values(a) \cap Values(b) = {}
      BY <1>1, <1>2 DEF Disjoint
    <3>2. SumFunctionOnSet(freqs, Values(a) \cup Values(b)) = a.frequency + b.frequency
      BY <2>1, <2>2, <3>1, SumOfUnion
    <3>. QED
      BY <1>3, <3>2
  <2>5. a.frequency + b.frequency < SizeMod
    <3>1. Values(j) \in SUBSET Byte
      BY <1>1, <1>2, <1>3 DEF NodeTypeOK
    <3>2. PICK S \in SUBSET Byte : S = Values(j)
      BY <3>1
    <3>3. /\ SumFunctionOnSet(freqs, S) \in Nat /\ SumFunctionOnSet(freqs, Byte) \in Nat
          /\ SumFunctionOnSet(freqs, S) <= SumFunctionOnSet(freqs, Byte)
      BY PartOfTotal
    <3>4. SumFunctionOnSet(freqs, S) = a.frequency + b.frequency
      BY <2>4, <3>2
    <3>. QED
      BY <2>3, <3>3, <3>4, ByteStreamAssumption
  <2>6. (a.frequency + b.frequency) % SizeMod = a.frequency + b.frequency
    <3>1. PICK x : x = a.frequency + b.frequency
      OBVIOUS
    <3>2. x \in Nat /\ x < SizeMod /\ SizeMod \in Nat \ {0}
      BY <2>3, <2>5, <3>1, ByteStreamAssumption
    <3>3. x % SizeMod = x
      BY <3>2
    <3>. QED
      BY <3>1, <3>3
  <2>. QED
    BY <1>3, <2>2, <2>3, <2>4, <2>6
<1>5. AddsUp(freqs, merged)
  BY <1>1, <1>4 DEF AddsUp
<1>6. j \notin trees \ {a, b}
  <2>. SUFFICES ASSUME j \in trees \ {a, b} PROVE FALSE
    OBVIOUS
  <2>1. Disjoint(j, a) /\ Values(a) # {}
    BY <1>1, <1>2 DEF NodeTypeOK
  <2>. QED
    BY <1>3, <2>1 DEF Disjoint
<1>. DEFINE f == NodeWeights(trees)
            g == NodeWeights(merged)
<1>7. /\ \A s \in trees : f[s] = s.frequency /\ f[s] \in Nat
      /\ \A s \in merged : g[s] = s.frequency
  <2>1. \A s \in trees : s.frequency \in Nat
    BY <1>2, ByteStreamAssumption DEF NodeTypeOK, Size
  <2>. QED
    BY <2>1 DEF NodeWeights
<1>8. \A s \in trees \ {a, b} : f[a] <= f[s] /\ f[b] <= f[s]
  <2>1. ASSUME NEW s \in trees \ {a, b} PROVE f[a] <= f[s] /\ f[b] <= f[s]
    <3>1. ~Before(s, a) /\ ~Before(s, b)
      BY <1>1 DEF MayPop
    <3>2. ~(s.frequency < a.frequency) /\ ~(s.frequency < b.frequency)
      BY <3>1 DEF Before
    <3>. QED
      BY <1>1, <1>7, <3>2
  <2>. QED
    BY <2>1
<1>9. /\ j \in merged /\ g[j] = f[a] + f[b] /\ \A s \in trees \ {a, b} : g[s] = f[s]
      /\ AreNumbers(f, trees)
  BY <1>1, <1>4, <1>7 DEF AreNumbers
<1>. HIDE DEF f, g
<1>10. ASSUME NEW limit \in Nat, NEW n \in Nat, Affordable(freqs, trees, limit, n)
       PROVE  Affordable(freqs, merged, limit, n)
  <2>. DEFINE old == NodeCosts(freqs, trees)
              new == NodeCosts(freqs, merged)
              R == trees \ {a, b}
  <2>1. PICK depth \in Depths(trees, limit) :
          /\ HasRoom(depth, trees, limit)
          /\ SumFunctionOnSet(old, trees) + Weighed(f, depth, trees) <= n
    BY <1>10 DEF Affordable, f
  <2>2. PICK e \in NoWorse(f, depth, trees, limit) : e[a] = e[b] /\ e[a] >= 1
    BY <1>1, <1>8, <1>9, <2>1, LightestAtBottom
  <2>3. e \in Depths(trees, limit) /\ HasRoom(e, trees, limit)
        /\ Weighed(f, e, trees) <= Weighed(f, depth, trees)
    BY <2>2 DEF NoWorse
  <2>4. /\ IsFiniteSet(merged) /\ AreNumbers(g, merged)
        /\ \E d \in Depths(merged, limit) :
             HasRoom(d, merged, limit) /\ Weighed(f, e, trees) = Weighed(g, d, merged) + f[a] + f[b]
    <3>1. Replaces(j, a, b, trees, f, merged, g)
      BY <1>1, <1>6, <1>9 DEF Replaces
    <3>. QED
      BY <1>9, <2>2, <2>3, <3>1, PairBecomesOne
  <2>5. PICK d \in Depths(merged, limit) :
          HasRoom(d, merged, limit) /\ Weighed(f, e, trees) = Weighed(g, d, merged) + f[a] + f[b]
    BY <2>4
  <2>6. /\ \A s \in trees : old[s] = NodeCost(freqs, s) /\ old[s] \in Nat
        /\ \A s \in merged : new[s] = NodeCost(freqs, s)
    BY <1>2, NodeFacts DEF NodeCosts
  <2>7. NodeCost(freqs, j) = old[a] + old[b] + f[a] + f[b]
    <3>1. NodeCost(freqs, Join(a, b))
            = NodeCost(freqs, a) + NodeCost(freqs, b)
                + SumFunctionOnSet(freqs, Values(a)) + SumFunctionOnSet(freqs, Values(b))
      BY <1>1, <1>2, JoinCost
    <3>. QED
      BY <1>1, <1>4, <1>7, <2>6, <3>1
  <2>. HIDE DEF old, new, R
  <2>8. IsFiniteSet(R) /\ R \subseteq trees /\ R \subseteq merged /\ merged \ {j} = R /\ trees \ {a, b} = R
    BY <1>1, <1>6, FS_Subset DEF R
  <2>9. /\ AreNumbers(old, trees) /\ AreNumbers(old, R) /\ AreNumbers(new, merged)
        /\ \A s \in R : old[s] = new[s] /\ old[s] \in Nat
    <3>1. \A s \in R : old[s] = new[s] /\ old[s] \in Nat /\ new[s] \in Nat
      BY <2>6, <2>8
    <3>2. new[j] \in Nat
      BY <1>1, <1>7, <1>9, <2>6, <2>7
    <3>. QED
      BY <2>6, <2>8, <3>1, <3>2 DEF AreNumbers
  <2>10. SumFunctionOnSet(old, trees) = old[a] + old[b] + SumFunctionOnSet(old, R)
    <3>1. SumFunctionOnSet(old, trees) = old[a] + old[b] + SumFunctionOnSet(old, trees \ {a, b})
      BY <1>1, <2>9, SumTakesTwo
    <3>. QED
      BY <2>8, <3>1
  <2>11. SumFunctionOnSet(new, merged) = new[j] + SumFunctionOnSet(new, R)
    <3>1. SumFunctionOnSet(new, merged) = new[j] + SumFunctionOnSet(new, merged \ {j})
      BY <1>9, <2>4, <2>9, SumTakesOut
    <3>. QED
      BY <2>8, <3>1
  <2>12. SumFunctionOnSet(old, R) = SumFunctionOnSet(new, R) /\ SumFunctionOnSet(old, R) \in Nat
    BY <2>8, <2>9, SumUnchanged, SumIsNat
  <2>13. /\ Weighed(f, depth, trees) \in Nat /\ Weighed(f, e, trees) \in Nat
         /\ Weighed(g, d, merged) \in Nat
    <3>1. AreNumbers(Products(f, depth, trees), trees) /\ AreNumbers(Products(f, e, trees), trees)
      BY <1>9, <2>1, <2>3, DepthFacts
    <3>2. AreNumbers(Products(g, d, merged), merged)
      BY <2>4, <2>5, DepthFacts
    <3>. QED
      BY <2>4, <3>1, <3>2, SumIsNat DEF Weighed
  <2>14. SumFunctionOnSet(new, merged) + Weighed(g, d, merged) <= n
    <3>1. /\ new[j] = old[a] + old[b] + f[a] + f[b]
          /\ old[a] \in Nat /\ old[b] \in Nat /\ f[a] \in Nat /\ f[b] \in Nat
      BY <1>1, <1>7, <1>9, <2>6, <2>7
    <3>. QED
      BY <2>1, <2>3, <2>5, <2>10, <2>11, <2>12, <2>13, <3>1
  <2>. QED
    BY <2>5, <2>14 DEF Affordable, g, new
<1>. QED
  BY <1>5, <1>10

-----------------------------------------------------------------------------
\* The nodes of the first heap are the leaves of the values that occur.
LEMMA HeapOfLeaves ==
  ASSUME NEW freqs \in Frequencies, NEW S, S = Occurring(freqs)
  PROVE  /\ S \subseteq Byte /\ IsFiniteSet(S) /\ AreNumbers(freqs, S)
         /\ \A v \in S : Leaf(v, freqs[v]) \in MakeHeap(freqs) /\ Values(Leaf(v, freqs[v])) = {v}
         /\ \A node \in MakeHeap(freqs) :
              \E v \in S : /\ node = Leaf(v, freqs[v]) /\ Values(node) = {v}
                          /\ node.frequency = freqs[v] /\ node.codes[v] = <<>>
<1>1. MakeHeap(freqs) = {Leaf(v, freqs[v]) : v \in S}
  BY DEF MakeHeap, Occurring
<1>2. IsFiniteSet(S) /\ S \subseteq Byte
  <2>1. IsFiniteSet(Byte)
    BY ByteStreamAssumption, FS_Interval DEF Byte
  <2>2. S \in SUBSET Byte
    BY DEF Occurring
  <2>. QED
    BY <2>1, <2>2, FS_Subset
<1>3. ASSUME NEW v \in S
      PROVE  /\ freqs[v] \in Nat /\ Values(Leaf(v, freqs[v])) = {v}
             /\ Leaf(v, freqs[v]).frequency = freqs[v] /\ Leaf(v, freqs[v]).codes[v] = <<>>
  <2>1. v \in Byte /\ freqs[v] \in Size
    BY <1>2 DEF Frequencies
  <2>2. freqs[v] \in Nat
    BY <2>1, ByteStreamAssumption DEF Size
  <2>. QED
    BY <2>1, <2>2, LeafFacts DEF Leaf
<1>. QED
  BY <1>1, <1>2, <1>3 DEF AreNumbers

\* A leaf weighs what its value does.
LEMMA LeavesAddUp ==
  ASSUME NEW freqs \in Frequencies
  PROVE  AddsUp(freqs, MakeHeap(freqs))
<1>1. ASSUME NEW node \in MakeHeap(freqs) PROVE node.frequency = SumFunctionOnSet(freqs, Values(node))
  <2>1. PICK S : S = Occurring(freqs)
    OBVIOUS
  <2>2. PICK v \in S : Values(node) = {v} /\ node.frequency = freqs[v]
    BY <2>1, HeapOfLeaves
  <2>3. freqs[v] \in Nat
    BY <2>1, HeapOfLeaves DEF AreNumbers
  <2>4. PICK T : T = {v}
    OBVIOUS
  <2>5. IsFiniteSet(T) /\ AreNumbers(freqs, T) /\ v \in T /\ T \ {v} = {}
    BY <2>3, <2>4, FS_Singleton DEF AreNumbers
  <2>6. SumFunctionOnSet(freqs, T) = freqs[v] + SumFunctionOnSet(freqs, T \ {v})
    BY <2>5, SumTakesOut
  <2>7. SumFunctionOnSet(freqs, T \ {v}) = 0
    BY <2>5, SumOfNone
  <2>. QED
    BY <2>2, <2>3, <2>4, <2>6, <2>7
<1>. QED
  BY <1>1 DEF AddsUp

\* The leaves of the first heap can be hung wherever the values' codes end.
LEMMA LeavesAffordable ==
  ASSUME NEW freqs \in Frequencies, NEW S, S = Occurring(freqs),
         NEW limit \in Nat, NEW length \in Depths(S, limit), HasRoom(length, S, limit)
  PROVE  Affordable(freqs, MakeHeap(freqs), limit, Weighed(freqs, length, S))
<1>1. PICK trees : trees = MakeHeap(freqs)
  OBVIOUS
<1>2. IsFiniteSet(trees) /\ Forest(trees)
  BY <1>1, MakeHeapForest
<1>4. IsFiniteSet(S) /\ S \subseteq Byte
  BY HeapOfLeaves
<1>6. AreNumbers(freqs, S)
  BY HeapOfLeaves
<1>5. \A v \in S : /\ freqs[v] \in Nat /\ Leaf(v, freqs[v]) \in trees
                  /\ Values(Leaf(v, freqs[v])) = {v}
  BY <1>1, <1>6, HeapOfLeaves DEF AreNumbers
<1>7. \A node \in trees :
        \E v \in S : /\ node = Leaf(v, freqs[v]) /\ Values(node) = {v}
                    /\ node.frequency = freqs[v] /\ node.codes[v] = <<>>
  BY <1>1, HeapOfLeaves
\* Which value a leaf holds.
<1>. DEFINE to == [node \in trees |-> CHOOSE v \in S : node = Leaf(v, freqs[v])]
<1>9. ASSUME NEW node \in trees
      PROVE  /\ to[node] \in S /\ node = Leaf(to[node], freqs[to[node]])
             /\ Values(node) = {to[node]} /\ node.frequency = freqs[to[node]]
  <2>1. to[node] \in S /\ node = Leaf(to[node], freqs[to[node]])
    BY <1>7
  <2>. HIDE DEF to
  <2>2. Values(node) = {to[node]}
    BY <1>5, <2>1
  <2>3. PICK v \in S : Values(node) = {v} /\ node.frequency = freqs[v]
    BY <1>7
  <2>. QED
    BY <2>1, <2>2, <2>3
<1>10. /\ to \in [trees -> S]
       /\ \A v \in S : \E node \in trees : v = to[node]
       /\ \A c, d \in trees : to[c] = to[d] => c = d
  <2>1. to \in [trees -> S]
    BY <1>9
  <2>. HIDE DEF to
  <2>2. ASSUME NEW v \in S PROVE \E node \in trees : v = to[node]
    <3>1. Leaf(v, freqs[v]) \in trees /\ Values(Leaf(v, freqs[v])) = {v}
      BY <1>5
    <3>2. {v} = {to[Leaf(v, freqs[v])]}
      BY <1>9, <3>1
    <3>. QED
      BY <3>1, <3>2
  <2>3. ASSUME NEW c \in trees, NEW d \in trees, to[c] = to[d] PROVE c = d
    BY <1>9, <2>3
  <2>. QED
    BY <2>1, <2>2, <2>3
<1>. HIDE DEF to
<1>. DEFINE d == [node \in trees |-> length[to[node]]]
            f == NodeWeights(trees)
<1>11. /\ d \in Depths(trees, limit) /\ \A node \in trees : d[node] = length[to[node]]
       /\ \A node \in trees : f[node] = freqs[to[node]]
       /\ AreNumbers(f, trees)
  BY <1>5, <1>9, <1>10 DEF Depths, NodeWeights, AreNumbers
<1>. HIDE DEF d, f
<1>12. HasRoom(d, trees, limit)
  <2>. DEFINE shares == Shares(d, trees, limit)
              given == Shares(length, S, limit)
  <2>1. \A node \in trees : shares[node] = Power(2)[limit - d[node]] /\ shares[node] \in Nat
    <3>1. /\ AreNumbers(shares, trees)
          /\ \A node \in trees : shares[node] = Power(2)[limit - d[node]]
      BY <1>2, <1>11, DepthFacts
    <3>. QED
      BY <3>1 DEF AreNumbers
  <2>2. \A v \in S : given[v] = Power(2)[limit - length[v]]
    BY DEF Shares
  <2>. HIDE DEF shares, given
  <2>3. \A node \in trees : shares[node] = given[to[node]] /\ shares[node] \in Nat
    BY <1>9, <1>11, <2>1, <2>2
  <2>4. SumFunctionOnSet(shares, trees) = SumFunctionOnSet(given, S)
    BY <1>2, <1>10, <2>3, SumRenamed
  <2>. QED
    BY <2>4 DEF HasRoom, shares, given
<1>13. Weighed(f, d, trees) = Weighed(freqs, length, S)
  <2>. DEFINE mine == Products(f, d, trees)
              given == Products(freqs, length, S)
  <2>1. \A node \in trees : mine[node] = f[node] * d[node] /\ mine[node] \in Nat
    BY <1>2, <1>11, DepthFacts DEF AreNumbers
  <2>2. \A v \in S : given[v] = freqs[v] * length[v]
    BY <1>4, <1>6, DepthFacts
  <2>. HIDE DEF mine, given
  <2>3. \A node \in trees : mine[node] = given[to[node]] /\ mine[node] \in Nat
    BY <1>9, <1>11, <2>1, <2>2
  <2>4. SumFunctionOnSet(mine, trees) = SumFunctionOnSet(given, S)
    BY <1>2, <1>10, <2>3, SumRenamed
  <2>. QED
    BY <2>4 DEF Weighed, mine, given
<1>14. SumFunctionOnSet(NodeCosts(freqs, trees), trees) = 0
  <2>. DEFINE costs == NodeCosts(freqs, trees)
  <2>1. ASSUME NEW node \in trees PROVE \E k \in Nat : costs[node] = k * 0
    <3>1. PICK v \in S : Values(node) = {v} /\ node.codes[v] = <<>>
      BY <1>7
    <3>. DEFINE p == Products(freqs, LeafDepths(node), Values(node))
    <3>2. /\ p[v] = freqs[v] * Len(node.codes[v]) /\ freqs[v] \in Nat
          /\ AreNumbers(p, Values(node)) /\ NodeCost(freqs, node) = SumFunctionOnSet(p, Values(node))
      <4>1. NodeTypeOK(node)
        BY <1>2 DEF Forest
      <4>. QED
        BY <3>1, <4>1, NodeFacts
    <3>. HIDE DEF p
    <3>3. p[v] = 0
      <4>1. Len(node.codes[v]) = 0
        BY <3>1
      <4>. QED
        BY <3>2, <4>1
    <3>4. PICK T : T = Values(node)
      OBVIOUS
    <3>5. IsFiniteSet(T) /\ v \in T /\ AreNumbers(p, T) /\ T \ {v} = {}
      BY <3>1, <3>2, <3>4, FS_Singleton
    <3>6. SumFunctionOnSet(p, T) = p[v] + SumFunctionOnSet(p, T \ {v})
      BY <3>5, SumTakesOut
    <3>7. SumFunctionOnSet(p, T \ {v}) = 0
      BY <3>5, SumOfNone
    <3>8. costs[node] = 0
      BY <3>2, <3>3, <3>4, <3>6, <3>7 DEF NodeCosts
    <3>. QED
      BY <3>8
  <2>. HIDE DEF costs
  <2>2. PICK zero \in Nat : zero = 0
    OBVIOUS
  <2>3. \E k \in Nat : SumFunctionOnSet(costs, trees) = k * zero
    BY <1>2, <2>1, <2>2, SumOfMultiples
  <2>. QED
    BY <2>2, <2>3 DEF costs
<1>15. Weighed(freqs, length, S) \in Nat
  <2>1. AreNumbers(Products(freqs, length, S), S)
    BY <1>4, <1>6, DepthFacts
  <2>. QED
    BY <1>4, <2>1, SumIsNat DEF Weighed
<1>16. Affordable(freqs, trees, limit, Weighed(freqs, length, S))
  BY <1>11, <1>12, <1>13, <1>14, <1>15 DEF Affordable, f
<1>. QED
  BY <1>1, <1>16

\* The last node alone costs no more than what was affordable.
LEMMA RootCost ==
  ASSUME NEW freqs \in Frequencies, NEW trees, Forest(trees), IsFiniteSet(trees),
         NEW root \in trees, trees = {root}, NEW limit \in Nat, NEW n \in Nat,
         Affordable(freqs, trees, limit, n)
  PROVE  NodeCost(freqs, root) <= n
<1>1. PICK depth \in Depths(trees, limit) :
        SumFunctionOnSet(NodeCosts(freqs, trees), trees) + Weighed(NodeWeights(trees), depth, trees) <= n
  BY DEF Affordable
<1>2. NodeTypeOK(root)
  BY DEF Forest
<1>3. Weighed(NodeWeights(trees), depth, trees) \in Nat
  <2>1. AreNumbers(NodeWeights(trees), trees)
    BY <1>2, ByteStreamAssumption DEF AreNumbers, NodeWeights, NodeTypeOK, Size
  <2>2. AreNumbers(Products(NodeWeights(trees), depth, trees), trees)
    BY <2>1, DepthFacts
  <2>. QED
    BY <2>2, SumIsNat DEF Weighed
<1>4. SumFunctionOnSet(NodeCosts(freqs, trees), trees) = NodeCost(freqs, root)
  <2>. DEFINE costs == NodeCosts(freqs, trees)
  <2>1. costs[root] = NodeCost(freqs, root) /\ costs[root] \in Nat
    BY <1>2, NodeFacts DEF NodeCosts
  <2>. HIDE DEF costs
  <2>2. AreNumbers(costs, trees) /\ trees \ {root} = {}
    BY <2>1 DEF AreNumbers
  <2>3. SumFunctionOnSet(costs, trees) = costs[root] + SumFunctionOnSet(costs, trees \ {root})
    BY <2>2, SumTakesOut
  <2>4. SumFunctionOnSet(costs, trees \ {root}) = 0
    BY <2>2, SumOfNone
  <2>. QED
    BY <2>1, <2>3, <2>4 DEF costs
<1>5. NodeCost(freqs, root) \in Nat
  BY <1>2, NodeFacts
<1>. QED
  BY <1>1, <1>3, <1>4, <1>5

\* The lengths a code is compared with are depths that have room.
LEMMA KraftHasRoom ==
  ASSUME NEW limit \in Nat, NEW S \in SUBSET Byte, NEW length \in KraftLengths(limit)[S]
  PROVE  length \in Depths(S, limit) /\ HasRoom(length, S, limit)
<1>1. length \in {l \in [S -> 1 .. limit] :
                    SumFunction([v \in S |-> Power(2)[limit - l[v]]]) <= Power(2)[limit]}
  BY DEF KraftLengths
<1>2. length \in [S -> 1 .. limit] /\ SumFunction(Shares(length, S, limit)) <= Power(2)[limit]
  BY <1>1 DEF Shares
<1>3. SumFunction(Shares(length, S, limit)) = SumFunctionOnSet(Shares(length, S, limit), S)
  <2>1. DOMAIN Shares(length, S, limit) = S
    BY DEF Shares
  <2>. QED
    BY <2>1 DEF SumFunction
<1>4. length \in Depths(S, limit)
  BY <1>2 DEF Depths
<1>. QED
  BY <1>2, <1>3, <1>4 DEF HasRoom
\* A cost is a number.
LEMMA CostIsNat ==
  ASSUME weights \in Frequencies, NEW limit \in Nat, NEW length \in KraftLengths(limit)[Symbols]
  PROVE  Weighed(weights, length, Symbols) \in Nat
<1>1. PICK S \in SUBSET Byte : S = Symbols /\ S = Occurring(weights)
  BY DEF Symbols, Occurring
<1>2. IsFiniteSet(S) /\ AreNumbers(weights, S)
  BY <1>1, HeapOfLeaves
<1>3. length \in Depths(S, limit)
  BY <1>1, KraftHasRoom
<1>4. AreNumbers(Products(weights, length, S), S)
  BY <1>2, <1>3, DepthFacts
<1>. QED
  BY <1>1, <1>2, <1>4, SumIsNat DEF Weighed

LEMMA CostIsWeighed ==
  ASSUME NEW length
  PROVE  Cost(length) = Weighed(weights, length, Symbols)
<1>1. Cost(length) = SumFunction(Products(weights, length, Symbols))
  BY DEF Cost, Products
<1>2. DOMAIN Products(weights, length, Symbols) = Symbols
  BY DEF Products
<1>. QED
  BY <1>1, <1>2 DEF SumFunction, Weighed
-----------------------------------------------------------------------------
(***************************************************************************)
(* No code is shorter.                                                     *)
(***************************************************************************)
\* While no sum has wrapped: whatever a code costs is still affordable.
CheapInv(limit) ==
  /\ BuildInv /\ IsFiniteSet(subtrees)
  /\ Total(Byte) < SizeMod =>
       /\ AddsUp(weights, subtrees)
       /\ \A length \in KraftLengths(limit)[Symbols] :
            Affordable(weights, subtrees, limit, Weighed(weights, length, Symbols))

LEMMA CheapInit ==
  ASSUME NEW limit \in Nat, BuildInit
  PROVE  CheapInv(limit)
<1>1. weights \in Frequencies /\ subtrees = MakeHeap(weights)
  BY TablesAssumption DEF BuildInit
<1>2. BuildInv /\ IsFiniteSet(subtrees)
  BY <1>1, BuildStarts, MakeHeapForest
<1>3. PICK S \in SUBSET Byte : S = Symbols /\ S = Occurring(weights)
  BY DEF Symbols, Occurring
<1>4. ASSUME NEW length \in KraftLengths(limit)[S]
      PROVE  Affordable(weights, subtrees, limit, Weighed(weights, length, S))
  <2>1. length \in Depths(S, limit) /\ HasRoom(length, S, limit)
    BY KraftHasRoom
  <2>. QED
    BY <1>1, <1>3, <2>1, LeavesAffordable
<1>5. AddsUp(weights, subtrees)
  BY <1>1, LeavesAddUp
<1>. QED
  BY <1>2, <1>3, <1>4, <1>5 DEF CheapInv

LEMMA CheapStep ==
  ASSUME NEW limit \in Nat, CheapInv(limit), BuildNext
  PROVE  CheapInv(limit)'
<1>1. /\ subtrees' \in MergeRound(subtrees) /\ weights' = weights
      /\ BuildInv /\ BuildInv' /\ Symbols' = Symbols
  BY MergeBuilds DEF BuildNext, Merge, CheapInv, Symbols
<1>2. weights \in Frequencies /\ Forest(subtrees) /\ IsFiniteSet(subtrees)
  BY <1>1, BuildInvIsForest, TablesAssumption DEF CheapInv
<1>3. IsFiniteSet(subtrees')
  BY <1>1, <1>2, MergeRoundForest
<1>4. ASSUME Total(Byte)' < SizeMod
      PROVE  /\ AddsUp(weights, subtrees)'
             /\ \A length \in KraftLengths(limit)[Symbols] :
                  Affordable(weights, subtrees', limit, Weighed(weights, length, Symbols))
  <2>1. SumFunctionOnSet(weights, Byte) < SizeMod
    BY <1>1, <1>4 DEF Total
  <2>2. /\ AddsUp(weights, subtrees)
        /\ \A length \in KraftLengths(limit)[Symbols] :
             Affordable(weights, subtrees, limit, Weighed(weights, length, Symbols))
    BY <2>1 DEF CheapInv, Total
  <2>3. /\ AddsUp(weights, subtrees')
        /\ \A n \in Nat :
             Affordable(weights, subtrees, limit, n) => Affordable(weights, subtrees', limit, n)
    BY <1>1, <1>2, <2>1, <2>2, RoundAffordable
  <2>4. ASSUME NEW length \in KraftLengths(limit)[Symbols] PROVE Weighed(weights, length, Symbols) \in Nat
    BY <1>2, CostIsNat
  <2>. QED
    BY <1>1, <2>2, <2>3, <2>4 DEF AddsUp
<1>. QED
  BY <1>1, <1>3, <1>4 DEF CheapInv

LEMMA CheapStays ==
  ASSUME NEW limit \in Nat, CheapInv(limit), UNCHANGED buildVars
  PROVE  CheapInv(limit)'
<1>1. weights' = weights /\ subtrees' = subtrees
  BY DEF buildVars
<1>. QED
  BY <1>1 DEF CheapInv, BuildInv, BuildTypeOK, LeavesPartition, PrefixFree, NoMissingChild, Symbols,
              Total, AddsUp

\* In the end the heap holds the tree, and hanging it at depth 0 costs its codes.
LEMMA CheapIsOptimal ==
  ASSUME NEW limit \in Nat, CheapInv(limit)
  PROVE  Optimal(KraftLengths(limit))
<1>. SUFFICES ASSUME IsTree(subtrees), Total(Byte) < SizeMod,
                     NEW length \in KraftLengths(limit)[Symbols]
              PROVE  Cost([v \in Symbols |-> Len(Root(subtrees).codes[v])]) <= Cost(length)
  BY DEF Optimal
<1>1. /\ weights \in Frequencies /\ Forest(subtrees) /\ Leaves(subtrees) = Symbols
      /\ IsFiniteSet(subtrees)
  BY BuildInvIsForest, TablesAssumption DEF CheapInv
<1>2. PICK root : subtrees = {root}
  BY <1>1, FS_Singleton DEF IsTree
<1>3. Root(subtrees) = root /\ root \in subtrees
  BY <1>2 DEF Root
<1>4. Values(root) = Symbols
  BY <1>1, <1>2 DEF Leaves
<1>5. Affordable(weights, subtrees, limit, Weighed(weights, length, Symbols))
  BY DEF CheapInv
<1>6. Weighed(weights, length, Symbols) \in Nat
  BY <1>1, CostIsNat
<1>7. NodeCost(weights, root) <= Weighed(weights, length, Symbols)
  BY <1>1, <1>2, <1>3, <1>5, <1>6, RootCost
<1>8. Cost([v \in Symbols |-> Len(Root(subtrees).codes[v])]) = NodeCost(weights, root)
  <2>1. LeafDepths(root) = [v \in Symbols |-> Len(Root(subtrees).codes[v])]
    BY <1>3, <1>4 DEF LeafDepths
  <2>2. NodeCost(weights, root) = Weighed(weights, LeafDepths(root), Symbols)
    BY <1>4 DEF NodeCost
  <2>. QED
    BY <2>1, <2>2, CostIsWeighed
<1>9. Cost(length) = Weighed(weights, length, Symbols)
  BY CostIsWeighed
<1>. QED
  BY <1>7, <1>8, <1>9

\* Codes of any length are not shorter either, whatever limit is put on them.
THEOREM OptimalForAnyLimit ==
  ASSUME NEW limit \in Nat
  PROVE  BuildSpec => []Optimal(KraftLengths(limit))
<1>1. BuildInit => CheapInv(limit)
  BY CheapInit
<1>2. CheapInv(limit) /\ [BuildNext]_buildVars => CheapInv(limit)'
  BY CheapStep, CheapStays
<1>3. CheapInv(limit) => Optimal(KraftLengths(limit))
  BY CheapIsOptimal
<1>. QED
  BY <1>1, <1>2, <1>3, PTL DEF BuildSpec

\* No prefix code for the frequencies of a table whose sum does not wrap costs
\* fewer bits than the one the loop ends with (huffman.cpp:92-123).
THEOREM CodeIsOptimalHolds == BuildSpec => []CodeIsOptimal
<1>0. MaxByte \in Nat
  BY ByteStreamAssumption
<1>1. BuildInit => CheapInv(MaxByte)
  BY <1>0, CheapInit
<1>2. CheapInv(MaxByte) /\ [BuildNext]_buildVars => CheapInv(MaxByte)'
  BY <1>0, CheapStep, CheapStays
<1>3. CheapInv(MaxByte) => CodeIsOptimal
  BY <1>0, CheapIsOptimal DEF CodeIsOptimal, LengthsToCompare
<1>. QED
  BY <1>1, <1>2, <1>3, PTL DEF BuildSpec

-----------------------------------------------------------------------------
(***************************************************************************)
(* The inductive invariant of an archive's life.                           *)
(***************************************************************************)
\* While the encoder builds and uses its tree, the leaves are the values that
\* occur in the input.
EncoderInv ==
  /\ CompressTypeOK
  /\ compressed \in {"building", "encoding"} =>
       /\ IsFiniteSet(nodes) /\ Forest(nodes)
       /\ Leaves(nodes) = Occurring(Count(input))
  /\ compressed = "encoding" => IsTree(nodes)

\* Nothing has been read, decoded or written before its stage.
StartInv ==
  /\ stage \in {"idle", "counting"} => at = 0 /\ entriesRead = 0
  /\ stage \in {"idle", "counting", "reading", "building"} => decoded = 0 /\ out = <<>>
  /\ stage \notin {"decoding", "rejected"} => outBuf = <<>>
  /\ stage \notin {"decoding", "accepted", "rejected"} => path = <<>>

\* The decoder has a forest, then a tree in which its path leads to a node.
TreeInv ==
  /\ Forest(heap)
  /\ stage = "decoding" => heap # {}
  /\ CurrentIsNode

\* Every byte decoded is in the buffer or in the sink.
CountInv ==
  /\ WithinDeclaredSize
  /\ stage \in {"filling", "decoding"} => Len(out) + Len(outBuf) = decoded

DecoderInv == DecompressTypeOK /\ StartInv /\ TreeInv /\ CountInv

IInv ==
  /\ EncoderInv
  /\ DecoderInv
  /\ damage \in {"none", "truncated", "extended", "resized", "table altered",
                 "bits altered"}

-----------------------------------------------------------------------------
(***************************************************************************)
(* Lemmas about trees, codes and bytes.                                    *)
(***************************************************************************)
\* A path that leads to an inner node can be continued by either bit.
LEMMA PathGoesOn ==
  ASSUME NEW node, NodeTypeOK(node), CodesComplete(node),
         NEW p \in Seq(Bit), NEW v \in Values(node), IsPrefix(p, node.codes[v]),
         \A w \in Values(node) : node.codes[w] # p,
         NEW bit \in Bit
  PROVE  \E w \in Values(node) : IsPrefix(Append(p, bit), node.codes[w])
<1>. DEFINE n == Len(p)
            c == node.codes[v]
            q == Append(p, bit)
<1>1. n \in Nat /\ c \in Seq(Bit) /\ Len(c) \in Nat /\ c # p
  BY LenProperties DEF NodeTypeOK
<1>2. n <= Len(c) /\ \A i \in 1 .. n : p[i] = c[i]
  BY <1>1, PrefixByElement
<1>3. n < Len(c)
  <2>. SUFFICES ASSUME n = Len(c) PROVE FALSE
    BY <1>1, <1>2
  <2>. HIDE DEF c
  <2>. QED
    BY <1>1, <1>2, SeqEqual
<1>4. /\ q \in Seq(Bit) /\ Len(q) = n + 1 /\ q[n + 1] = bit
      /\ \A i \in 1 .. n : q[i] = p[i]
  BY AppendProperties
<1>5. Branches(node, v, n + 1)
  BY <1>1, <1>3 DEF CodesComplete
<1>6. ASSUME NEW w \in Values(node), Len(node.codes[w]) >= n + 1,
             \A i \in 1 .. n : node.codes[w][i] = c[i], node.codes[w][n + 1] = bit
      PROVE  IsPrefix(q, node.codes[w])
  <2>1. node.codes[w] \in Seq(Bit) /\ Len(node.codes[w]) \in Nat
    BY LenProperties DEF NodeTypeOK
  <2>2. \A i \in 1 .. n + 1 : i = n + 1 \/ i \in 1 .. n
    BY <1>1
  <2>3. \A i \in 1 .. n + 1 : q[i] = node.codes[w][i]
    <3>. HIDE DEF q, c, n
    <3>. QED
      BY <1>2, <1>4, <1>6, <2>2
  <2>. HIDE DEF q, n
  <2>. QED
    BY <1>1, <1>4, <1>6, <2>1, <2>3, PrefixByElement
<1>7. CASE c[n + 1] = bit
  BY <1>1, <1>3, <1>6, <1>7
<1>8. CASE c[n + 1] # bit
  <2>1. PICK w \in Values(node) :
          /\ Len(node.codes[w]) >= n + 1
          /\ \A k \in 1 .. (n + 1) - 1 : node.codes[w][k] = c[k]
          /\ node.codes[w][n + 1] # c[n + 1]
    BY <1>5 DEF Branches
  <2>2. node.codes[w] \in Seq(Bit) /\ Len(node.codes[w]) \in Nat
    BY LenProperties DEF NodeTypeOK
  <2>3. node.codes[w][n + 1] \in Bit /\ c[n + 1] \in Bit
    <3>1. n + 1 \in 1 .. Len(c) /\ n + 1 \in 1 .. Len(node.codes[w])
      BY <1>1, <1>3, <2>1, <2>2
    <3>. HIDE DEF c
    <3>. QED
      BY <1>1, <2>2, <3>1, ElementOfSeq
  <2>4. node.codes[w][n + 1] = bit
    BY <1>8, <2>1, <2>3 DEF Bit
  <2>5. (n + 1) - 1 = n
    BY <1>1
  <2>. QED
    BY <1>6, <2>1, <2>4, <2>5
<1>. QED
  BY <1>7, <1>8

\* The node a non-empty heap ends in.
LEMMA RootIsTree ==
  ASSUME NEW trees, Forest(trees), trees # {}
  PROVE  /\ NodeTypeOK(Root(trees)) /\ CodesComplete(Root(trees))
         /\ DOMAIN Root(trees).codes = Values(Root(trees))
         /\ Root(trees) \in trees
BY DEF Root, Forest, Values

LEMMA EmptyPath ==
  ASSUME NEW node, NodeTypeOK(node)
  PROVE  \E v \in Values(node) : IsPrefix(<<>>, node.codes[v])
<1>1. PICK v \in Values(node) : TRUE
  BY DEF NodeTypeOK
<1>2. node.codes[v] \in Seq(Bit) /\ Len(node.codes[v]) \in Nat
  BY LenProperties DEF NodeTypeOK
<1>3. <<>> \in Seq(Bit) /\ Len(<<>>) = 0 /\ 1 .. 0 = {}
  BY EmptySeq
<1>. DEFINE empty == <<>>
            c == node.codes[v]
<1>4. empty \in Seq(Bit) /\ Len(empty) = 0 /\ 1 .. Len(empty) = {}
  BY <1>3
<1>. HIDE DEF empty, c
<1>5. Len(empty) <= Len(c) /\ \A i \in 1 .. Len(empty) : empty[i] = c[i]
  BY <1>2, <1>4 DEF c
<1>6. IsPrefix(empty, c)
  BY <1>2, <1>4, <1>5, PrefixByElement DEF c
<1>. QED
  BY <1>6 DEF empty, c

\* The front of a sequence.
LEMMA FrontBytes ==
  ASSUME NEW s \in Seq(Byte), NEW k \in 0 .. Len(s)
  PROVE  SubSeq(s, 1, k) \in Seq(Byte) /\ Len(SubSeq(s, 1, k)) = k
<1>1. Len(s) \in Nat
  BY LenProperties
<1>2. \A i \in 1 .. k : s[i] \in Byte
  BY <1>1, ElementOfSeq
<1>3. k \in Int /\ 1 \in Int
  BY <1>1
<1>4. /\ SubSeq(s, 1, k) \in Seq(Byte)
      /\ Len(SubSeq(s, 1, k)) = IF 1 <= k THEN k - 1 + 1 ELSE 0
  BY <1>2, <1>3, SubSeqProperties
<1>. QED
  BY <1>1, <1>4

LEMMA Concatenated ==
  ASSUME NEW s \in Seq(Byte), NEW t \in Seq(Byte)
  PROVE  /\ s \o t \in Seq(Byte) /\ Len(s \o t) = Len(s) + Len(t)
         /\ Len(s) \in Nat /\ Len(t) \in Nat
BY ConcatProperties, LenProperties

-----------------------------------------------------------------------------
(***************************************************************************)
(* The encoder.                                                            *)
(***************************************************************************)
\* What counting the input's bytes gives: a table that says how often each value
\* occurs in the input.
LEMMA CountFacts ==
  ASSUME input \in Inputs
  PROVE  /\ Count(input) \in Frequencies
         /\ \A i \in 1 .. Len(input) : input[i] \in Occurring(Count(input))
         /\ \A v \in Byte : Count(input)[v] = Cardinality({i \in 1 .. Len(input) : input[i] = v})
<1>. DEFINE places(v) == {i \in DOMAIN input : input[i] = v}
<1>1. /\ input \in Seq(Byte) /\ Len(input) < SizeMod /\ DOMAIN input = 1 .. Len(input)
      /\ Len(input) \in Nat /\ SizeMod \in Nat \ {0}
  BY InputsAssumption, ByteStreamAssumption, LenProperties
<1>2. IsFiniteSet(1 .. Len(input)) /\ Cardinality(1 .. Len(input)) = Len(input)
  <2>. DEFINE n == Len(input)
  <2>1. n \in Nat /\ n \in Int /\ 1 \in Int
    BY <1>1
  <2>. HIDE DEF n
  <2>2. IsFiniteSet(1 .. n) /\ Cardinality(1 .. n) = IF 1 > n THEN 0 ELSE n - 1 + 1
    BY <2>1, FS_Interval
  <2>3. Cardinality(1 .. n) = n
    BY <2>1, <2>2
  <2>. QED
    BY <2>2, <2>3 DEF n
<1>3. ASSUME NEW v
      PROVE  /\ IsFiniteSet(places(v)) /\ Cardinality(places(v)) \in 0 .. Len(input)
             /\ places(v) # {} => Cardinality(places(v)) # 0
  <2>1. places(v) \in SUBSET (1 .. Len(input))
    BY <1>1
  <2>. HIDE DEF places
  <2>2. IsFiniteSet(places(v)) /\ Cardinality(places(v)) <= Len(input)
    BY <1>2, <2>1, FS_Subset
  <2>3. Cardinality(places(v)) \in Nat
    BY <2>2, FS_CardinalityType
  <2>. QED
    BY <1>1, <2>2, <2>3, FS_EmptySet
<1>4. Count(input) = [v \in Byte |-> Cardinality(places(v)) % SizeMod]
  BY DEF Count
<1>. HIDE DEF places
<1>5. ASSUME NEW v \in Byte
      PROVE  Cardinality(places(v)) % SizeMod = Cardinality(places(v)) /\ Cardinality(places(v)) \in Size
  <2>1. Cardinality(places(v)) \in 0 .. SizeMod - 1
    BY <1>1, <1>3
  <2>. QED
    BY <1>1, <2>1 DEF Size
<1>6. Count(input) \in Frequencies
  BY <1>4, <1>5 DEF Frequencies
<1>7. ASSUME NEW i \in 1 .. Len(input) PROVE input[i] \in Occurring(Count(input))
  <2>1. input[i] \in Byte
    BY <1>1, ElementOfSeq
  <2>2. places(input[i]) # {}
    BY <1>1 DEF places
  <2>3. Count(input)[input[i]] > 0
    BY <1>1, <1>3, <1>4, <1>5, <2>1, <2>2
  <2>. QED
    BY <2>1, <2>3 DEF Occurring
<1>8. ASSUME NEW v \in Byte
      PROVE  Count(input)[v] = Cardinality({i \in 1 .. Len(input) : input[i] = v})
  <2>1. Count(input)[v] = Cardinality(places(v))
    BY <1>4, <1>5
  <2>. QED
    BY <1>1, <2>1 DEF places
<1>. QED
  BY <1>6, <1>7, <1>8

LEMMA EncoderInit == CompressInit => EncoderInv
<1>. SUFFICES ASSUME CompressInit PROVE EncoderInv
  OBVIOUS
<1>1. input \in Inputs /\ Len(input) \in Nat
  BY InputsAssumption, LenProperties DEF CompressInit
<1>2. frequencies \in Frequencies
  BY ByteStreamAssumption DEF CompressInit, Frequencies, Size
<1>3. writerByte \in Byte /\ writerCount \in 0 .. BitsPerByte - 1
  BY HuffmanAssumption, ByteStreamAssumption DEF CompressInit, Byte
<1>4. code \in Seq(Bit) /\ payload \in Seq(Byte)
  BY EmptySeq DEF CompressInit
<1>5. CompressTypeOK
  BY <1>1, <1>2, <1>3, <1>4 DEF CompressInit, CompressTypeOK
<1>. QED
  BY <1>5 DEF EncoderInv, CompressInit

\* The first pass over the input.
LEMMA EncoderCounts ==
  ASSUME EncoderInv, CountAndWriteTable
  PROVE  EncoderInv'
<1>1. /\ input \in Inputs /\ input' = input /\ frequencies' = Count(input)
      /\ frequencies' \in Frequencies
  BY CountFacts DEF EncoderInv, CompressTypeOK, CountAndWriteTable
<1>2. /\ Forest(MakeHeap(frequencies')) /\ IsFiniteSet(MakeHeap(frequencies'))
      /\ Leaves(MakeHeap(frequencies')) = Occurring(Count(input))
  BY <1>1, MakeHeapForest DEF Occurring
<1>3. payload' \in Seq(Byte) /\ outGood' \in BOOLEAN
  <2>1. TableBytes(frequencies') \in Seq(Byte)
    BY <1>1, TableIsReadBack
  <2>2. \A k \in 0 .. Len(TableBytes(frequencies')) - 1 :
          SubSeq(TableBytes(frequencies'), 1, k) \in Seq(Byte)
    <3> TAKE k \in 0 .. Len(TableBytes(frequencies')) - 1
    <3>1. k \in 0 .. Len(TableBytes(frequencies'))
      BY <2>1, LenProperties
    <3> QED
      BY <2>1, <3>1, FrontBytes
  <2>. QED
    BY <2>1, <2>2 DEF CountAndWriteTable, PutTable
<1>4. CASE compressed' \in {"ok", "failed"} /\ nodes' = nodes
  BY <1>1, <1>3, <1>4 DEF EncoderInv, CompressTypeOK, CountAndWriteTable
<1>5. CASE compressed' = "building" /\ nodes' = MakeHeap(frequencies')
  <2>1. \A node \in nodes' : NodeTypeOK(node)
    BY <1>2, <1>5 DEF Forest
  <2>2. CompressTypeOK'
    BY <1>1, <1>3, <1>5, <2>1 DEF EncoderInv, CompressTypeOK, CountAndWriteTable
  <2>. QED
    BY <1>1, <1>2, <1>5, <2>2 DEF EncoderInv
<1>. QED
  BY <1>4, <1>5 DEF CountAndWriteTable

LEMMA EncoderMerges ==
  ASSUME EncoderInv, MergeNodes
  PROVE  EncoderInv'
<1>1. /\ compressed' = "building" /\ input' = input /\ nodes' \in MergeRound(nodes)
      /\ Forest(nodes) /\ IsFiniteSet(nodes) /\ Leaves(nodes) = Occurring(Count(input))
  BY DEF EncoderInv, MergeNodes
<1>2. Forest(nodes') /\ IsFiniteSet(nodes') /\ Leaves(nodes') = Occurring(Count(input))
  BY <1>1, MergeRoundForest
<1>3. \A node \in nodes' : NodeTypeOK(node)
  BY <1>2 DEF Forest
<1>4. CompressTypeOK'
  BY <1>3 DEF EncoderInv, CompressTypeOK, MergeNodes, writerVars
<1>. QED
  BY <1>1, <1>2, <1>4 DEF EncoderInv

LEMMA EncoderRewinds ==
  ASSUME EncoderInv, Rewind
  PROVE  EncoderInv'
BY DEF EncoderInv, CompressTypeOK, Rewind, writerVars

\* Every byte of the input has a code.
LEMMA EncoderTakes ==
  ASSUME EncoderInv, TakeByte
  PROVE  EncoderInv'
<1>. DEFINE v == input[pos + 1]
<1>1. /\ compressed = "encoding" /\ input \in Inputs /\ pos \in 0 .. Len(input)
      /\ pos < Len(input) /\ pos' = pos + 1 /\ code' = Root(nodes).codes[v]
      /\ Forest(nodes) /\ IsFiniteSet(nodes) /\ Cardinality(nodes) = 1
      /\ Leaves(nodes) = Occurring(Count(input)) /\ Len(input) \in Nat
  BY InputsAssumption, LenProperties DEF EncoderInv, CompressTypeOK, TakeByte, IsTree
<1>2. v \in Leaves(nodes)
  BY <1>1, CountFacts
<1>3. PICK node : nodes = {node}
  BY <1>1, FS_Singleton
<1>4. Root(nodes) = node /\ v \in Values(node) /\ NodeTypeOK(node)
  BY <1>1, <1>2, <1>3 DEF Root, Leaves, Forest
<1>5. code' \in Seq(Bit)
  BY <1>1, <1>4 DEF NodeTypeOK
<1>6. pos' \in 0 .. Len(input)
  BY <1>1
<1>. QED
  BY <1>5, <1>6 DEF EncoderInv, CompressTypeOK, TakeByte

\* A byte of what is put together from bits.
LEMMA PutByte ==
  ASSUME NEW byte \in Byte, payload \in Seq(Byte), outGood \in BOOLEAN, Put(byte)
  PROVE  payload' \in Seq(Byte) /\ outGood' \in BOOLEAN
<1>1. CASE outGood /\ payload' = Append(payload, byte) /\ UNCHANGED outGood
  <2>1. payload' \in Seq(Byte)
    BY <1>1, AppendProperties
  <2>2. outGood' \in BOOLEAN
    BY <1>1
  <2>. QED
    BY <2>1, <2>2
<1>2. CASE outGood' = FALSE /\ UNCHANGED payload
  BY <1>2
<1>. QED
  BY <1>1, <1>2 DEF Put

LEMMA RemainderIsByte ==
  ASSUME NEW x \in Int
  PROVE  x % (MaxByte + 1) \in Byte
BY ByteStreamAssumption DEF Byte

LEMMA ShiftedIsByte ==
  ASSUME EncoderInv, WriteBit
  PROVE  Shifted(Head(code)) \in Byte
<1>1. Head(code) \in Bit
  BY HeadTailProperties DEF EncoderInv, CompressTypeOK, WriteBit
<1>2. 2 * writerByte + Head(code) \in Int
  BY <1>1, ByteStreamAssumption DEF EncoderInv, CompressTypeOK, Byte, Bit
<1>. QED
  BY <1>2, RemainderIsByte DEF Shifted

LEMMA EncoderWrites ==
  ASSUME EncoderInv, WriteBit
  PROVE  EncoderInv'
<1>1. Head(code) \in Bit /\ Tail(code) \in Seq(Bit)
  BY HeadTailProperties DEF EncoderInv, CompressTypeOK, WriteBit
<1>2. Shifted(Head(code)) \in Byte
  BY ShiftedIsByte
<1>3. payload' \in Seq(Byte) /\ outGood' \in BOOLEAN
  BY <1>2, PutByte DEF EncoderInv, CompressTypeOK, WriteBit
<1>4. writerByte' \in Byte /\ writerCount' \in 0 .. BitsPerByte - 1
  BY <1>2, HuffmanAssumption, ByteStreamAssumption DEF EncoderInv, CompressTypeOK, WriteBit, Byte
<1>. QED
  BY <1>1, <1>3, <1>4 DEF EncoderInv, CompressTypeOK, WriteBit

LEMMA LastIsByte ==
  ASSUME EncoderInv
  PROVE  LastByte \in Byte
<1>. DEFINE power == Power(2)[BitsPerByte - writerCount]
<1>1. writerByte \in Byte /\ writerCount \in 0 .. BitsPerByte - 1 /\ BitsPerByte \in Nat
  BY HuffmanAssumption DEF EncoderInv, CompressTypeOK
<1>2. power \in Nat
  <2>1. BitsPerByte - writerCount \in 0 .. BitsPerByte
    BY <1>1
  <2>. QED
    BY <2>1, BitPowers
<1>. HIDE DEF power
<1>3. writerByte * power \in Int
  BY <1>1, <1>2 DEF Byte
<1>4. (writerByte * power) % (MaxByte + 1) \in Byte
  BY <1>3, RemainderIsByte
<1>. QED
  BY <1>4 DEF LastByte, power

LEMMA EncoderFlushes ==
  ASSUME EncoderInv, FlushBits
  PROVE  EncoderInv'
<1>1. writerByte \in Byte /\ writerCount \in 0 .. BitsPerByte - 1 /\ BitsPerByte \in Nat
  BY HuffmanAssumption DEF EncoderInv, CompressTypeOK
<1>2. LastByte \in Byte
  BY LastIsByte
<1>3. payload' \in Seq(Byte) /\ outGood' \in BOOLEAN
  BY <1>2, PutByte DEF EncoderInv, CompressTypeOK, FlushBits
<1>4. writerByte' \in Byte /\ writerCount' \in 0 .. BitsPerByte - 1
  BY <1>1, ByteStreamAssumption DEF FlushBits, Byte
<1>. QED
  BY <1>3, <1>4 DEF EncoderInv, CompressTypeOK, FlushBits

LEMMA EncoderStep == EncoderInv /\ CompressNext => EncoderInv'
BY EncoderCounts, EncoderMerges, EncoderRewinds, EncoderTakes, EncoderWrites, EncoderFlushes
   DEF CompressNext

LEMMA EncoderStays == EncoderInv /\ UNCHANGED compressVars => EncoderInv'
BY DEF EncoderInv, CompressTypeOK, compressVars, writerVars

-----------------------------------------------------------------------------
(***************************************************************************)
(* The decoder reads the table.                                            *)
(***************************************************************************)
LEMMA DecoderInit == DecompressInit => DecoderInv
<1>. SUFFICES ASSUME DecompressInit PROVE DecoderInv
  OBVIOUS
<1>1. stream \in Seq(Byte) /\ Len(stream) = 0 /\ outBuf \in Seq(Byte) /\ Len(outBuf) = 0
      /\ out \in Seq(Byte) /\ Len(out) = 0 /\ path \in Seq(Bit)
  BY EmptySeq DEF DecompressInit
<1>2. table \in Frequencies
  BY ByteStreamAssumption DEF DecompressInit, Frequencies, Size
<1>3. DecompressTypeOK
  BY <1>1, <1>2, ByteStreamAssumption, HuffmanAssumption
     DEF DecompressInit, DecompressTypeOK, Byte, Size
<1>4. StartInv /\ TreeInv
  BY DEF DecompressInit, StartInv, TreeInv, Forest, CurrentIsNode
<1>5. CountInv
  BY <1>1, ByteStreamAssumption DEF DecompressInit, CountInv, WithinDeclaredSize
<1>. QED
  BY <1>3, <1>4, <1>5 DEF DecoderInv

\* The steps that only leave the stage they are in, for one in which nothing is
\* claimed of the tree and the counts.
LEMMA DecoderRejects ==
  ASSUME DecoderInv, stage' = "rejected",
         UNCHANGED <<stream, expected, at, tableVars, treeVars, sinkVars>>
  PROVE  DecoderInv'
<1>1. DecompressTypeOK'
  BY DEF DecoderInv, DecompressTypeOK, tableVars, treeVars, sinkVars
<1>2. StartInv' /\ TreeInv'
  BY DEF DecoderInv, StartInv, TreeInv, CurrentIsNode, tableVars, treeVars, sinkVars
<1>3. CountInv'
  BY DEF DecoderInv, CountInv, WithinDeclaredSize, sinkVars
<1>. QED
  BY <1>1, <1>2, <1>3 DEF DecoderInv

\* Any stream, any size.
LEMMA DecoderStarts ==
  ASSUME DecoderInv, NEW s \in Seq(Byte), NEW size \in Size, StartDecompress(s, size)
  PROVE  DecoderInv'
<1>1. Len(s) \in Nat /\ size \in Nat
  BY LenProperties, ByteStreamAssumption DEF Size
<1>2. DecompressTypeOK'
  BY <1>1 DEF DecoderInv, StartInv, DecompressTypeOK, StartDecompress, tableVars, treeVars, sinkVars
<1>3. StartInv' /\ TreeInv'
  BY DEF DecoderInv, StartInv, TreeInv, CurrentIsNode, StartDecompress, tableVars, treeVars, sinkVars
<1>4. CountInv'
  <2>1. outBuf' = <<>> /\ out' = <<>> /\ stage' = "counting" /\ expected' = size
    BY DEF DecoderInv, StartInv, StartDecompress, sinkVars
  <2>2. Len(<<>>) = 0
    BY EmptySeq
  <2>. QED
    BY <1>1, <2>1, <2>2, ByteStreamAssumption DEF CountInv, WithinDeclaredSize
<1>. QED
  BY <1>2, <1>3, <1>4 DEF DecoderInv

LEMMA DecoderEmpty ==
  ASSUME DecoderInv, DecodeEmpty
  PROVE  DecoderInv'
<1>1. CASE stage' = "rejected"
  BY <1>1, DecoderRejects DEF DecodeEmpty
<1>2. CASE stage' = "accepted"
  <2>1. DecompressTypeOK'
    BY <1>2 DEF DecoderInv, DecompressTypeOK, DecodeEmpty, tableVars, treeVars, sinkVars
  <2>2. StartInv' /\ TreeInv'
    BY <1>2 DEF DecoderInv, StartInv, TreeInv, CurrentIsNode, DecodeEmpty, tableVars, treeVars, sinkVars
  <2>3. outBuf' = <<>> /\ out' = <<>> /\ expected' = 0
    BY DEF DecoderInv, StartInv, DecodeEmpty, sinkVars
  <2>4. Len(<<>>) = 0
    BY EmptySeq
  <2>5. CountInv'
    BY <1>2, <2>3, <2>4, ByteStreamAssumption DEF CountInv, WithinDeclaredSize
  <2>. QED
    BY <2>1, <2>2, <2>5 DEF DecoderInv
<1>. QED
  BY <1>1, <1>2 DEF DecodeEmpty

\* While the table is read nothing is written.
LEMMA NothingWritten ==
  ASSUME DecoderInv, stage \in {"counting", "reading"}, stage' \in {"reading", "building"},
         UNCHANGED <<expected, decoded, outBuf, out>>
  PROVE  CountInv'
<1>1. out' = <<>> /\ outBuf' = <<>> /\ expected' \in Nat
  BY ByteStreamAssumption DEF DecoderInv, DecompressTypeOK, StartInv, Size
<1>2. Len(<<>>) = 0
  BY EmptySeq
<1>. QED
  BY <1>1, <1>2, ByteStreamAssumption DEF CountInv, WithinDeclaredSize

LEMMA DecoderReadsCount ==
  ASSUME DecoderInv, ReadCount
  PROVE  DecoderInv'
<1>1. /\ uniqueCount' \in 0 .. MaxByte + 1 /\ at' \in 0 .. Len(stream)
      /\ entriesRead' = 0
  <2>1. Len(stream) \in Nat /\ CountBytes \in Nat
    BY LenProperties, HuffmanAssumption DEF DecoderInv, DecompressTypeOK
  <2>. QED
    BY <2>1, ByteStreamAssumption
       DEF DecoderInv, DecompressTypeOK, StartInv, ReadCount, CountIsValid, Truncated
<1>2. DecompressTypeOK'
  BY <1>1, ByteStreamAssumption
     DEF DecoderInv, DecompressTypeOK, ReadCount, treeVars, sinkVars
<1>3. StartInv' /\ TreeInv'
  BY DEF DecoderInv, StartInv, TreeInv, CurrentIsNode, ReadCount, treeVars, sinkVars
<1>4. CountInv'
  BY NothingWritten DEF ReadCount, sinkVars
<1>. QED
  BY <1>2, <1>3, <1>4 DEF DecoderInv

\* An entry's frequency is a size.
LEMMA DecoderReadsEntry ==
  ASSUME DecoderInv, ReadEntry
  PROVE  DecoderInv'
<1>. DEFINE n == 1 + FrequencyBytes
            bytes == Tail(NextBytes(n))
            frequency == FromBytes(bytes)
<1>1. /\ stream \in Seq(Byte) /\ Len(stream) \in Nat /\ at \in 0 .. Len(stream)
      /\ FrequencyBytes \in Nat /\ at + n <= Len(stream)
  BY LenProperties, HuffmanAssumption
     DEF DecoderInv, DecompressTypeOK, ReadEntry, Truncated
<1>2. frequency \in Size
  <2>1. \A i \in at + 1 .. at + n : stream[i] \in Byte
    BY <1>1, ElementOfSeq
  <2>2. at + 1 \in Int /\ at + n \in Int /\ at + 1 <= at + n /\ (at + n) - (at + 1) + 1 = n
    BY <1>1
  <2>3. NextBytes(n) \in Seq(Byte) /\ Len(NextBytes(n)) = n
    <3>1. /\ SubSeq(stream, at + 1, at + n) \in Seq(Byte)
          /\ Len(SubSeq(stream, at + 1, at + n)) =
               IF at + 1 <= at + n THEN (at + n) - (at + 1) + 1 ELSE 0
      BY <2>1, <2>2, SubSeqProperties
    <3>. QED
      BY <2>2, <3>1 DEF NextBytes
  <2>4. NextBytes(n) # <<>>
    BY <1>1, <2>3, EmptySeq
  <2>5. bytes \in Seq(Byte) /\ Len(bytes) = FrequencyBytes
    BY <1>1, <2>3, <2>4, HeadTailProperties
  <2>. HIDE DEF bytes
  <2>6. bytes \in [1 .. FrequencyBytes -> Byte]
    BY <2>5, LenProperties
  <2>. QED
    BY <2>6, FrequencyFits
<1>3. table' \in Frequencies
  <2>1. table' = [table EXCEPT ![stream[at + 1]] = frequency]
    BY DEF ReadEntry
  <2>. HIDE DEF frequency
  <2>. QED
    BY <1>2, <2>1 DEF DecoderInv, DecompressTypeOK, Frequencies
<1>4. sum' \in Size
  <2>1. sum' = (sum + frequency) % SizeMod
    BY DEF ReadEntry, SumWith
  <2>. HIDE DEF frequency
  <2>2. sum + frequency \in Int
    BY <1>2, ByteStreamAssumption DEF DecoderInv, DecompressTypeOK, Size
  <2>. QED
    BY <2>1, <2>2, ByteStreamAssumption DEF Size
<1>5. at' \in 0 .. Len(stream) /\ entriesRead' \in 0 .. uniqueCount
  BY <1>1, ByteStreamAssumption DEF DecoderInv, DecompressTypeOK, ReadEntry
<1>6. DecompressTypeOK'
  BY <1>3, <1>4, <1>5 DEF DecoderInv, DecompressTypeOK, ReadEntry, treeVars, sinkVars
<1>7. StartInv' /\ TreeInv'
  BY DEF DecoderInv, StartInv, TreeInv, CurrentIsNode, ReadEntry, treeVars, sinkVars
<1>8. CountInv'
  BY NothingWritten DEF ReadEntry, sinkVars
<1>. QED
  BY <1>6, <1>7, <1>8 DEF DecoderInv

LEMMA DecoderChecksSum ==
  ASSUME DecoderInv, CheckSum
  PROVE  DecoderInv'
<1>1. stage' \in {"filling", "building", "rejected"}
  BY DEF CheckSum
<1>2. Forest(heap') /\ \A node \in heap' : NodeTypeOK(node)
  <2>1. Forest(MakeHeap(table))
    BY MakeHeapForest DEF DecoderInv, DecompressTypeOK
  <2>2. heap' = heap \/ heap' = MakeHeap(table)
    BY DEF CheckSum
  <2>3. Forest(heap')
    BY <2>1, <2>2 DEF DecoderInv, TreeInv
  <2>. QED
    BY <2>3 DEF Forest
<1>3. DecompressTypeOK'
  BY <1>1, <1>2 DEF DecoderInv, DecompressTypeOK, CheckSum, tableVars, sinkVars
<1>4. StartInv' /\ TreeInv'
  BY <1>1, <1>2 DEF DecoderInv, StartInv, TreeInv, CurrentIsNode, CheckSum, tableVars, sinkVars
<1>5. CountInv'
  <2>1. out' = <<>> /\ outBuf' = <<>> /\ decoded' = 0 /\ expected' \in Nat
    BY ByteStreamAssumption DEF DecoderInv, DecompressTypeOK, StartInv, CheckSum, sinkVars, Size
  <2>2. Len(<<>>) = 0
    BY EmptySeq
  <2>. QED
    BY <1>1, <2>1, <2>2, ByteStreamAssumption DEF CountInv, WithinDeclaredSize
<1>. QED
  BY <1>3, <1>4, <1>5 DEF DecoderInv

-----------------------------------------------------------------------------
(***************************************************************************)
(* The decoder fills in the only value.                                    *)
(***************************************************************************)
\* Whatever part of the bytes a failing write leaves in the sink.
LEMMA FailedWrite ==
  ASSUME NEW bytes \in Seq(Byte), out \in Seq(Byte), WriteFails(bytes)
  PROVE  /\ out' \in Seq(Byte) /\ Len(out') <= Len(out) + Len(bytes)
         /\ sink' = "failed" /\ stage' = "rejected"
         /\ Len(out) \in Nat /\ Len(bytes) \in Nat /\ Len(out') \in Nat
<1>1. PICK k \in 0 .. Len(bytes) : out' = out \o SubSeq(bytes, 1, k)
  BY DEF WriteFails
<1>2. SubSeq(bytes, 1, k) \in Seq(Byte) /\ Len(SubSeq(bytes, 1, k)) = k
  BY FrontBytes
<1>3. Len(bytes) \in Nat /\ Len(out) \in Nat
  BY LenProperties
<1>4. out' \in Seq(Byte) /\ Len(out') = Len(out) + k
  BY <1>1, <1>2, Concatenated
<1>. QED
  BY <1>3, <1>4 DEF WriteFails

\* A chunk is not longer than what is missing, and not empty.
LEMMA ChunkFacts ==
  ASSUME DecompressTypeOK, decoded < expected
  PROVE  /\ Chunk \in Seq(Byte)
         /\ Len(Chunk) \in 1 .. expected - decoded
<1>. DEFINE sizes == {expected - decoded, BufferSize}
            n == Min(sizes)
<1>1. expected \in Nat /\ decoded \in Nat /\ BufferSize \in Nat \ {0}
  BY ByteStreamAssumption DEF DecompressTypeOK, Size
<1>2. n \in 1 .. expected - decoded
  <2>1. sizes \subseteq Nat /\ sizes # {} /\ expected - decoded \in sizes
    BY <1>1
  <2>2. \A x \in sizes : x >= 1
    BY <1>1
  <2>. HIDE DEF sizes
  <2>3. n \in sizes /\ \A y \in sizes : n <= y
    BY <2>1, MinIsLeast
  <2>. HIDE DEF n
  <2>. QED
    BY <1>1, <2>1, <2>2, <2>3
<1>3. SingleChar \in Byte
  <2>1. CASE Occurring(table) = {}
    BY <2>1, ByteStreamAssumption DEF SingleChar, Byte
  <2>2. CASE Occurring(table) # {}
    <3>1. Occurring(table) \subseteq Nat /\ Occurring(table) \subseteq Byte
      BY ByteStreamAssumption DEF Occurring, Byte
    <3>2. Min(Occurring(table)) \in Occurring(table)
      BY <2>2, <3>1, MinIsLeast
    <3>. QED
      BY <2>2, <3>1, <3>2 DEF SingleChar
  <2>. QED
    BY <2>1, <2>2
<1>4. Chunk = [i \in 1 .. n |-> SingleChar]
  BY DEF Chunk
<1>. HIDE DEF n
<1>5. Chunk \in [1 .. n -> Byte] /\ n \in Nat
  BY <1>1, <1>2, <1>3, <1>4
<1>6. Chunk \in Seq(Byte)
  BY <1>5, SeqDef
<1>7. Len(Chunk) = n
  BY <1>4, <1>5, <1>6, LenProperties
<1>. QED
  BY <1>2, <1>6, <1>7

LEMMA DecoderFills ==
  ASSUME DecoderInv, Fill
  PROVE  DecoderInv'
<1>1. /\ Chunk \in Seq(Byte) /\ Len(Chunk) \in 1 .. expected - decoded
      /\ out \in Seq(Byte) /\ expected \in Nat /\ decoded \in Nat
  BY ChunkFacts, ByteStreamAssumption DEF DecoderInv, DecompressTypeOK, Fill, Size
<1>2. /\ out' \in Seq(Byte) /\ Len(out') = Len(out) + Len(Chunk)
      /\ Len(out) \in Nat
  BY <1>1, Concatenated DEF Fill, Written
<1>3. decoded' = decoded + Len(Chunk) /\ decoded' \in 0 .. expected
  BY <1>1 DEF Fill
<1>4. DecompressTypeOK'
  BY <1>2, <1>3 DEF DecoderInv, DecompressTypeOK, Fill, Written, tableVars, treeVars
<1>5. StartInv' /\ TreeInv'
  BY DEF DecoderInv, StartInv, TreeInv, CurrentIsNode, Fill, tableVars, treeVars
<1>6. CountInv'
  <2>1. outBuf = <<>> /\ outBuf' = <<>> /\ Len(<<>>) = 0
    BY EmptySeq DEF DecoderInv, StartInv, Fill
  <2>2. Len(out) + Len(outBuf) = decoded /\ stage' = "filling" /\ expected' = expected
    BY DEF DecoderInv, CountInv, Fill
  <2>3. Len(outBuf) = 0 /\ Len(outBuf') = 0
    BY <2>1
  <2>4. Len(out') = decoded' /\ decoded' <= expected' /\ decoded' \in Nat
    <3>1. Len(out) = decoded
      BY <1>1, <1>2, <2>2, <2>3
    <3>2. Len(out') = decoded'
      BY <1>2, <1>3, <3>1
    <3>3. decoded' \in Nat /\ decoded' <= expected'
      BY <1>1, <1>3, <2>2
    <3>. QED
      BY <3>2, <3>3
  <2>5. Len(outBuf') < BufferSize
    BY <2>3, ByteStreamAssumption
  <2>6. Len(out') + Len(outBuf') = decoded' /\ Len(out') + Len(outBuf') <= expected'
    <3>1. \A m, n, k \in Nat : n = 0 /\ m = k => m + n = k
      OBVIOUS
    <3>2. Len(out') + Len(outBuf') = decoded'
      BY <2>3, <2>4, <3>1
    <3>. QED
      BY <2>4, <3>2
  <2>. QED
    BY <2>2, <2>5, <2>6 DEF CountInv, WithinDeclaredSize
<1>. QED
  BY <1>4, <1>5, <1>6 DEF DecoderInv

LEMMA DecoderFillFails ==
  ASSUME DecoderInv, FillFails
  PROVE  DecoderInv'
<1>1. /\ Chunk \in Seq(Byte) /\ Len(Chunk) \in 1 .. expected - decoded
      /\ out \in Seq(Byte) /\ expected \in Nat /\ decoded \in Nat
  BY ChunkFacts, ByteStreamAssumption DEF DecoderInv, DecompressTypeOK, FillFails, Size
<1>2. /\ out' \in Seq(Byte) /\ Len(out') <= Len(out) + Len(Chunk)
      /\ sink' = "failed" /\ stage' = "rejected"
      /\ Len(out) \in Nat /\ Len(out') \in Nat
  BY <1>1, FailedWrite DEF FillFails
<1>3. DecompressTypeOK'
  BY <1>2 DEF DecoderInv, DecompressTypeOK, FillFails, tableVars, treeVars
<1>4. StartInv' /\ TreeInv'
  BY <1>2 DEF DecoderInv, StartInv, TreeInv, CurrentIsNode, FillFails, tableVars, treeVars
<1>5. CountInv'
  <2>1. outBuf = <<>> /\ outBuf' = <<>> /\ Len(<<>>) = 0
    BY EmptySeq DEF DecoderInv, StartInv, FillFails
  <2>2. Len(out) + Len(outBuf) = decoded /\ expected' = expected
    BY DEF DecoderInv, CountInv, FillFails
  <2>. QED
    BY <1>1, <1>2, <2>1, <2>2, ByteStreamAssumption DEF CountInv, WithinDeclaredSize
<1>. QED
  BY <1>3, <1>4, <1>5 DEF DecoderInv

LEMMA DecoderFinishesFilling ==
  ASSUME DecoderInv, FinishFilling
  PROVE  DecoderInv'
<1>1. DecompressTypeOK'
  BY DEF DecoderInv, DecompressTypeOK, FinishFilling, tableVars, treeVars, sinkVars
<1>2. StartInv' /\ TreeInv'
  BY DEF DecoderInv, StartInv, TreeInv, CurrentIsNode, FinishFilling, tableVars, treeVars, sinkVars
<1>3. CountInv'
  <2>1. outBuf = <<>> /\ Len(<<>>) = 0
    BY EmptySeq DEF DecoderInv, StartInv, FinishFilling
  <2>2. Len(out) \in Nat
    BY LenProperties DEF DecoderInv, DecompressTypeOK
  <2>. QED
    BY <2>1, <2>2 DEF DecoderInv, CountInv, WithinDeclaredSize, FinishFilling, sinkVars
<1>. QED
  BY <1>1, <1>2, <1>3 DEF DecoderInv

-----------------------------------------------------------------------------
(***************************************************************************)
(* The decoder builds the tree and follows the bits.                       *)
(***************************************************************************)
LEMMA DecoderMerges ==
  ASSUME DecoderInv, MergeHeap
  PROVE  DecoderInv'
<1>1. Forest(heap')
  BY MergeRoundForest DEF DecoderInv, TreeInv, MergeHeap
<1>2. DecompressTypeOK'
  BY <1>1 DEF DecoderInv, DecompressTypeOK, Forest, MergeHeap, tableVars, sinkVars
<1>3. StartInv' /\ TreeInv'
  BY <1>1 DEF DecoderInv, StartInv, TreeInv, CurrentIsNode, MergeHeap, tableVars, sinkVars
<1>4. CountInv'
  BY DEF DecoderInv, CountInv, WithinDeclaredSize, MergeHeap, sinkVars
<1>. QED
  BY <1>2, <1>3, <1>4 DEF DecoderInv

\* The walk starts at the root.
LEMMA DecoderFinishesTree ==
  ASSUME DecoderInv, FinishTree
  PROVE  DecoderInv'
<1>1. CASE heap = {}
  BY <1>1, DecoderRejects DEF FinishTree
<1>2. CASE heap # {}
  <2>1. /\ stage' = "decoding" /\ heap' = heap /\ path' = <<>>
        /\ UNCHANGED <<stream, expected, at, tableVars, treeVars, sinkVars>>
    BY <1>2 DEF FinishTree, DecoderInv, StartInv, treeVars
  <2>2. DecompressTypeOK'
    BY <2>1 DEF DecoderInv, DecompressTypeOK, tableVars, treeVars, sinkVars
  <2>3. CurrentIsNode'
    <3>1. NodeTypeOK(Root(heap)) /\ DOMAIN Root(heap).codes = Values(Root(heap))
      BY <1>2, RootIsTree DEF DecoderInv, TreeInv
    <3>2. \E v \in Values(Root(heap)) : IsPrefix(<<>>, Root(heap).codes[v])
      BY <3>1, EmptyPath
    <3>. QED
      BY <2>1, <3>1, <3>2 DEF CurrentIsNode, Codes
  <2>4. StartInv' /\ TreeInv'
    BY <1>2, <2>1, <2>3 DEF DecoderInv, StartInv, TreeInv, FinishTree, sinkVars
  <2>5. CountInv'
    <3>1. outBuf = <<>> /\ out = <<>> /\ decoded = 0 /\ Len(<<>>) = 0
      BY EmptySeq DEF DecoderInv, StartInv, FinishTree
    <3>. QED
      BY <2>1, <3>1 DEF DecoderInv, CountInv, WithinDeclaredSize, sinkVars
  <2>. QED
    BY <2>2, <2>4, <2>5 DEF DecoderInv
<1>. QED
  BY <1>1, <1>2

LEMMA BitIsBit ==
  ASSUME NEW byte \in Byte, NEW n \in 0 .. BitsPerByte
  PROVE  BitOf(byte, n) \in Bit
<1>. DEFINE power == Power(2)[n]
<1>1. power \in Nat \ {0}
  BY BitPowers
<1>. HIDE DEF power
<1>2. byte \div power \in Int
  BY <1>1 DEF Byte
<1>3. (byte \div power) % 2 \in 0 .. 1
  BY <1>2
<1>. QED
  BY <1>3 DEF BitOf, Bit, power

\* A bit leads to a child.
LEMMA DecoderReadsBit ==
  ASSUME DecoderInv, ReadBit
  PROVE  DecoderInv'
<1>1. /\ BitsPerByte \in Nat \ {0} /\ readerCount \in 0 .. BitsPerByte - 1
      /\ stream \in Seq(Byte) /\ Len(stream) \in Nat /\ at \in 0 .. Len(stream)
      /\ readerByte \in Byte /\ path \in Seq(Bit) /\ stage = "decoding"
  BY HuffmanAssumption, LenProperties DEF DecoderInv, DecompressTypeOK, ReadBit, Walking
<1>2. \E bit \in Bit : path' = Append(path, bit)
  <2>1. CASE readerCount > 0
    <3>1. readerCount - 1 \in 0 .. BitsPerByte
      BY <1>1, <2>1
    <3>. QED
      BY <1>1, <2>1, <3>1, BitIsBit DEF ReadBit
  <2>2. CASE ~(readerCount > 0)
    <3>1. BitsPerByte - 1 \in 0 .. BitsPerByte /\ at + 1 \in 1 .. Len(stream)
      BY <1>1, <2>2 DEF ReadBit, Truncated
    <3>2. stream[at + 1] \in Byte
      BY <1>1, <3>1, ElementOfSeq
    <3>. QED
      BY <2>2, <3>1, <3>2, BitIsBit DEF ReadBit
  <2>. QED
    BY <2>1, <2>2
<1>3. PICK bit \in Bit : path' = Append(path, bit)
  BY <1>2
<1>4. /\ readerCount' \in 0 .. BitsPerByte - 1 /\ readerByte' \in Byte
      /\ at' \in 0 .. Len(stream) /\ path' \in Seq(Bit)
  <2>1. path' \in Seq(Bit)
    BY <1>1, <1>3, AppendProperties
  <2>2. CASE readerCount > 0
    BY <1>1, <2>1, <2>2 DEF ReadBit
  <2>3. CASE ~(readerCount > 0)
    <3>1. at + 1 \in 1 .. Len(stream)
      BY <1>1, <2>3 DEF ReadBit, Truncated
    <3>2. stream[at + 1] \in Byte
      BY <1>1, <3>1, ElementOfSeq
    <3>. QED
      BY <1>1, <2>1, <2>3, <3>1, <3>2 DEF ReadBit
  <2>. QED
    BY <2>2, <2>3
<1>5. DecompressTypeOK'
  BY <1>4 DEF DecoderInv, DecompressTypeOK, ReadBit, tableVars, sinkVars
<1>6. CurrentIsNode'
  <2>. DEFINE root == Root(heap)
  <2>1. NodeTypeOK(root) /\ CodesComplete(root) /\ DOMAIN root.codes = Values(root)
    BY <1>1, RootIsTree DEF DecoderInv, TreeInv
  <2>2. PICK v \in Values(root) : IsPrefix(path, root.codes[v])
    BY <1>1, <2>1 DEF DecoderInv, TreeInv, CurrentIsNode, Codes
  <2>3. \A w \in Values(root) : root.codes[w] # path
    BY <2>1 DEF ReadBit, Walking, AtLeaf, Codes
  <2>4. heap' = heap
    BY DEF ReadBit
  <2>5. Codes' = root.codes
    BY <2>4 DEF Codes
  <2>. HIDE DEF root
  <2>6. \E w \in Values(root) : IsPrefix(Append(path, bit), root.codes[w])
    BY <1>1, <2>1, <2>2, <2>3, PathGoesOn
  <2>. QED
    BY <1>3, <2>1, <2>5, <2>6 DEF CurrentIsNode
<1>7. StartInv' /\ TreeInv'
  BY <1>1, <1>6 DEF DecoderInv, StartInv, TreeInv, ReadBit, tableVars, sinkVars
<1>8. CountInv'
  BY DEF DecoderInv, CountInv, WithinDeclaredSize, ReadBit, sinkVars
<1>. QED
  BY <1>5, <1>7, <1>8 DEF DecoderInv

-----------------------------------------------------------------------------
(***************************************************************************)
(* The decoder writes what it found.                                       *)
(***************************************************************************)
\* The value at a leaf is a byte, and the buffer takes it.
LEMMA PushedFacts ==
  ASSUME DecoderInv, AtSymbol
  PROVE  /\ Pushed \in Seq(Byte) /\ Len(Pushed) = Len(outBuf) + 1
         /\ Len(outBuf) \in Nat /\ Len(out) \in Nat
         /\ decoded \in Nat /\ expected \in Nat /\ decoded < expected
         /\ Len(out) + Len(outBuf) = decoded
         /\ NodeTypeOK(Root(heap)) /\ DOMAIN Root(heap).codes = Values(Root(heap))
<1>1. NodeTypeOK(Root(heap)) /\ DOMAIN Root(heap).codes = Values(Root(heap))
  BY RootIsTree DEF DecoderInv, TreeInv, AtSymbol
<1>2. Symbol \in Byte
  <2>1. Symbol \in DOMAIN Codes
    BY DEF AtSymbol, AtLeaf, Symbol
  <2>. QED
    BY <1>1, <2>1 DEF Codes, NodeTypeOK
<1>3. outBuf \in Seq(Byte) /\ out \in Seq(Byte)
  BY DEF DecoderInv, DecompressTypeOK
<1>4. Len(outBuf) \in Nat /\ Len(out) \in Nat
  BY <1>3, LenProperties
<1>5. Pushed \in Seq(Byte) /\ Len(Pushed) = Len(outBuf) + 1
  BY <1>2, <1>3, AppendProperties DEF Pushed
<1>6. /\ decoded \in Nat /\ expected \in Nat /\ decoded < expected
      /\ Len(out) + Len(outBuf) = decoded
  BY ByteStreamAssumption DEF DecoderInv, DecompressTypeOK, CountInv, AtSymbol, Size
<1>. QED
  BY <1>1, <1>4, <1>5, <1>6

LEMMA DecoderEmits ==
  ASSUME DecoderInv, Emit
  PROVE  DecoderInv'
<1>1. /\ Pushed \in Seq(Byte) /\ Len(Pushed) = Len(outBuf) + 1
      /\ Len(outBuf) \in Nat /\ Len(out) \in Nat
      /\ decoded \in Nat /\ expected \in Nat /\ decoded < expected
      /\ Len(out) + Len(outBuf) = decoded
      /\ NodeTypeOK(Root(heap)) /\ DOMAIN Root(heap).codes = Values(Root(heap))
  BY PushedFacts DEF Emit
<1>2. /\ decoded' = decoded + 1 /\ path' = <<>> /\ heap' = heap /\ stage' = "decoding"
      /\ expected' = expected /\ stage = "decoding"
  BY DEF Emit, AtSymbol
<1>3. /\ out' \in Seq(Byte) /\ outBuf' \in Seq(Byte) /\ Len(outBuf') < BufferSize
      /\ Len(out') \in Nat /\ Len(outBuf') \in Nat
      /\ Len(out') + Len(outBuf') = decoded' /\ sink' \in {"good", "failed"}
  <2>1. out \in Seq(Byte) /\ sink \in {"good", "failed"} /\ BufferSize \in Nat \ {0}
    BY ByteStreamAssumption DEF DecoderInv, DecompressTypeOK
  <2>2. CASE Len(Pushed) >= BufferSize
    <3>1. out' = out \o Pushed /\ outBuf' = <<>> /\ sink' = sink
      BY <2>2 DEF Emit, Written
    <3>2. out' \in Seq(Byte) /\ Len(out') = Len(out) + Len(Pushed)
      BY <1>1, <2>1, <3>1, Concatenated
    <3>3. outBuf' \in Seq(Byte) /\ Len(outBuf') = 0
      BY <3>1, EmptySeq
    <3>4. Len(out') + Len(outBuf') = decoded'
      BY <1>1, <1>2, <3>2, <3>3
    <3>. QED
      BY <1>1, <2>1, <3>1, <3>2, <3>3, <3>4
  <2>3. CASE ~(Len(Pushed) >= BufferSize)
    <3>1. out' = out /\ outBuf' = Pushed /\ sink' = sink
      BY <2>3 DEF Emit
    <3>. QED
      BY <1>1, <1>2, <2>1, <2>3, <3>1
  <2>. QED
    BY <2>2, <2>3
<1>4. DecompressTypeOK'
  <2>1. path' \in Seq(Bit) /\ decoded' \in 0 .. expected
    BY <1>1, <1>2, EmptySeq
  <2>. QED
    BY <1>2, <1>3, <2>1 DEF DecoderInv, DecompressTypeOK, Emit, tableVars
<1>5. CurrentIsNode'
  <2>1. \E v \in Values(Root(heap)) : IsPrefix(<<>>, Root(heap).codes[v])
    BY <1>1, EmptyPath
  <2>. QED
    BY <1>1, <1>2, <2>1 DEF CurrentIsNode, Codes
<1>6. StartInv' /\ TreeInv'
  BY <1>2, <1>5 DEF DecoderInv, StartInv, TreeInv
<1>7. CountInv'
  BY <1>1, <1>2, <1>3 DEF CountInv, WithinDeclaredSize
<1>. QED
  BY <1>4, <1>6, <1>7 DEF DecoderInv

\* A failing write of the buffer, full or last, ends the call.
LEMMA DecoderWriteFails ==
  ASSUME DecoderInv, NEW bytes \in Seq(Byte), WriteFails(bytes), outBuf' = <<>>,
         Len(out) + Len(bytes) <= expected, decoded' \in 0 .. expected,
         UNCHANGED <<stream, expected, at, tableVars, treeVars>>
  PROVE  DecoderInv'
<1>1. /\ out' \in Seq(Byte) /\ Len(out') <= Len(out) + Len(bytes)
      /\ sink' = "failed" /\ stage' = "rejected"
      /\ Len(out) \in Nat /\ Len(bytes) \in Nat /\ Len(out') \in Nat
  BY FailedWrite DEF DecoderInv, DecompressTypeOK
<1>2. outBuf' \in Seq(Byte) /\ Len(outBuf') = 0
  BY EmptySeq
<1>3. DecompressTypeOK'
  BY <1>1, <1>2 DEF DecoderInv, DecompressTypeOK, tableVars, treeVars
<1>4. StartInv' /\ TreeInv'
  BY <1>1 DEF DecoderInv, StartInv, TreeInv, CurrentIsNode, treeVars
<1>5. CountInv'
  <2>1. expected \in Nat /\ expected' = expected
    BY ByteStreamAssumption DEF DecoderInv, DecompressTypeOK, Size
  <2>. QED
    BY <1>1, <1>2, <2>1, ByteStreamAssumption DEF CountInv, WithinDeclaredSize
<1>. QED
  BY <1>3, <1>4, <1>5 DEF DecoderInv

LEMMA DecoderEmitFails ==
  ASSUME DecoderInv, EmitFails
  PROVE  DecoderInv'
<1>1. /\ Pushed \in Seq(Byte) /\ Len(Pushed) = Len(outBuf) + 1
      /\ Len(outBuf) \in Nat /\ Len(out) \in Nat
      /\ decoded \in Nat /\ expected \in Nat /\ decoded < expected
      /\ Len(out) + Len(outBuf) = decoded
  BY PushedFacts DEF EmitFails
<1>2. Len(out) + Len(Pushed) <= expected /\ decoded' \in 0 .. expected
  BY <1>1 DEF EmitFails
<1>. QED
  BY <1>1, <1>2, DecoderWriteFails DEF EmitFails

\* What remains in the buffer when all is decoded.
LEMMA LastBytes ==
  ASSUME DecoderInv, stage = "decoding", decoded = expected
  PROVE  /\ out \in Seq(Byte) /\ outBuf \in Seq(Byte)
         /\ Len(out) \in Nat /\ Len(outBuf) \in Nat /\ expected \in Nat
         /\ Len(out) + Len(outBuf) = expected
<1>1. out \in Seq(Byte) /\ outBuf \in Seq(Byte) /\ expected \in Nat
  BY ByteStreamAssumption DEF DecoderInv, DecompressTypeOK, Size
<1>2. Len(out) \in Nat /\ Len(outBuf) \in Nat
  BY <1>1, LenProperties
<1>3. Len(out) + Len(outBuf) = expected
  BY DEF DecoderInv, CountInv
<1>. QED
  BY <1>1, <1>2, <1>3

LEMMA DecoderFinishes ==
  ASSUME DecoderInv, FinishDecoding
  PROVE  DecoderInv'
<1>1. /\ out \in Seq(Byte) /\ outBuf \in Seq(Byte)
      /\ Len(out) \in Nat /\ Len(outBuf) \in Nat /\ expected \in Nat
      /\ Len(out) + Len(outBuf) = expected
  BY LastBytes DEF FinishDecoding
<1>2. out' \in Seq(Byte) /\ Len(out') = Len(out) + Len(outBuf)
  BY <1>1, Concatenated DEF FinishDecoding, Written
<1>3. outBuf' \in Seq(Byte) /\ Len(outBuf') = 0
  BY EmptySeq DEF FinishDecoding
<1>4. DecompressTypeOK'
  BY <1>2, <1>3 DEF DecoderInv, DecompressTypeOK, FinishDecoding, Written, tableVars, treeVars
<1>5. StartInv' /\ TreeInv'
  BY DEF DecoderInv, StartInv, TreeInv, CurrentIsNode, FinishDecoding, tableVars, treeVars
<1>6. CountInv'
  <2>1. Len(out') = expected' /\ stage' = "accepted" /\ expected' \in Nat
    BY <1>1, <1>2 DEF FinishDecoding
  <2>2. Len(out') + Len(outBuf') <= expected'
    <3>1. \A m, n, k \in Nat : n = 0 /\ m = k => m + n = k
      OBVIOUS
    <3>2. Len(out') \in Nat /\ Len(outBuf') \in Nat /\ Len(outBuf') = 0
      BY <1>3, <2>1
    <3>3. Len(out') + Len(outBuf') = expected'
      BY <2>1, <3>1, <3>2
    <3>. QED
      BY <2>1, <3>3
  <2>3. Len(outBuf') < BufferSize
    BY <1>3, ByteStreamAssumption
  <2>. QED
    BY <2>1, <2>2, <2>3 DEF CountInv, WithinDeclaredSize
<1>. QED
  BY <1>4, <1>5, <1>6 DEF DecoderInv

LEMMA DecoderFinishFails ==
  ASSUME DecoderInv, FinishFails
  PROVE  DecoderInv'
<1>1. /\ outBuf \in Seq(Byte) /\ Len(out) + Len(outBuf) <= expected
      /\ decoded' \in 0 .. expected
  BY LastBytes DEF FinishFails
<1>. QED
  BY <1>1, DecoderWriteFails DEF FinishFails

LEMMA DecoderStep == DecoderInv /\ DecompressNext => DecoderInv'
<1>. SUFFICES ASSUME DecoderInv, DecompressNext PROVE DecoderInv'
  OBVIOUS
<1>1. CASE RejectCount \/ RejectTruncatedTable \/ RejectTruncatedBits
  BY <1>1, DecoderRejects DEF RejectCount, RejectTruncatedTable, RejectTruncatedBits
<1>2. CASE DecodeEmpty \/ ReadCount \/ ReadEntry \/ CheckSum
  BY <1>2, DecoderEmpty, DecoderReadsCount, DecoderReadsEntry, DecoderChecksSum
<1>3. CASE Fill \/ FillFails \/ FinishFilling
  BY <1>3, DecoderFills, DecoderFillFails, DecoderFinishesFilling
<1>4. CASE MergeHeap \/ FinishTree \/ ReadBit
  BY <1>4, DecoderMerges, DecoderFinishesTree, DecoderReadsBit
<1>5. CASE Emit \/ EmitFails \/ FinishDecoding \/ FinishFails
  BY <1>5, DecoderEmits, DecoderEmitFails, DecoderFinishes, DecoderFinishFails
<1>. QED
  BY <1>1, <1>2, <1>3, <1>4, <1>5 DEF DecompressNext

LEMMA DecoderStays == DecoderInv /\ UNCHANGED decompressVars => DecoderInv'
<1>. SUFFICES ASSUME DecoderInv, UNCHANGED decompressVars PROVE DecoderInv'
  OBVIOUS
<1>1. DecompressTypeOK'
  BY DEF DecoderInv, DecompressTypeOK, decompressVars, tableVars, treeVars, sinkVars
<1>2. StartInv' /\ TreeInv'
  BY DEF DecoderInv, StartInv, TreeInv, CurrentIsNode, Codes, Root, decompressVars, tableVars, treeVars, sinkVars
<1>3. CountInv'
  BY DEF DecoderInv, CountInv, WithinDeclaredSize, decompressVars, sinkVars
<1>. QED
  BY <1>1, <1>2, <1>3 DEF DecoderInv

-----------------------------------------------------------------------------
(***************************************************************************)
(* From one to the other.                                                  *)
(***************************************************************************)
LEMMA InitIInv == Init => IInv
BY EncoderInit, DecoderInit DEF Init, IInv

\* Whatever happens to the archive, the decoder gets bytes and a size.
LEMMA StoreGivesBytes ==
  ASSUME EncoderInv, StoreIntact \/ StoreTruncated \/ StoreExtended \/ StoreResized \/ StoreAltered
  PROVE  /\ \E s \in Seq(Byte), size \in Size : StartDecompress(s, size)
         /\ damage' = damage \/ damage' \in {"truncated", "extended", "resized", "table altered",
                                             "bits altered"}
<1>1. payload \in Seq(Byte) /\ Len(payload) \in Nat
  BY LenProperties DEF EncoderInv, CompressTypeOK
<1>2. Len(input) \in Size
  <2>1. input \in Seq(Byte) /\ Len(input) < SizeMod
    BY InputsAssumption DEF EncoderInv, CompressTypeOK
  <2>2. Len(input) \in Nat
    BY <2>1, LenProperties
  <2>. QED
    BY <2>1, <2>2, ByteStreamAssumption DEF Size
<1>3. CASE StoreIntact
  BY <1>1, <1>2, <1>3 DEF StoreIntact
<1>4. CASE StoreTruncated
  <2>1. PICK n \in 0 .. Len(payload) - 1 : StartDecompress(SubSeq(payload, 1, n), Len(input))
    BY <1>4 DEF StoreTruncated
  <2>2. SubSeq(payload, 1, n) \in Seq(Byte)
    <3>1. n \in 0 .. Len(payload)
      BY <1>1
    <3>. QED
      BY <1>1, <3>1, FrontBytes
  <2>. QED
    BY <1>2, <1>4, <2>1, <2>2 DEF StoreTruncated
<1>5. CASE StoreExtended
  <2>1. PICK tail \in Tails : StartDecompress(payload \o tail, Len(input))
    BY <1>5 DEF StoreExtended
  <2>2. payload \o tail \in Seq(Byte)
    BY <1>1, DamageAssumption, Concatenated
  <2>. QED
    BY <1>2, <1>5, <2>1, <2>2 DEF StoreExtended
<1>6. CASE StoreResized
  BY <1>1, <1>6 DEF StoreResized
<1>7. CASE StoreAltered
  <2>. DEFINE altered(patch, i) == [k \in DOMAIN payload |->
                IF k - i \in DOMAIN patch THEN patch[k - i] ELSE payload[k]]
  <2>1. PICK patch \in Patches : \E i \in 0 .. Len(payload) - Len(patch) :
          /\ StartDecompress(altered(patch, i), Len(input))
          /\ damage' \in {"table altered", "bits altered"}
    BY <1>7 DEF StoreAltered
  <2>2. PICK i \in 0 .. Len(payload) - Len(patch) :
          /\ StartDecompress(altered(patch, i), Len(input))
          /\ damage' \in {"table altered", "bits altered"}
    BY <2>1
  <2>. DEFINE changed == altered(patch, i)
  <2>3. changed \in Seq(Byte)
    <3>1. patch \in Seq(Byte) /\ DOMAIN patch = 1 .. Len(patch) /\ DOMAIN payload = 1 .. Len(payload)
      BY <1>1, DamageAssumption, LenProperties
    <3>2. ASSUME NEW k \in 1 .. Len(payload)
          PROVE  (IF k - i \in DOMAIN patch THEN patch[k - i] ELSE payload[k]) \in Byte
      <4>1. CASE k - i \in DOMAIN patch
        BY <3>1, <4>1, ElementOfSeq
      <4>2. CASE k - i \notin DOMAIN patch
        BY <1>1, <4>2, ElementOfSeq
      <4>. QED
        BY <4>1, <4>2
    <3>3. changed \in [1 .. Len(payload) -> Byte]
      BY <3>1, <3>2
    <3>. QED
      BY <1>1, <3>3, SeqDef
  <2>. HIDE DEF changed, altered
  <2>4. StartDecompress(changed, Len(input))
    BY <2>2 DEF changed
  <2>. QED
    BY <1>2, <2>2, <2>3, <2>4
<1>. QED
  BY <1>3, <1>4, <1>5, <1>6, <1>7

LEMMA StoreIInv ==
  ASSUME IInv, Store
  PROVE  IInv'
<1>1. EncoderInv' /\ EncoderInv
  BY EncoderStays DEF IInv, Store
<1>2. PICK s \in Seq(Byte), size \in Size : StartDecompress(s, size)
  BY <1>1, StoreGivesBytes DEF Store
<1>3. DecoderInv'
  BY <1>2, DecoderStarts DEF IInv
<1>4. damage' = damage \/ damage' \in {"truncated", "extended", "resized", "table altered",
                                       "bits altered"}
  BY <1>1, StoreGivesBytes DEF Store
<1>. QED
  BY <1>1, <1>3, <1>4 DEF IInv

\* The invariant holds for any input and any damage.
THEOREM Inductive == Spec => []IInv
<1>1. IInv /\ Compress => IInv'
  BY EncoderStep, DecoderStays DEF IInv, Compress
<1>2. IInv /\ Decompress => IInv'
  BY DecoderStep, EncoderStays DEF IInv, Decompress
<1>3. IInv /\ UNCHANGED vars => IInv'
  BY EncoderStays, DecoderStays DEF IInv, vars
<1>4. IInv /\ [Next]_vars => IInv'
  BY <1>1, <1>2, <1>3, StoreIInv DEF Next
<1>. QED
  BY InitIInv, <1>4, PTL DEF Spec

\* No count leaves its integer and no byte its range, whatever the archive
\* holds (huffman.cpp:123-340).
THEOREM TypeCorrect == Spec => []TypeOK
<1>1. IInv => TypeOK
  BY DEF IInv, EncoderInv, DecoderInv, TypeOK
<1>. QED
  BY <1>1, Inductive, PTL

\* For any archive the decoder writes at most what the header announces, and
\* exactly that if it accepts (huffman.cpp:265-284, 308-337).
THEOREM WithinDeclaredSizeHolds == Spec => []WithinDeclaredSize
<1>1. IInv => WithinDeclaredSize
  BY DEF IInv, DecoderInv, CountInv
<1>. QED
  BY <1>1, Inductive, PTL

\* For any archive, also a corrupt one, the walk through the tree never comes to
\* a child that is not there (huffman.cpp:311-322).
THEOREM CurrentIsNodeHolds == Spec => []CurrentIsNode
<1>1. IInv => CurrentIsNode
  BY DEF IInv, DecoderInv, TreeInv
<1>. QED
  BY <1>1, Inductive, PTL
-----------------------------------------------------------------------------
(***************************************************************************)
(* The decoder rebuilds the encoder's tree.                                *)
(***************************************************************************)
Table == TableBytes(frequencies)

\* The value of entry k.
EntryValue(k) == Table[EntryStart(k) + 1]

TableFirst(bytes) == Len(Table) <= Len(bytes) /\ \A i \in 1 .. Len(Table) : bytes[i] = Table[i]

ManyValues == ~(Cardinality(Occurring(frequencies)) <= 1)

\* The table stands at the front of the payload, and the tree is built from it.
WriterInv ==
  /\ compressed # "counting" => frequencies = Count(input)
  /\ compressed \in {"building", "encoding", "ok"} /\ outGood => TableFirst(payload)
  /\ compressed = "ok" => outGood
  /\ compressed \in {"building", "encoding"} => ManyValues
  /\ compressed \in {"building", "encoding", "ok"} /\ ManyValues => BuiltFrom(frequencies, nodes)
  /\ compressed \in {"encoding", "ok"} /\ ManyValues => IsTree(nodes)

\* What the first n entries say.
TableOf(n) ==
  [v \in Byte |-> IF \E k \in 1 .. n : EntryValue(k) = v THEN frequencies[v] ELSE 0]

\* The decoder reads the table the encoder wrote, and builds its tree from it.
ReaderInv ==
  /\ stage # "idle" => compressed = "ok"
  /\ stage \in {"idle", "counting"} => table = [v \in Byte |-> 0]
  /\ stage # "idle" /\ ~Altered =>
       \A i \in 1 .. Len(stream) : i <= Len(payload) => stream[i] = payload[i]
  /\ stage = "reading" /\ ~Altered =>
       /\ uniqueCount = Cardinality(Occurring(frequencies)) /\ uniqueCount >= 1
       /\ at = EntryStart(entriesRead + 1)
       /\ table = TableOf(entriesRead)
  /\ stage \in {"building", "decoding"} /\ ~Altered =>
       ManyValues /\ BuiltFrom(frequencies, heap)
  /\ stage = "decoding" /\ ~Altered => IsTree(heap)

\* What the layout of the table says of this one.
LEMMA TableFacts ==
  ASSUME frequencies \in Frequencies
  PROVE  /\ Table \in Seq(Byte)
         /\ Cardinality(Occurring(frequencies)) \in Nat
         /\ Len(Table) = EntryStart(Cardinality(Occurring(frequencies)) + 1)
         /\ FromBytes(SubSeq(Table, 1, CountBytes)) = Cardinality(Occurring(frequencies))
         /\ Cardinality(Occurring(frequencies)) = 0 => Table = ToBytes(0, CountBytes)
         /\ {EntryValue(k) : k \in 1 .. Cardinality(Occurring(frequencies))}
              = Occurring(frequencies)
         /\ \A j, k \in 1 .. Cardinality(Occurring(frequencies)) :
              j < k => EntryValue(j) < EntryValue(k)
         /\ \A k \in 1 .. Cardinality(Occurring(frequencies)) :
              FromBytes(SubSeq(Table, EntryStart(k) + 2, EntryStart(k + 1)))
                = frequencies[EntryValue(k)]
<1>1. Cardinality(Occurring(frequencies)) \in Nat
  <2>1. IsFiniteSet(Byte)
    BY ByteStreamAssumption, FS_Interval DEF Byte
  <2>2. Occurring(frequencies) \subseteq Byte
    BY DEF Occurring
  <2>. QED
    BY <2>1, <2>2, FS_Subset, FS_CardinalityType
<1>2. Table \in Seq(Byte)
  BY TableIsReadBack DEF Table
<1>. QED
  BY <1>1, <1>2, TableIsReadBack DEF Table, EntryValue

\* Entries follow each other.
LEMMA EntriesInOrder ==
  ASSUME NEW n \in Nat, NEW k \in 1 .. n
  PROVE  /\ EntryStart(1) = CountBytes
         /\ EntryStart(k) \in Nat /\ EntryStart(k) >= CountBytes
         /\ EntryStart(k + 1) = EntryStart(k) + 1 + FrequencyBytes
         /\ EntryStart(k + 1) <= EntryStart(n + 1)
<1>. DEFINE width == 1 + FrequencyBytes
<1>1. CountBytes \in Nat /\ width \in Nat
  BY HuffmanAssumption
<1>2. \A m \in Nat : m * width \in Nat
  BY <1>1
<1>3. (k - 1) * width \in Nat /\ (n - k) * width \in Nat
  BY <1>2
<1>4. (k + 1 - 1) * width = (k - 1) * width + width
  BY <1>1
<1>5. (n + 1 - 1) * width = (k - 1) * width + width + (n - k) * width
  BY <1>1
<1>6. EntryStart(1) = CountBytes
  BY <1>1 DEF EntryStart, EntryAt
<1>7. /\ EntryStart(k) = CountBytes + (k - 1) * width
      /\ EntryStart(k + 1) = CountBytes + (k + 1 - 1) * width
      /\ EntryStart(n + 1) = CountBytes + (n + 1 - 1) * width
      /\ width = 1 + FrequencyBytes
  BY DEF EntryStart, EntryAt
<1>. HIDE DEF width
<1>8. PICK x \in Nat : x = (k - 1) * width
  BY <1>3
<1>9. PICK y \in Nat : y = (n - k) * width
  BY <1>3
<1>10. /\ EntryStart(k) = CountBytes + x
       /\ EntryStart(k + 1) = CountBytes + (x + width)
       /\ EntryStart(n + 1) = CountBytes + (x + width + y)
  BY <1>4, <1>5, <1>7, <1>8, <1>9
<1>11. width = 1 + FrequencyBytes
  BY <1>7
<1>. QED
  BY <1>1, <1>6, <1>8, <1>9, <1>10, <1>11, HuffmanAssumption

-----------------------------------------------------------------------------
\* The writer.
LEMMA PutKeepsTable ==
  ASSUME NEW byte, payload \in Seq(Byte), byte \in Byte, Put(byte), outGood',
         outGood => TableFirst(payload), frequencies' = frequencies, frequencies \in Frequencies
  PROVE  TableFirst(payload)'
<1>1. outGood /\ payload' = Append(payload, byte)
  BY DEF Put
<1>2. Len(payload') = Len(payload) + 1 /\ \A i \in 1 .. Len(payload) : payload'[i] = payload[i]
  BY <1>1, AppendProperties
<1>3. Len(Table) \in Nat /\ Len(payload) \in Nat /\ TableFirst(payload)
  BY <1>1, TableFacts, LenProperties
<1>4. Table' = Table
  BY DEF Table
<1>. QED
  BY <1>2, <1>3, <1>4 DEF TableFirst
LEMMA WriterStarts == CompressInit => WriterInv
BY DEF CompressInit, WriterInv

LEMMA WriterCounts ==
  ASSUME EncoderInv, CountAndWriteTable
  PROVE  WriterInv'
<1>1. frequencies' = Count(input) /\ input' = input /\ PutTable /\ compressed' # "encoding"
  BY DEF CountAndWriteTable
<1>2. outGood' => TableFirst(payload)'
  <2>. SUFFICES ASSUME outGood' PROVE TableFirst(payload)'
    OBVIOUS
  <2>1. payload' = Table'
    BY <1>1 DEF PutTable, Table
  <2>2. Len(Table') <= Len(Table')
    <3>1. TableBytes(frequencies') \in Seq(Byte)
      BY <1>1, CountFacts, TableIsReadBack DEF EncoderInv, CompressTypeOK
    <3>. QED
      BY <3>1, LenProperties DEF Table
  <2>. QED
    BY <2>1, <2>2 DEF TableFirst
<1>3. CASE Cardinality(Occurring(frequencies')) <= 1
  BY <1>1, <1>2, <1>3 DEF WriterInv, ManyValues, CountAndWriteTable
<1>4. CASE ~(Cardinality(Occurring(frequencies')) <= 1)
  <2>1. compressed' = "building" /\ nodes' = MakeHeap(frequencies')
    BY <1>4 DEF CountAndWriteTable
  <2>2. BuiltFrom(frequencies', nodes')
    BY <2>1, FirstIsBuilt
  <2>. QED
    BY <1>1, <1>2, <1>4, <2>1, <2>2 DEF WriterInv, ManyValues
<1>. QED
  BY <1>3, <1>4

LEMMA WriterStep ==
  ASSUME EncoderInv, WriterInv, CompressNext
  PROVE  WriterInv'
<1>1. CASE CountAndWriteTable
  BY <1>1, WriterCounts
<1>2. CASE MergeNodes
  <2>1. /\ compressed = "building" /\ compressed' = "building" /\ nodes' \in MergeRound(nodes)
        /\ UNCHANGED <<input, frequencies, payload, outGood>>
    BY <1>2 DEF MergeNodes, writerVars
  <2>2. BuiltFrom(frequencies, nodes')
    BY <2>1, NextIsBuilt DEF WriterInv
  <2>. QED
    BY <2>1, <2>2 DEF WriterInv, TableFirst, Table, ManyValues
<1>3. CASE Rewind
  BY <1>3 DEF Rewind, writerVars, WriterInv, TableFirst, Table, ManyValues
<1>4. CASE TakeByte
  BY <1>4 DEF TakeByte, WriterInv, TableFirst, Table, ManyValues
<1>5. CASE WriteBit \/ FlushBits
  <2>1. /\ compressed = "encoding" /\ compressed' \in {"encoding", "ok", "failed"}
        /\ compressed' # "failed" => outGood'
        /\ UNCHANGED <<input, frequencies, nodes>>
    BY <1>5 DEF WriteBit, FlushBits
  <2>2. outGood' => TableFirst(payload)'
    <3>1. CASE UNCHANGED <<payload, outGood>>
      BY <2>1, <3>1 DEF WriterInv, TableFirst, Table
    <3>2. ASSUME NEW byte \in Byte, Put(byte)
          PROVE  outGood' => TableFirst(payload)'
      BY <2>1, <3>2, PutKeepsTable DEF WriterInv, EncoderInv, CompressTypeOK
    <3>3. CASE WriteBit
      BY <3>1, <3>2, <3>3, ShiftedIsByte DEF WriteBit
    <3>4. CASE FlushBits
      BY <3>1, <3>2, <3>4, LastIsByte DEF FlushBits
    <3>. QED
      BY <1>5, <3>3, <3>4
  <2>. QED
    BY <2>1, <2>2 DEF WriterInv, ManyValues
<1>. QED
  BY <1>1, <1>2, <1>3, <1>4, <1>5 DEF CompressNext

LEMMA WriterStays == WriterInv /\ UNCHANGED compressVars => WriterInv'
BY DEF WriterInv, compressVars, writerVars, TableFirst, Table, ManyValues
-----------------------------------------------------------------------------
\* The reader.
LEMMA ReaderStarts == DecompressInit => ReaderInv
BY DEF DecompressInit, ReaderInv

\* What the reader's part of the invariant depends on.
LEMMA ReaderRests ==
  ASSUME ReaderInv,
         UNCHANGED <<compressed, frequencies, payload, stage, table, stream, heap, at, uniqueCount,
                     entriesRead, damage>>
  PROVE  ReaderInv'
<1>1. /\ compressed' = compressed /\ frequencies' = frequencies /\ payload' = payload
      /\ stage' = stage /\ table' = table /\ stream' = stream /\ heap' = heap /\ at' = at
      /\ uniqueCount' = uniqueCount /\ entriesRead' = entriesRead
      /\ Altered' = Altered
  BY DEF Altered
<1>2. ManyValues' = ManyValues /\ TableOf(entriesRead)' = TableOf(entriesRead)
  BY <1>1 DEF ManyValues, TableOf, EntryValue, Table
<1>3. (stage # "idle" => compressed = "ok")'
      /\ (stage \in {"idle", "counting"} => table = [v \in Byte |-> 0])'
  BY <1>1 DEF ReaderInv
<1>4. (stage # "idle" /\ ~Altered =>
         \A i \in 1 .. Len(stream) : i <= Len(payload) => stream[i] = payload[i])'
  BY <1>1 DEF ReaderInv
<1>5. (stage = "reading" /\ ~Altered =>
       /\ uniqueCount = Cardinality(Occurring(frequencies)) /\ uniqueCount >= 1
       /\ at = EntryStart(entriesRead + 1)
       /\ table = TableOf(entriesRead))'
  BY <1>1, <1>2 DEF ReaderInv
<1>6. (stage \in {"building", "decoding"} /\ ~Altered => ManyValues /\ BuiltFrom(frequencies, heap))'
      /\ (stage = "decoding" /\ ~Altered => IsTree(heap))'
  BY <1>1, <1>2 DEF ReaderInv
<1>. QED
  BY <1>3, <1>4, <1>5, <1>6 DEF ReaderInv

LEMMA ReaderStays ==
  ReaderInv /\ UNCHANGED <<compressVars, decompressVars, damage>> => ReaderInv'
<1>. SUFFICES ASSUME ReaderInv, UNCHANGED <<compressVars, decompressVars, damage>> PROVE ReaderInv'
  OBVIOUS
<1>1. /\ compressed' = compressed /\ frequencies' = frequencies /\ payload' = payload
      /\ stage' = stage /\ table' = table /\ stream' = stream /\ heap' = heap /\ at' = at
      /\ uniqueCount' = uniqueCount /\ entriesRead' = entriesRead /\ damage' = damage
  BY DEF compressVars, decompressVars, tableVars, treeVars, writerVars
<1>. QED
  BY <1>1, ReaderRests

\* The encoder moves only before the call.
LEMMA ReaderWaits ==
  ASSUME ReaderInv, Compress
  PROVE  ReaderInv'
<1>1. compressed # "ok"
  BY DEF Compress, CompressNext, CountAndWriteTable, MergeNodes, Rewind, TakeByte, WriteBit,
     FlushBits
<1>2. stage = "idle" /\ stage' = stage /\ table' = table
  BY <1>1 DEF ReaderInv, Compress, decompressVars, tableVars
<1>. QED
  BY <1>2 DEF ReaderInv

\* What the decoder gets begins with what the encoder wrote, unless it was altered.
LEMMA ReaderGets ==
  ASSUME IInv, WriterInv, ReaderInv, Store
  PROVE  ReaderInv'
<1>1. /\ compressed = "ok" /\ compressed' = "ok" /\ payload' = payload
      /\ stage = "idle" /\ stage' = "counting" /\ table' = table
  BY DEF Store, StoreIntact, StoreTruncated, StoreExtended, StoreResized, StoreAltered,
     StartDecompress, compressVars, writerVars, tableVars
<1>2. payload \in Seq(Byte) /\ Len(payload) \in Nat
  BY LenProperties DEF IInv, EncoderInv, CompressTypeOK
<1>3. ~Altered' => \A i \in 1 .. Len(stream') : i <= Len(payload) => stream'[i] = payload[i]
  <2>1. CASE StoreIntact \/ StoreResized
    BY <2>1 DEF StoreIntact, StoreResized, StartDecompress
  <2>2. CASE StoreTruncated
    <3>1. PICK n \in 0 .. Len(payload) - 1 : stream' = SubSeq(payload, 1, n)
      BY <2>2 DEF StoreTruncated, StartDecompress
    <3>2. \A i \in 1 .. n : payload[i] \in Byte
      BY <1>2, <3>1, ElementOfSeq
    <3>3. Len(SubSeq(payload, 1, n)) = n /\ \A i \in 1 .. n : SubSeq(payload, 1, n)[i] = payload[i]
      BY <1>2, <3>1, <3>2, SubSeqProperties
    <3>. QED
      BY <3>1, <3>3
  <2>3. CASE StoreExtended
    <3>1. PICK tail \in Tails : stream' = payload \o tail
      BY <2>3 DEF StoreExtended, StartDecompress
    <3>2. tail \in Seq(Byte)
      BY DamageAssumption
    <3>3. \A i \in 1 .. Len(payload) : (payload \o tail)[i] = payload[i]
      BY <1>2, <3>2, ConcatProperties, LenProperties
    <3>4. Len(payload \o tail) \in Nat
      BY <1>2, <3>2, Concatenated
    <3>. QED
      BY <1>2, <3>1, <3>3, <3>4
  <2>4. CASE StoreAltered
    BY <2>4 DEF StoreAltered, Altered
  <2>. QED
    BY <2>1, <2>2, <2>3, <2>4 DEF Store
<1>. QED
  BY <1>1, <1>3 DEF ReaderInv

\* As long as both are there, the decoder sees the encoder's table.
LEMMA SeesTable ==
  ASSUME IInv, WriterInv, ReaderInv, stage # "idle", ~Altered
  PROVE  /\ compressed = "ok" /\ frequencies \in Frequencies
         /\ Len(Table) \in Nat /\ Len(stream) \in Nat /\ stream \in Seq(Byte) /\ Table \in Seq(Byte)
         /\ \A i \in 1 .. Len(Table) : i <= Len(stream) => stream[i] = Table[i]
<1>1. compressed = "ok" /\ frequencies \in Frequencies /\ payload \in Seq(Byte) /\ stream \in Seq(Byte)
  BY DEF ReaderInv, IInv, EncoderInv, CompressTypeOK, DecoderInv, DecompressTypeOK
<1>2. Table \in Seq(Byte) /\ TableFirst(payload)
  BY <1>1, TableFacts DEF WriterInv
<1>3. Len(Table) \in Nat /\ Len(stream) \in Nat /\ Len(payload) \in Nat
  BY <1>1, <1>2, LenProperties
<1>4. \A i \in 1 .. Len(stream) : i <= Len(payload) => stream[i] = payload[i]
  BY DEF ReaderInv
<1>. QED
  BY <1>1, <1>2, <1>3, <1>4 DEF TableFirst

\* A stretch of the stream that lies within the table.
LEMMA StretchOfTable ==
  ASSUME NEW s \in Seq(Byte), NEW t \in Seq(Byte), NEW m \in Nat, NEW n \in Nat,
         n <= Len(s), n <= Len(t), \A i \in 1 .. Len(t) : i <= Len(s) => s[i] = t[i]
  PROVE  /\ SubSeq(s, m + 1, n) = SubSeq(t, m + 1, n)
         /\ SubSeq(s, m + 1, n) \in Seq(Byte)
         /\ m <= n => Len(SubSeq(s, m + 1, n)) = n - m
         /\ \A i \in 1 .. n - m : SubSeq(s, m + 1, n)[i] = s[m + i]
<1>1. Len(s) \in Nat /\ Len(t) \in Nat
  BY LenProperties
<1>2. \A i \in m + 1 .. n : s[i] \in Byte /\ t[i] \in Byte /\ s[i] = t[i]
  BY <1>1, ElementOfSeq
<1>3. /\ SubSeq(s, m + 1, n) \in Seq(Byte) /\ SubSeq(t, m + 1, n) \in Seq(Byte)
      /\ Len(SubSeq(s, m + 1, n)) = IF m + 1 <= n THEN n - (m + 1) + 1 ELSE 0
      /\ Len(SubSeq(t, m + 1, n)) = IF m + 1 <= n THEN n - (m + 1) + 1 ELSE 0
      /\ \A i \in 1 .. n - (m + 1) + 1 : SubSeq(s, m + 1, n)[i] = s[m + 1 + i - 1]
      /\ \A i \in 1 .. n - (m + 1) + 1 : SubSeq(t, m + 1, n)[i] = t[m + 1 + i - 1]
  BY <1>2, SubSeqProperties
<1>4. n - (m + 1) + 1 = n - m /\ \A i \in 1 .. n - m : m + 1 + i - 1 = m + i /\ m + i \in m + 1 .. n
  OBVIOUS
<1>5. \A i \in 1 .. n - m : SubSeq(s, m + 1, n)[i] = s[m + i] /\ SubSeq(t, m + 1, n)[i] = t[m + i]
  BY <1>3, <1>4
<1>6. SubSeq(s, m + 1, n) = SubSeq(t, m + 1, n)
  <2>1. Len(SubSeq(s, m + 1, n)) = Len(SubSeq(t, m + 1, n))
    BY <1>3
  <2>2. Len(SubSeq(s, m + 1, n)) \in 0 .. n - m \/ Len(SubSeq(s, m + 1, n)) = 0
    BY <1>3
  <2>3. \A i \in 1 .. Len(SubSeq(s, m + 1, n)) : i \in 1 .. n - m
    BY <2>2
  <2>4. \A i \in 1 .. n - m : SubSeq(s, m + 1, n)[i] = SubSeq(t, m + 1, n)[i]
    <3>1. \A i \in 1 .. n - m : s[m + i] = t[m + i]
      BY <1>2, <1>4
    <3>. QED
      BY <1>5, <3>1
  <2>5. \A i \in 1 .. Len(SubSeq(s, m + 1, n)) : SubSeq(s, m + 1, n)[i] = SubSeq(t, m + 1, n)[i]
    BY <2>3, <2>4
  <2>. DEFINE a == SubSeq(s, m + 1, n)
              b == SubSeq(t, m + 1, n)
  <2>6. /\ a \in Seq(Byte) /\ b \in Seq(Byte) /\ Len(a) = Len(b)
        /\ \A i \in 1 .. Len(a) : a[i] = b[i]
    BY <1>3, <2>1, <2>5
  <2>. HIDE DEF a, b
  <2>7. a = b
    BY <2>6, SeqEqual
  <2>. QED
    BY <2>7 DEF a, b
<1>. QED
  BY <1>3, <1>5, <1>6

\* A step of the decoder changes neither the archive nor what the encoder knows.
LEMMA ReaderGoesOn ==
  ASSUME ReaderInv, stage # "idle", stage' \notin {"idle", "counting"},
         UNCHANGED <<compressVars, damage, stream>>,
         stage' = "reading" /\ ~Altered =>
           /\ uniqueCount' = Cardinality(Occurring(frequencies)) /\ uniqueCount' >= 1
           /\ at' = EntryStart(entriesRead' + 1)
           /\ table' = TableOf(entriesRead'),
         stage' \in {"building", "decoding"} /\ ~Altered =>
           ManyValues /\ BuiltFrom(frequencies, heap'),
         stage' = "decoding" /\ ~Altered => IsTree(heap')
  PROVE  ReaderInv'
<1>1. /\ compressed' = compressed /\ frequencies' = frequencies /\ payload' = payload
      /\ stream' = stream /\ Altered' = Altered
  BY DEF compressVars, writerVars, Altered
<1>2. ManyValues' = ManyValues /\ TableOf(entriesRead)' = TableOf(entriesRead')
  BY <1>1 DEF ManyValues, TableOf, EntryValue, Table
<1>3. (stage # "idle" => compressed = "ok")'
      /\ (stage \in {"idle", "counting"} => table = [v \in Byte |-> 0])'
  BY <1>1 DEF ReaderInv
<1>4. (stage # "idle" /\ ~Altered =>
         \A i \in 1 .. Len(stream) : i <= Len(payload) => stream[i] = payload[i])'
  BY <1>1 DEF ReaderInv
<1>5. (stage = "reading" /\ ~Altered =>
       /\ uniqueCount = Cardinality(Occurring(frequencies)) /\ uniqueCount >= 1
       /\ at = EntryStart(entriesRead + 1)
       /\ table = TableOf(entriesRead))'
  BY <1>1, <1>2
<1>6. (stage \in {"building", "decoding"} /\ ~Altered => ManyValues /\ BuiltFrom(frequencies, heap))'
      /\ (stage = "decoding" /\ ~Altered => IsTree(heap))'
  BY <1>1, <1>2
<1>. QED
  BY <1>3, <1>4, <1>5, <1>6 DEF ReaderInv

\* The number of entries the stream announces is the one the encoder wrote.
LEMMA CountIsRead ==
  ASSUME IInv, WriterInv, ReaderInv, stage = "counting", ~Altered, ~Truncated(CountBytes)
  PROVE  AnnouncedCount = Cardinality(Occurring(frequencies))
<1>. DEFINE n == Cardinality(Occurring(frequencies))
<1>1. at = 0 /\ CountBytes \in Nat
  BY HuffmanAssumption DEF IInv, DecoderInv, StartInv
<1>2. /\ frequencies \in Frequencies /\ stream \in Seq(Byte) /\ Table \in Seq(Byte)
      /\ Len(Table) \in Nat /\ Len(stream) \in Nat
      /\ \A i \in 1 .. Len(Table) : i <= Len(stream) => stream[i] = Table[i]
  BY SeesTable
<1>3. n \in Nat /\ Len(Table) = EntryStart(n + 1) /\ FromBytes(SubSeq(Table, 1, CountBytes)) = n
  BY <1>2, TableFacts
<1>4. CountBytes <= Len(Table)
  <2>1. CASE n = 0
    <3>1. EntryStart(1) = CountBytes
      BY HuffmanAssumption DEF EntryStart, EntryAt
    <3>. HIDE DEF n
    <3>2. n + 1 = 1
      BY <2>1
    <3>. QED
      BY <1>1, <1>3, <3>1, <3>2
  <2>2. CASE n # 0
    <3>. HIDE DEF n
    <3>1. 1 \in 1 .. n
      BY <1>3, <2>2
    <3>2. EntryStart(1) = CountBytes /\ EntryStart(1 + 1) <= EntryStart(n + 1)
          /\ EntryStart(1 + 1) = EntryStart(1) + 1 + FrequencyBytes
      BY <1>3, <3>1, EntriesInOrder
    <3>. QED
      BY <1>1, <1>2, <1>3, <3>2, HuffmanAssumption
  <2>. QED
    BY <2>1, <2>2
<1>5. CountBytes <= Len(stream)
  BY <1>1, <1>2 DEF Truncated
<1>6. SubSeq(stream, 0 + 1, CountBytes) = SubSeq(Table, 0 + 1, CountBytes)
  BY <1>1, <1>2, <1>4, <1>5, StretchOfTable
<1>7. NextBytes(CountBytes) = SubSeq(Table, 1, CountBytes)
  <2>1. 0 + 1 = 1 /\ 0 + CountBytes = CountBytes
    BY <1>1
  <2>. QED
    BY <1>1, <1>6, <2>1 DEF NextBytes
<1>. QED
  BY <1>3, <1>7 DEF AnnouncedCount

LEMMA ReaderReadsCount ==
  ASSUME IInv, WriterInv, ReaderInv, UNCHANGED <<compressVars, damage>>, ReadCount
  PROVE  ReaderInv'
<1>. DEFINE n == Cardinality(Occurring(frequencies))
<1>1. /\ stage = "counting" /\ stage' = "reading" /\ stream' = stream /\ table' = table
      /\ CountIsValid /\ uniqueCount' = AnnouncedCount /\ at' = at + CountBytes
      /\ entriesRead' = entriesRead
  BY DEF ReadCount
<1>2. at = 0 /\ entriesRead = 0 /\ table = [v \in Byte |-> 0]
  BY <1>1 DEF IInv, DecoderInv, StartInv, ReaderInv
<1>3. CountBytes \in Nat
  BY HuffmanAssumption
<1>4. ~Altered => AnnouncedCount = n /\ n \in 1 .. MaxByte + 1
  BY <1>1, CountIsRead DEF CountIsValid
<1>5. TableOf(0) = [v \in Byte |-> 0]
  BY DEF TableOf
<1>6. at' = EntryStart(entriesRead' + 1) /\ table' = TableOf(entriesRead')
  <2>1. EntryStart(1) = CountBytes
    BY HuffmanAssumption DEF EntryStart, EntryAt
  <2>2. entriesRead' + 1 = 1 /\ entriesRead' = 0 /\ at' = CountBytes
    BY <1>1, <1>2, <1>3
  <2>. QED
    BY <1>1, <1>2, <1>5, <2>1, <2>2
<1>7. ~Altered => uniqueCount' = n /\ uniqueCount' >= 1
  <2>. HIDE DEF n
  <2>. QED
    BY <1>1, <1>4, ByteStreamAssumption
<1>. QED
  BY <1>1, <1>6, <1>7, ReaderGoesOn

LEMMA EntriesAreCounted == IInv => entriesRead \in Nat
<1>. SUFFICES ASSUME IInv PROVE entriesRead \in Nat
  OBVIOUS
<1>1. entriesRead \in 0 .. uniqueCount
  BY DEF IInv, DecoderInv, DecompressTypeOK
<1>. QED
  BY <1>1

\* What the next entry of the stream says.
LEMMA EntryIsRead ==
  ASSUME IInv, WriterInv, ReaderInv, stage = "reading", ~Altered, entriesRead < uniqueCount,
         ~Truncated(1 + FrequencyBytes)
  PROVE  /\ entriesRead + 1 \in 1 .. Cardinality(Occurring(frequencies))
         /\ at + 1 + FrequencyBytes = EntryStart(entriesRead + 1 + 1)
         /\ stream[at + 1] = EntryValue(entriesRead + 1)
         /\ FromBytes(Tail(NextBytes(1 + FrequencyBytes))) = frequencies[EntryValue(entriesRead + 1)]
<1>. DEFINE n == Cardinality(Occurring(frequencies))
            k == entriesRead + 1
            width == 1 + FrequencyBytes
<1>1. /\ frequencies \in Frequencies /\ stream \in Seq(Byte) /\ Table \in Seq(Byte)
      /\ Len(Table) \in Nat /\ Len(stream) \in Nat
      /\ \A i \in 1 .. Len(Table) : i <= Len(stream) => stream[i] = Table[i]
  BY SeesTable
<1>2. /\ n \in Nat /\ Len(Table) = EntryStart(n + 1)
      /\ \A j \in 1 .. n :
           FromBytes(SubSeq(Table, EntryStart(j) + 2, EntryStart(j + 1))) = frequencies[EntryValue(j)]
  BY <1>1, TableFacts
<1>3. uniqueCount = n /\ at = EntryStart(k)
  BY DEF ReaderInv
<1>4. entriesRead \in Nat
  BY EntriesAreCounted
<1>. HIDE DEF n
<1>5. k \in 1 .. n
  BY <1>2, <1>3, <1>4
<1>6. width \in Nat /\ width >= 1 /\ width = 1 + FrequencyBytes
  BY HuffmanAssumption
<1>. HIDE DEF k, width
<1>7. at \in Nat /\ EntryStart(k + 1) = EntryStart(k) + 1 + FrequencyBytes
      /\ EntryStart(k + 1) <= EntryStart(n + 1)
  BY <1>2, <1>3, <1>5, EntriesInOrder
<1>8. at + width = EntryStart(k + 1) /\ at + 1 + FrequencyBytes = EntryStart(k + 1)
  BY <1>3, <1>6, <1>7, HuffmanAssumption
<1>9. at + width <= Len(stream) /\ at + width <= Len(Table) /\ at + width \in Nat
  BY <1>1, <1>2, <1>6, <1>7, <1>8 DEF Truncated
<1>10. stream[at + 1] = EntryValue(k)
  <2>1. at + 1 \in 1 .. Len(Table) /\ at + 1 <= Len(stream)
    BY <1>1, <1>6, <1>7, <1>9
  <2>. QED
    BY <1>1, <1>3, <2>1 DEF EntryValue
<1>. DEFINE entry == NextBytes(width)
            rest == SubSeq(Table, (at + 1) + 1, at + width)
<1>11. /\ entry \in Seq(Byte) /\ Len(entry) = width
       /\ \A i \in 1 .. width : entry[i] = stream[at + i]
  <2>1. /\ SubSeq(stream, at + 1, at + width) \in Seq(Byte)
        /\ at <= at + width => Len(SubSeq(stream, at + 1, at + width)) = (at + width) - at
        /\ \A i \in 1 .. (at + width) - at : SubSeq(stream, at + 1, at + width)[i] = stream[at + i]
    BY <1>1, <1>7, <1>9, StretchOfTable
  <2>2. (at + width) - at = width /\ at <= at + width
    BY <1>6, <1>7
  <2>. QED
    BY <2>1, <2>2 DEF NextBytes
<1>12. /\ rest \in Seq(Byte) /\ Len(rest) = width - 1
       /\ \A i \in 1 .. width - 1 : rest[i] = stream[(at + 1) + i]
  <2>1. at + 1 \in Nat /\ at + 1 <= at + width /\ (at + width) - (at + 1) = width - 1
    BY <1>6, <1>7
  <2>2. /\ SubSeq(stream, (at + 1) + 1, at + width) = rest
        /\ SubSeq(stream, (at + 1) + 1, at + width) \in Seq(Byte)
        /\ at + 1 <= at + width =>
             Len(SubSeq(stream, (at + 1) + 1, at + width)) = (at + width) - (at + 1)
        /\ \A i \in 1 .. (at + width) - (at + 1) :
             SubSeq(stream, (at + 1) + 1, at + width)[i] = stream[(at + 1) + i]
    <3>. DEFINE m == at + 1
                l == at + width
    <3>1. m \in Nat /\ l \in Nat /\ l <= Len(stream) /\ l <= Len(Table)
      BY <1>9, <2>1
    <3>. HIDE DEF m, l
    <3>2. /\ SubSeq(stream, m + 1, l) = SubSeq(Table, m + 1, l)
          /\ SubSeq(stream, m + 1, l) \in Seq(Byte)
          /\ m <= l => Len(SubSeq(stream, m + 1, l)) = l - m
          /\ \A i \in 1 .. l - m : SubSeq(stream, m + 1, l)[i] = stream[m + i]
      BY <1>1, <3>1, StretchOfTable
    <3>. QED
      BY <3>2 DEF m, l
  <2>. HIDE DEF rest
  <2>. QED
    BY <2>1, <2>2
<1>13. Tail(entry) = rest
  <2>. HIDE DEF entry, rest
  <2>1. entry # <<>>
    BY <1>6, <1>11, EmptySeq
  <2>2. /\ Tail(entry) \in Seq(Byte) /\ Len(Tail(entry)) = width - 1
        /\ \A i \in 1 .. Len(Tail(entry)) : Tail(entry)[i] = entry[i + 1]
    BY <1>11, <2>1, HeadTailProperties
  <2>3. ASSUME NEW i \in 1 .. width - 1 PROVE Tail(entry)[i] = rest[i]
    <3>1. i + 1 \in 1 .. width /\ at + (i + 1) = (at + 1) + i
      BY <1>6, <1>7, <2>3
    <3>. QED
      BY <1>11, <1>12, <2>2, <2>3, <3>1
  <2>. DEFINE a == Tail(entry)
  <2>4. a \in Seq(Byte) /\ rest \in Seq(Byte) /\ Len(a) = Len(rest)
        /\ \A i \in 1 .. Len(a) : a[i] = rest[i]
    BY <1>12, <2>2, <2>3
  <2>. HIDE DEF a
  <2>5. a = rest
    BY <2>4, SeqEqual
  <2>. QED
    BY <2>5 DEF a
<1>14. rest = SubSeq(Table, EntryStart(k) + 2, EntryStart(k + 1))
  <2>1. (at + 1) + 1 = EntryStart(k) + 2
    BY <1>3, <1>7
  <2>. QED
    BY <1>8, <2>1
<1>15. FromBytes(Tail(entry)) = frequencies[EntryValue(k)]
  BY <1>2, <1>5, <1>13, <1>14
<1>. QED
  BY <1>5, <1>6, <1>8, <1>10, <1>15 DEF n, k

\* One more entry.
LEMMA NextTable ==
  ASSUME frequencies \in Frequencies, NEW e \in Nat,
         e + 1 \in 1 .. Cardinality(Occurring(frequencies))
  PROVE  [TableOf(e) EXCEPT ![EntryValue(e + 1)] = frequencies[EntryValue(e + 1)]] = TableOf(e + 1)
<1>. DEFINE x == EntryValue(e + 1)
            longer == [TableOf(e) EXCEPT ![x] = frequencies[x]]
<1>1. x \in Byte
  BY TableFacts DEF Occurring
<1>2. ASSUME NEW v \in Byte PROVE longer[v] = TableOf(e + 1)[v]
  <2>1. \A j : j \in 1 .. e + 1 <=> j \in 1 .. e \/ j = e + 1
    OBVIOUS
  <2>2. (\E j \in 1 .. e + 1 : EntryValue(j) = v) <=> (\E j \in 1 .. e : EntryValue(j) = v) \/ x = v
    BY <2>1
  <2>3. CASE x = v
    BY <2>2, <2>3 DEF TableOf
  <2>4. CASE x # v
    BY <1>2, <2>2, <2>4 DEF TableOf
  <2>. QED
    BY <2>3, <2>4
<1>. QED
  BY <1>2 DEF TableOf

LEMMA ReaderReadsEntry ==
  ASSUME IInv, WriterInv, ReaderInv, UNCHANGED <<compressVars, damage>>, ReadEntry
  PROVE  ReaderInv'
<1>1. /\ stage = "reading" /\ stage' = "reading" /\ stream' = stream
      /\ entriesRead < uniqueCount /\ ~Truncated(1 + FrequencyBytes)
      /\ uniqueCount' = uniqueCount /\ entriesRead' = entriesRead + 1
      /\ at' = at + 1 + FrequencyBytes
      /\ table' = [table EXCEPT ![stream[at + 1]] = FromBytes(Tail(NextBytes(1 + FrequencyBytes)))]
  BY DEF ReadEntry
<1>2. entriesRead \in Nat
  BY EntriesAreCounted
<1>3. ASSUME ~Altered
      PROVE  /\ uniqueCount' = Cardinality(Occurring(frequencies)) /\ uniqueCount' >= 1
             /\ at' = EntryStart(entriesRead' + 1)
             /\ table' = TableOf(entriesRead')
  <2>1. /\ uniqueCount = Cardinality(Occurring(frequencies)) /\ uniqueCount >= 1
        /\ table = TableOf(entriesRead)
    BY <1>1, <1>3 DEF ReaderInv
  <2>2. /\ entriesRead + 1 \in 1 .. Cardinality(Occurring(frequencies))
        /\ at + 1 + FrequencyBytes = EntryStart(entriesRead + 1 + 1)
        /\ stream[at + 1] = EntryValue(entriesRead + 1)
        /\ FromBytes(Tail(NextBytes(1 + FrequencyBytes))) = frequencies[EntryValue(entriesRead + 1)]
    BY <1>1, <1>3, EntryIsRead
  <2>3. frequencies \in Frequencies
    BY <1>1, <1>3, SeesTable
  <2>4. [TableOf(entriesRead) EXCEPT ![EntryValue(entriesRead + 1)] =
           frequencies[EntryValue(entriesRead + 1)]] = TableOf(entriesRead + 1)
    BY <1>2, <2>2, <2>3, NextTable
  <2>. QED
    BY <1>1, <2>1, <2>2, <2>4
<1>. QED
  BY <1>1, <1>3, ReaderGoesOn

\* All entries together are the table.
LEMMA AllEntries ==
  ASSUME frequencies \in Frequencies
  PROVE  TableOf(Cardinality(Occurring(frequencies))) = frequencies
<1>. DEFINE n == Cardinality(Occurring(frequencies))
<1>1. {EntryValue(k) : k \in 1 .. n} = Occurring(frequencies)
  BY TableFacts
<1>. HIDE DEF n
<1>2. ASSUME NEW v \in Byte PROVE TableOf(n)[v] = frequencies[v]
  <2>1. frequencies[v] \in Nat
    BY ByteStreamAssumption DEF Frequencies, Size
  <2>2. (\E k \in 1 .. n : EntryValue(k) = v) <=> frequencies[v] > 0
    BY <1>1 DEF Occurring
  <2>3. TableOf(n)[v] = IF \E k \in 1 .. n : EntryValue(k) = v THEN frequencies[v] ELSE 0
    BY DEF TableOf
  <2>. QED
    BY <2>1, <2>2, <2>3
<1>3. TableOf(n) = [v \in Byte |-> TableOf(n)[v]] /\ frequencies = [v \in Byte |-> frequencies[v]]
  BY DEF TableOf, Frequencies
<1>4. TableOf(n) = frequencies
  BY <1>2, <1>3
<1>. QED
  BY <1>4 DEF n

LEMMA ReaderChecksSum ==
  ASSUME IInv, WriterInv, ReaderInv, UNCHANGED <<compressVars, damage>>, CheckSum
  PROVE  ReaderInv'
<1>1. /\ stage = "reading" /\ stage' \in {"filling", "building", "rejected"} /\ stream' = stream
      /\ entriesRead = uniqueCount
      /\ stage' = "building" => uniqueCount # 1 /\ heap' = MakeHeap(table)
  BY DEF CheckSum
<1>2. ASSUME stage' = "building", ~Altered
      PROVE  ManyValues /\ BuiltFrom(frequencies, heap')
  <2>1. /\ uniqueCount = Cardinality(Occurring(frequencies)) /\ uniqueCount >= 1
        /\ table = TableOf(entriesRead)
    BY <1>1, <1>2 DEF ReaderInv
  <2>2. frequencies \in Frequencies
    BY <1>1, <1>2, SeesTable
  <2>3. table = frequencies
    BY <1>1, <2>1, <2>2, AllEntries
  <2>4. ManyValues
    <3>1. Cardinality(Occurring(frequencies)) \in Nat
      BY <2>2, TableFacts
    <3>. QED
      BY <1>1, <1>2, <2>1, <3>1 DEF ManyValues
  <2>. QED
    BY <1>1, <1>2, <2>3, <2>4, FirstIsBuilt
<1>. QED
  BY <1>1, <1>2, ReaderGoesOn

LEMMA ReaderMerges ==
  ASSUME IInv, WriterInv, ReaderInv, UNCHANGED <<compressVars, damage>>, MergeHeap
  PROVE  ReaderInv'
<1>1. /\ stage = "building" /\ stage' = "building" /\ stream' = stream
      /\ heap' \in MergeRound(heap)
  BY DEF MergeHeap
<1>2. ~Altered => ManyValues /\ BuiltFrom(frequencies, heap')
  BY <1>1, NextIsBuilt DEF ReaderInv
<1>. QED
  BY <1>1, <1>2, ReaderGoesOn

LEMMA ReaderFinishesTree ==
  ASSUME IInv, WriterInv, ReaderInv, UNCHANGED <<compressVars, damage>>, FinishTree
  PROVE  ReaderInv'
<1>1. /\ stage = "building" /\ stage' \in {"decoding", "rejected"} /\ stream' = stream
      /\ heap' = heap /\ Cardinality(heap) <= 1
      /\ stage' = "decoding" => heap # {}
  BY DEF FinishTree, treeVars
<1>2. ASSUME ~Altered, stage' = "decoding"
      PROVE  ManyValues /\ BuiltFrom(frequencies, heap') /\ IsTree(heap')
  <2>1. ManyValues /\ BuiltFrom(frequencies, heap)
    BY <1>1, <1>2 DEF ReaderInv
  <2>2. frequencies \in Frequencies
    BY <1>1, <1>2, SeesTable
  <2>3. IsFiniteSet(heap)
    BY <2>1, <2>2, BuiltIsForest
  <2>4. Cardinality(heap) \in Nat /\ Cardinality(heap) # 0
    BY <1>1, <1>2, <2>3, FS_CardinalityType, FS_EmptySet
  <2>. QED
    BY <1>1, <2>1, <2>4 DEF IsTree
<1>. QED
  BY <1>1, <1>2, ReaderGoesOn

\* The steps that leave the table and the tree alone.
LEMMA ReaderDecodes ==
  ASSUME ReaderInv, UNCHANGED <<compressVars, damage>>,
         \/ DecodeEmpty \/ RejectCount \/ RejectTruncatedTable
         \/ Fill \/ FillFails \/ FinishFilling
         \/ ReadBit \/ RejectTruncatedBits \/ Emit \/ EmitFails \/ FinishDecoding \/ FinishFails
  PROVE  ReaderInv'
<1>1. /\ stage # "idle" /\ stream' = stream /\ heap' = heap
      /\ \/ stage' \in {"accepted", "rejected", "filling"}
         \/ stage = "decoding" /\ stage' = "decoding"
  <2>1. CASE DecodeEmpty \/ RejectCount \/ RejectTruncatedTable
    BY <2>1 DEF DecodeEmpty, RejectCount, RejectTruncatedTable, treeVars
  <2>2. CASE Fill \/ FillFails \/ FinishFilling
    BY <2>2 DEF Fill, FillFails, FinishFilling, WriteFails, treeVars
  <2>3. CASE ReadBit \/ RejectTruncatedBits
    BY <2>3 DEF ReadBit, RejectTruncatedBits, Walking, treeVars
  <2>4. CASE Emit \/ EmitFails
    BY <2>4 DEF Emit, EmitFails, AtSymbol, WriteFails, treeVars
  <2>5. CASE FinishDecoding \/ FinishFails
    BY <2>5 DEF FinishDecoding, FinishFails, WriteFails, treeVars
  <2>. QED
    BY <2>1, <2>2, <2>3, <2>4, <2>5
<1>2. stage' = "decoding" /\ ~Altered =>
        ManyValues /\ BuiltFrom(frequencies, heap') /\ IsTree(heap')
  BY <1>1 DEF ReaderInv
<1>. QED
  BY <1>1, <1>2, ReaderGoesOn

LEMMA ReaderStep ==
  ASSUME IInv, WriterInv, ReaderInv, UNCHANGED <<compressVars, damage>>, DecompressNext
  PROVE  ReaderInv'
<1>1. CASE ReadCount \/ ReadEntry \/ CheckSum
  BY <1>1, ReaderReadsCount, ReaderReadsEntry, ReaderChecksSum
<1>2. CASE MergeHeap \/ FinishTree
  BY <1>2, ReaderMerges, ReaderFinishesTree
<1>3. CASE ~(ReadCount \/ ReadEntry \/ CheckSum \/ MergeHeap \/ FinishTree)
  BY <1>3, ReaderDecodes DEF DecompressNext
<1>. QED
  BY <1>1, <1>2, <1>3

\* Every step keeps what is known of both halves.
LEMMA WritersReaders ==
  IInv /\ WriterInv /\ ReaderInv /\ [Next]_vars => WriterInv' /\ ReaderInv'
<1>. SUFFICES ASSUME IInv, WriterInv, ReaderInv, [Next]_vars PROVE WriterInv' /\ ReaderInv'
  OBVIOUS
<1>1. CASE Compress
  BY <1>1, WriterStep, ReaderWaits DEF Compress, IInv
<1>2. CASE Store
  BY <1>2, WriterStays, ReaderGets DEF Store
<1>3. CASE Decompress
  BY <1>3, WriterStays, ReaderStep DEF Decompress
<1>4. CASE UNCHANGED vars
  BY <1>4, WriterStays, ReaderStays DEF vars
<1>. QED
  BY <1>1, <1>2, <1>3, <1>4 DEF Next

\* Whatever the table and however the standard library orders its heap, the
\* decoder that reads the table the encoder wrote rebuilds the encoder's tree: the
\* comparator leaves no choice in any round, so the codes need not be stored
\* (huffman.cpp:139-152, 175, 232-289, huffman.hpp:33-44).
THEOREM SameTreeHolds == Spec => []SameTree
<1>1. Init => WriterInv /\ ReaderInv
  BY WriterStarts, ReaderStarts DEF Init
<1>2. IInv /\ WriterInv /\ ReaderInv => SameTree
  <2>. SUFFICES ASSUME IInv, WriterInv, ReaderInv, ~Altered, stage = "decoding" PROVE heap = nodes
    BY DEF SameTree
  <2>1. ManyValues /\ BuiltFrom(frequencies, heap) /\ IsTree(heap) /\ compressed = "ok"
    BY DEF ReaderInv
  <2>2. BuiltFrom(frequencies, nodes) /\ IsTree(nodes)
    BY <2>1 DEF WriterInv
  <2>3. frequencies \in Frequencies
    BY SeesTable
  <2>. QED
    BY <2>1, <2>2, <2>3, TreeIsUnique
<1>. QED
  BY <1>1, <1>2, WritersReaders, Inductive, PTL DEF Spec

-----------------------------------------------------------------------------
(***************************************************************************)
(* The bits of a byte.                                                     *)
(***************************************************************************)
LEMMA HalvesAgree ==
  ASSUME NEW w \in Nat, NEW p \in Nat \ {0}, NEW b \in Bit
  PROVE  (2 * w + b) \div (2 * p) = w \div p
BY DEF Bit

LEMMA FactorsCancel ==
  ASSUME NEW w \in Nat, NEW p \in Nat \ {0}, NEW q \in Nat \ {0}
  PROVE  (w * q) \div (p * q) = w \div p
OBVIOUS

\* A bit put behind c others: it is the last one, and they keep their order.
LEMMA BitPutBehind ==
  ASSUME NEW c \in 0 .. BitsPerByte - 1, NEW w \in Nat, w < Power(2)[c], NEW b \in Bit
  PROVE  /\ (2 * w + b) % (MaxByte + 1) = 2 * w + b
         /\ 2 * w + b \in Nat /\ 2 * w + b < Power(2)[c + 1]
         /\ BitOf(2 * w + b, 0) = b
         /\ \A n \in 0 .. c - 1 : BitOf(2 * w + b, n + 1) = BitOf(w, n)
<1>1. BitsPerByte \in Nat /\ MaxByte + 1 = Power(2)[BitsPerByte] /\ c \in Nat /\ c + 1 <= BitsPerByte
  BY HuffmanAssumption
<1>2. 2 * w + b \in Nat /\ b \in 0 .. 1
  BY DEF Bit
<1>3. \A n \in 0 .. c : Power(2)[n + 1] = 2 * Power(2)[n] /\ Power(2)[n] \in Nat \ {0}
  <2>1. ASSUME NEW n \in 0 .. c PROVE Power(2)[1 + n] = Power(2)[1] * Power(2)[n] /\ Power(2)[n] \in Nat \ {0}
    <3>1. 1 \in 0 .. BitsPerByte /\ n \in 0 .. BitsPerByte /\ 1 + n <= BitsPerByte
      BY <1>1
    <3>. QED
      BY <3>1, BitPowers
  <2>2. \A n \in 0 .. c : 1 + n = n + 1
    OBVIOUS
  <2>. QED
    BY <2>1, <2>2, BitPowers
<1>4. 2 * w + b < Power(2)[c + 1]
  <2>1. PICK p \in Nat : p = Power(2)[c] /\ Power(2)[c + 1] = 2 * p
    BY <1>1, <1>3
  <2>2. w < p
    BY <2>1
  <2>3. 2 * w + b < 2 * p
    BY <1>2, <2>2
  <2>. QED
    BY <2>1, <2>3
<1>5. 2 * w + b < MaxByte + 1
  <2>1. PICK m \in 0 .. BitsPerByte : c + 1 + m = BitsPerByte
    <3>1. BitsPerByte - (c + 1) \in 0 .. BitsPerByte /\ c + 1 + (BitsPerByte - (c + 1)) = BitsPerByte
      BY <1>1
    <3>. QED
      BY <3>1
  <2>2. c + 1 \in 0 .. BitsPerByte
    BY <1>1
  <2>3. Power(2)[BitsPerByte] = Power(2)[c + 1] * Power(2)[m] /\ Power(2)[m] \in Nat \ {0} /\ Power(2)[c + 1] \in Nat \ {0}
    <3>1. PICK e \in 0 .. BitsPerByte : e = c + 1 /\ e + m = BitsPerByte
      BY <2>1, <2>2
    <3>2. Power(2)[e + m] = Power(2)[e] * Power(2)[m]
      BY <1>1, <3>1, BitPowers
    <3>. QED
      BY <3>1, <3>2, BitPowers
  <2>4. \A x, y \in Nat \ {0} : x * y >= x
    OBVIOUS
  <2>5. Power(2)[BitsPerByte] >= Power(2)[c + 1]
    BY <2>3, <2>4
  <2>. QED
    BY <1>1, <1>2, <1>4, <2>3, <2>5, ByteStreamAssumption
<1>6. BitOf(2 * w + b, 0) = b
  <2>1. (2 * w + b) \div 1 = 2 * w + b /\ (2 * w + b) % 2 = b
    BY <1>2
  <2>. QED
    BY <2>1, BitPowers DEF BitOf
<1>7. ASSUME NEW n \in 0 .. c - 1 PROVE BitOf(2 * w + b, n + 1) = BitOf(w, n)
  <2>1. Power(2)[n + 1] = 2 * Power(2)[n] /\ Power(2)[n] \in Nat \ {0}
    BY <1>1, <1>3
  <2>2. (2 * w + b) \div (2 * Power(2)[n]) = w \div Power(2)[n]
    BY <2>1, HalvesAgree
  <2>. QED
    BY <2>1, <2>2 DEF BitOf
<1>8. (2 * w + b) % (MaxByte + 1) = 2 * w + b
  BY <1>2, <1>5, ByteStreamAssumption
<1>. QED
  BY <1>2, <1>4, <1>6, <1>7, <1>8

\* Zeros put behind c bits.
LEMMA ZerosPutBehind ==
  ASSUME NEW c \in 0 .. BitsPerByte - 1, NEW w \in Nat, w < Power(2)[c]
  PROVE  \A n \in 0 .. c - 1 :
           BitOf((w * Power(2)[BitsPerByte - c]) % (MaxByte + 1), n + (BitsPerByte - c)) = BitOf(w, n)
<1>1. BitsPerByte \in Nat /\ MaxByte + 1 = Power(2)[BitsPerByte] /\ c \in Nat /\ c + 1 <= BitsPerByte
  BY HuffmanAssumption
<1>2. PICK m \in 0 .. BitsPerByte : m = BitsPerByte - c /\ c + m = BitsPerByte
  <2>1. BitsPerByte - c \in 0 .. BitsPerByte /\ c + (BitsPerByte - c) = BitsPerByte
    BY <1>1
  <2>. QED
    BY <2>1
<1>3. PICK z \in Nat \ {0} : z = Power(2)[m]
  BY BitPowers
<1>4. w * z < MaxByte + 1
  <2>1. Power(2)[BitsPerByte] = Power(2)[c] * z /\ Power(2)[c] \in Nat
    BY <1>1, <1>2, <1>3, BitPowers
  <2>2. \A x \in Nat : w < x => w * z < x * z
    OBVIOUS
  <2>. QED
    BY <1>1, <2>1, <2>2
<1>5. (w * z) % (MaxByte + 1) = w * z
  <2>1. \A x \in Nat : x < MaxByte + 1 => x % (MaxByte + 1) = x
    BY ByteStreamAssumption
  <2>2. w * z \in Nat
    OBVIOUS
  <2>. QED
    BY <1>4, <2>1, <2>2
<1>6. ASSUME NEW n \in 0 .. c - 1 PROVE BitOf(w * z, n + m) = BitOf(w, n)
  <2>1. n \in 0 .. BitsPerByte /\ n + m <= BitsPerByte
    BY <1>1, <1>2
  <2>2. Power(2)[n + m] = Power(2)[n] * z /\ Power(2)[n] \in Nat \ {0}
    BY <1>3, <2>1, BitPowers
  <2>3. (w * z) \div (Power(2)[n] * z) = w \div Power(2)[n]
    BY <2>2, FactorsCancel
  <2>. QED
    BY <2>2, <2>3 DEF BitOf
<1>. QED
  BY <1>2, <1>3, <1>5, <1>6

-----------------------------------------------------------------------------
(***************************************************************************)
(* Where the bits are in the payload.                                      *)
(***************************************************************************)
\* A place is a byte's position in the payload and a bit's number in it.
Place == (Nat \ {0}) \X (0 .. BitsPerByte - 1)

FirstPlace == <<Len(Table) + 1, BitsPerByte - 1>>

IsNext(a, b) ==
  \/ a[2] = 0 /\ b = <<a[1] + 1, BitsPerByte - 1>>
  \/ a[2] # 0 /\ b = <<a[1], a[2] - 1>>

\* The place of the bit that will be written next.
WriterPlace == <<Len(payload) + 1, (BitsPerByte - 1) - writerCount>>

\* The byte in hand holds its bits at its lower end.
HeldAt(a) ==
  IF a[1] <= Len(payload)
    THEN BitOf(payload[a[1]], a[2])
    ELSE BitOf(writerByte, a[2] - (BitsPerByte - writerCount))

IsWritten(a) ==
  \/ a[1] <= Len(payload)
  \/ a[1] = Len(payload) + 1 /\ a[2] >= BitsPerByte - writerCount

\* The places of the bits, one after the other, and the one behind them.
Trail(bits, places) ==
  /\ bits \in Seq(Bit)
  /\ places \in [1 .. Len(bits) + 1 -> Place]
  /\ places[1] = FirstPlace
  /\ \A p \in 1 .. Len(bits) : IsNext(places[p], places[p + 1])

Packed(bits, places) ==
  /\ Trail(bits, places)
  /\ \A p \in 1 .. Len(bits) : IsWritten(places[p]) /\ HeldAt(places[p]) = bits[p]

\* What BitWriter keeps.
WriterOK ==
  /\ payload \in Seq(Byte) /\ writerByte \in Byte /\ writerCount \in 0 .. BitsPerByte - 1
  /\ writerByte < Power(2)[writerCount]

\* A longer trail.
LEMMA TrailGoesOn ==
  ASSUME NEW bits, NEW places, Trail(bits, places), NEW bit \in Bit,
         NEW place \in Place, IsNext(places[Len(bits) + 1], place)
  PROVE  \E longer :
           /\ Trail(Append(bits, bit), longer)
           /\ \A p \in 1 .. Len(bits) + 1 : longer[p] = places[p]
           /\ longer[Len(bits) + 2] = place
           /\ Len(Append(bits, bit)) = Len(bits) + 1
<1>. DEFINE n == Len(bits)
            more == Append(bits, bit)
            longer == [p \in 1 .. n + 2 |-> IF p = n + 2 THEN place ELSE places[p]]
<1>1. n \in Nat /\ bits \in Seq(Bit) /\ more \in Seq(Bit) /\ Len(more) = n + 1
  BY LenProperties, AppendProperties DEF Trail
<1>2. places \in [1 .. n + 1 -> Place] /\ places[1] = FirstPlace
      /\ \A p \in 1 .. n : IsNext(places[p], places[p + 1])
  BY DEF Trail
<1>3. IsNext(places[n + 1], place)
  OBVIOUS
<1>. HIDE DEF n, more
<1>4. /\ \A p \in 1 .. n + 1 : longer[p] = places[p] /\ longer[p] \in Place
      /\ longer[n + 2] = place /\ DOMAIN longer = 1 .. n + 2
  BY <1>1, <1>2
<1>5. longer \in [1 .. n + 2 -> Place]
  BY <1>1, <1>2
<1>. HIDE DEF longer
<1>6. ASSUME NEW p \in 1 .. n + 1 PROVE IsNext(longer[p], longer[p + 1])
  <2>1. CASE p = n + 1
    <3>1. p + 1 = n + 2
      BY <1>1, <2>1
    <3>. QED
      BY <1>3, <1>4, <2>1, <3>1
  <2>2. CASE p # n + 1
    <3>1. p \in 1 .. n /\ p + 1 \in 1 .. n + 1
      BY <1>1, <2>2
    <3>. QED
      BY <1>2, <1>4, <3>1
  <2>. QED
    BY <2>1, <2>2
<1>7. 1 \in 1 .. n + 1 /\ n + 1 + 1 = n + 2
  BY <1>1
<1>8. Trail(more, longer)
  BY <1>1, <1>2, <1>4, <1>5, <1>6, <1>7 DEF Trail
<1>. QED
  BY <1>1, <1>4, <1>8 DEF n, more

\* What write_bit does when all goes well.
BitAdded(bit) ==
  /\ frequencies' = frequencies
  /\ \/ /\ writerCount + 1 # BitsPerByte
        /\ writerByte' = Shifted(bit) /\ writerCount' = writerCount + 1 /\ payload' = payload
     \/ /\ writerCount + 1 = BitsPerByte
        /\ payload' = Append(payload, Shifted(bit)) /\ writerByte' = 0 /\ writerCount' = 0

\* What write_bit puts into the byte in hand.
LEMMA ShiftedBits ==
  ASSUME WriterOK, NEW bit \in Bit
  PROVE  /\ BitsPerByte \in Nat \ {0} /\ writerCount \in Nat /\ writerByte \in Nat
         /\ writerCount < BitsPerByte
         /\ Shifted(bit) \in Byte /\ Shifted(bit) < Power(2)[writerCount + 1]
         /\ BitOf(Shifted(bit), 0) = bit
         /\ \A n \in 0 .. writerCount - 1 : BitOf(Shifted(bit), n + 1) = BitOf(writerByte, n)
<1>1. writerByte \in Nat /\ writerCount \in 0 .. BitsPerByte - 1 /\ BitsPerByte \in Nat \ {0}
  BY HuffmanAssumption DEF WriterOK, Byte
<1>2. writerByte < Power(2)[writerCount]
  BY DEF WriterOK
<1>3. /\ (2 * writerByte + bit) % (MaxByte + 1) = 2 * writerByte + bit
      /\ 2 * writerByte + bit < Power(2)[writerCount + 1]
      /\ BitOf(2 * writerByte + bit, 0) = bit
      /\ \A n \in 0 .. writerCount - 1 : BitOf(2 * writerByte + bit, n + 1) = BitOf(writerByte, n)
  BY <1>1, <1>2, BitPutBehind
<1>4. Shifted(bit) = 2 * writerByte + bit
  BY <1>3 DEF Shifted
<1>5. Shifted(bit) \in Byte
  <2>1. 2 * writerByte + bit \in Int
    BY <1>1 DEF Bit
  <2>. QED
    BY <2>1, RemainderIsByte DEF Shifted
<1>. QED
  BY <1>1, <1>3, <1>4, <1>5

\* What was written before is still there.
LEMMA HeldStays ==
  ASSUME WriterOK, NEW bit \in Bit, BitAdded(bit), NEW a \in Place, IsWritten(a)
  PROVE  IsWritten(a)' /\ HeldAt(a)' = HeldAt(a)
<1>1. /\ BitsPerByte \in Nat \ {0} /\ writerCount \in Nat /\ writerByte \in Nat
      /\ writerCount < BitsPerByte /\ Shifted(bit) \in Byte
      /\ \A n \in 0 .. writerCount - 1 : BitOf(Shifted(bit), n + 1) = BitOf(writerByte, n)
  BY ShiftedBits
<1>2. payload \in Seq(Byte) /\ Len(payload) \in Nat
  BY LenProperties DEF WriterOK
<1>3. a[1] \in Nat \ {0} /\ a[2] \in 0 .. BitsPerByte - 1
  BY DEF Place
<1>. DEFINE n == a[2] - (BitsPerByte - writerCount)
<1>4. CASE writerCount + 1 # BitsPerByte
  <2>1. writerByte' = Shifted(bit) /\ writerCount' = writerCount + 1 /\ payload' = payload
    BY <1>4 DEF BitAdded
  <2>2. CASE a[1] <= Len(payload)
    BY <2>1, <2>2 DEF IsWritten, HeldAt
  <2>3. CASE ~(a[1] <= Len(payload))
    <3>1. a[1] = Len(payload) + 1 /\ a[2] >= BitsPerByte - writerCount
      BY <2>3 DEF IsWritten
    <3>2. n \in 0 .. writerCount - 1
      BY <1>1, <1>3, <3>1
    <3>3. a[2] - (BitsPerByte - (writerCount + 1)) = n + 1 /\ a[2] >= BitsPerByte - (writerCount + 1)
      BY <1>1, <1>3, <3>1
    <3>4. HeldAt(a) = BitOf(writerByte, n)
      BY <2>3 DEF HeldAt
    <3>5. HeldAt(a)' = BitOf(Shifted(bit), n + 1)
      BY <2>1, <2>3, <3>3 DEF HeldAt
    <3>6. IsWritten(a)'
      BY <2>1, <3>1, <3>3 DEF IsWritten
    <3>. HIDE DEF n
    <3>. QED
      BY <1>1, <3>2, <3>4, <3>5, <3>6
  <2>. QED
    BY <2>2, <2>3
<1>5. CASE writerCount + 1 = BitsPerByte
  <2>1. payload' = Append(payload, Shifted(bit))
    BY <1>5 DEF BitAdded
  <2>2. /\ Len(payload') = Len(payload) + 1 /\ payload'[Len(payload) + 1] = Shifted(bit)
        /\ \A k \in 1 .. Len(payload) : payload'[k] = payload[k]
    BY <1>1, <1>2, <2>1, AppendProperties
  <2>3. CASE a[1] <= Len(payload)
    <3>1. a[1] <= Len(payload') /\ a[1] \in Nat
      BY <1>2, <1>3, <2>2, <2>3
    <3>2. IsWritten(a)' /\ HeldAt(a)' = BitOf(payload'[a[1]], a[2])
      BY <3>1 DEF IsWritten, HeldAt
    <3>3. HeldAt(a) = BitOf(payload[a[1]], a[2])
      BY <2>3 DEF HeldAt
    <3>. QED
      BY <1>2, <1>3, <2>2, <2>3, <3>2, <3>3
  <2>4. CASE ~(a[1] <= Len(payload))
    <3>1. a[1] = Len(payload) + 1 /\ a[2] >= BitsPerByte - writerCount
      BY <2>4 DEF IsWritten
    <3>2. n \in 0 .. writerCount - 1 /\ n + 1 = a[2]
      BY <1>1, <1>3, <1>5, <3>1
    <3>3. HeldAt(a) = BitOf(writerByte, n)
      BY <2>4 DEF HeldAt
    <3>4. a[1] <= Len(payload')
      BY <1>2, <2>2, <3>1
    <3>5. IsWritten(a)' /\ HeldAt(a)' = BitOf(Shifted(bit), n + 1)
      BY <2>2, <3>1, <3>2, <3>4 DEF IsWritten, HeldAt
    <3>. HIDE DEF n
    <3>. QED
      BY <1>1, <3>2, <3>3, <3>5
  <2>. QED
    BY <2>3, <2>4
<1>. QED
  BY <1>4, <1>5

\* The new bit is where the writer was, and the writer goes to the next place.
LEMMA NewBitIsHeld ==
  ASSUME WriterOK, NEW bit \in Bit, BitAdded(bit), NEW a \in Place, a = WriterPlace
  PROVE  /\ IsWritten(a)' /\ HeldAt(a)' = bit
         /\ WriterPlace' \in Place /\ IsNext(a, WriterPlace')
         /\ WriterOK'
<1>1. /\ BitsPerByte \in Nat \ {0} /\ writerCount \in Nat /\ writerByte \in Nat
      /\ writerCount < BitsPerByte /\ Shifted(bit) \in Byte
      /\ Shifted(bit) < Power(2)[writerCount + 1] /\ BitOf(Shifted(bit), 0) = bit
  BY ShiftedBits
<1>2. payload \in Seq(Byte) /\ Len(payload) \in Nat
  BY LenProperties DEF WriterOK
<1>3. a[1] = Len(payload) + 1 /\ a[2] = (BitsPerByte - 1) - writerCount
  BY DEF WriterPlace
<1>4. CASE writerCount + 1 # BitsPerByte
  <2>1. writerByte' = Shifted(bit) /\ writerCount' = writerCount + 1 /\ payload' = payload
    BY <1>4 DEF BitAdded
  <2>2. a[2] - (BitsPerByte - (writerCount + 1)) = 0 /\ a[2] >= BitsPerByte - (writerCount + 1)
        /\ ~(a[1] <= Len(payload)) /\ a[2] # 0
        /\ (BitsPerByte - 1) - (writerCount + 1) = a[2] - 1
        /\ a[2] - 1 \in 0 .. BitsPerByte - 1 /\ writerCount + 1 \in 0 .. BitsPerByte - 1
    BY <1>1, <1>2, <1>3, <1>4
  <2>3. IsWritten(a)' /\ HeldAt(a)' = bit
    BY <1>1, <1>3, <2>1, <2>2 DEF IsWritten, HeldAt
  <2>4. WriterPlace' = <<Len(payload) + 1, (BitsPerByte - 1) - (writerCount + 1)>>
    BY <2>1 DEF WriterPlace
  <2>5. WriterPlace' = <<a[1], a[2] - 1>>
    BY <1>3, <2>2, <2>4
  <2>6. WriterPlace' \in Place /\ IsNext(a, WriterPlace')
    BY <1>2, <1>3, <2>2, <2>5 DEF Place, IsNext
  <2>7. WriterOK'
    BY <1>1, <1>2, <2>1, <2>2 DEF WriterOK
  <2>. QED
    BY <2>3, <2>6, <2>7
<1>5. CASE writerCount + 1 = BitsPerByte
  <2>1. payload' = Append(payload, Shifted(bit)) /\ writerByte' = 0 /\ writerCount' = 0
    BY <1>5 DEF BitAdded
  <2>2. /\ Len(payload') = Len(payload) + 1 /\ payload'[Len(payload) + 1] = Shifted(bit)
        /\ payload' \in Seq(Byte)
    BY <1>1, <1>2, <2>1, AppendProperties
  <2>3. a[2] = 0 /\ a[1] <= Len(payload')
    BY <1>1, <1>2, <1>3, <1>5, <2>2
  <2>4. IsWritten(a)' /\ HeldAt(a)' = bit
    BY <1>1, <1>3, <2>2, <2>3 DEF IsWritten, HeldAt
  <2>5. WriterPlace' = <<a[1] + 1, BitsPerByte - 1>>
    <3>1. WriterPlace' = <<Len(payload') + 1, (BitsPerByte - 1) - 0>>
      BY <2>1 DEF WriterPlace
    <3>2. (BitsPerByte - 1) - 0 = BitsPerByte - 1 /\ Len(payload') = a[1]
      BY <1>1, <1>3, <2>2
    <3>. QED
      BY <3>1, <3>2
  <2>6. WriterPlace' \in Place /\ IsNext(a, WriterPlace')
    BY <1>1, <1>2, <1>3, <2>3, <2>5 DEF Place, IsNext
  <2>7. WriterOK'
    <3>1. 0 \in Byte /\ 0 < Power(2)[0] /\ 0 \in 0 .. BitsPerByte - 1
      BY <1>1, BitPowers, ByteStreamAssumption DEF Byte
    <3>. QED
      BY <2>1, <2>2, <3>1 DEF WriterOK
  <2>. QED
    BY <2>4, <2>6, <2>7
<1>. QED
  BY <1>4, <1>5

LEMMA BitIsPacked ==
  ASSUME WriterOK, NEW bits, NEW places, Packed(bits, places),
         places[Len(bits) + 1] = WriterPlace, NEW bit \in Bit, BitAdded(bit)
  PROVE  \E longer : Packed(Append(bits, bit), longer)' /\ longer[Len(bits) + 2] = WriterPlace'
<1>. DEFINE n == Len(bits)
            more == Append(bits, bit)
<1>1. Trail(bits, places) /\ bits \in Seq(Bit) /\ n \in Nat
      /\ places \in [1 .. n + 1 -> Place]
  BY LenProperties DEF Packed, Trail
<1>2. places[n + 1] \in Place
  <2>. HIDE DEF n
  <2>. QED
    BY <1>1
<1>3. /\ IsWritten(places[n + 1])' /\ HeldAt(places[n + 1])' = bit
      /\ WriterPlace' \in Place /\ IsNext(places[n + 1], WriterPlace')
  BY <1>2, NewBitIsHeld
<1>4. PICK longer : /\ Trail(more, longer)
                    /\ \A p \in 1 .. n + 1 : longer[p] = places[p]
                    /\ longer[n + 2] = WriterPlace'
                    /\ Len(more) = n + 1
  BY <1>1, <1>3, TrailGoesOn
<1>5. Trail(more, longer)'
  BY <1>4 DEF BitAdded, Trail, FirstPlace, Table
<1>6. \A p \in 1 .. n : more[p] = bits[p] /\ more[n + 1] = bit
  BY <1>1, AppendProperties
<1>7. more[n + 1] = bit
  BY <1>1, AppendProperties
<1>8. ASSUME NEW p \in 1 .. n + 1
      PROVE  IsWritten(longer[p])' /\ HeldAt(longer[p])' = more[p]
  <2>1. longer[p] = places[p]
    BY <1>4
  <2>2. CASE p = n + 1
    BY <1>3, <1>7, <2>1, <2>2
  <2>3. CASE p # n + 1
    <3>. HIDE DEF n, more
    <3>1. p \in 1 .. n
      BY <1>1, <2>3
    <3>2. places[p] \in Place
      BY <1>1
    <3>3. IsWritten(places[p]) /\ HeldAt(places[p]) = bits[p]
      BY <3>1 DEF Packed, n
    <3>4. IsWritten(places[p])' /\ HeldAt(places[p])' = HeldAt(places[p])
      BY <3>2, <3>3, HeldStays
    <3>. QED
      BY <1>6, <2>1, <3>1, <3>3, <3>4
  <2>. QED
    BY <2>2, <2>3
<1>9. Packed(more, longer)'
  BY <1>4, <1>5, <1>8 DEF Packed
<1>. QED
  BY <1>4, <1>9

\* All bits are in the payload, which ends with the byte the last one is in.
Flushed(bits, places) ==
  /\ Trail(bits, places)
  /\ \A p \in 1 .. Len(bits) :
       places[p][1] <= Len(payload) /\ BitOf(payload[places[p][1]], places[p][2]) = bits[p]
  /\ places[Len(bits) + 1][2] = BitsPerByte - 1 => Len(payload) = places[Len(bits) + 1][1] - 1
  /\ places[Len(bits) + 1][2] # BitsPerByte - 1 => Len(payload) = places[Len(bits) + 1][1]

\* Facts of arithmetic about places in a sequence of codes.
LEMMA SumsWithin ==
  ASSUME NEW x \in Nat, NEW y \in Nat, NEW z \in Nat, NEW b \in Nat, x + z <= b, y < z
  PROVE  /\ x + y + 1 \in 1 .. b /\ y + 1 \in 1 .. z
         /\ x + (y + 1) = x + y + 1 /\ (x + y + 1) + 1 = x + y + 2
OBVIOUS

LEMMA OneFurther ==
  ASSUME NEW x \in Nat, NEW y \in Nat
  PROVE  x + (y + 1) + 1 = x + y + 2
OBVIOUS

LEMMA JustBehind ==
  ASSUME NEW x \in Nat, NEW y \in Nat, NEW z \in Nat, x + y <= z + 1, ~(x + y <= z)
  PROVE  x + y = z + 1
OBVIOUS

LEMMA PlaceInCode ==
  ASSUME NEW x \in Nat, NEW y \in Nat, NEW z \in Nat, x + y = z + 1
  PROVE  (z - x) + 1 = y
OBVIOUS

LEMMA BitsAreFlushed ==
  ASSUME WriterOK, NEW bits, NEW places, Packed(bits, places),
         places[Len(bits) + 1] = WriterPlace, frequencies' = frequencies,
         \/ writerCount > 0 /\ payload' = Append(payload, LastByte) /\ LastByte \in Byte
         \/ ~(writerCount > 0) /\ payload' = payload
  PROVE  Flushed(bits, places)'
<1>. DEFINE n == Len(bits)
            c == writerCount
<1>1. /\ BitsPerByte \in Nat \ {0} /\ c \in 0 .. BitsPerByte - 1 /\ writerByte \in Nat
      /\ writerByte < Power(2)[c]
  BY HuffmanAssumption DEF WriterOK, Byte
<1>2. payload \in Seq(Byte) /\ Len(payload) \in Nat
  BY LenProperties DEF WriterOK
<1>3. Trail(bits, places) /\ bits \in Seq(Bit) /\ n \in Nat /\ places \in [1 .. n + 1 -> Place]
  BY LenProperties DEF Packed, Trail
<1>4. Trail(bits, places)'
  BY <1>3 DEF Trail, FirstPlace, Table
<1>5. places[n + 1] = <<Len(payload) + 1, (BitsPerByte - 1) - c>>
  BY DEF WriterPlace
<1>6. /\ places[n + 1][2] = BitsPerByte - 1 => Len(payload') = places[n + 1][1] - 1
      /\ places[n + 1][2] # BitsPerByte - 1 => Len(payload') = places[n + 1][1]
  <2>1. places[n + 1][1] = Len(payload) + 1 /\ places[n + 1][2] = (BitsPerByte - 1) - c
    BY <1>5
  <2>2. CASE c > 0
    <3>1. Len(payload') = Len(payload) + 1
      BY <1>2, <2>2, AppendProperties
    <3>. QED
      BY <1>1, <2>1, <2>2, <3>1
  <2>3. CASE ~(c > 0)
    BY <1>1, <1>2, <2>1, <2>3
  <2>. QED
    BY <2>2, <2>3
<1>7. ASSUME NEW p \in 1 .. n
      PROVE  places[p][1] <= Len(payload') /\ BitOf(payload'[places[p][1]], places[p][2]) = bits[p]
  <2>. DEFINE a == places[p]
  <2>1. a[1] \in Nat \ {0} /\ a[2] \in 0 .. BitsPerByte - 1
    <3>1. p \in 1 .. n + 1
      BY <1>3
    <3>2. a \in Place
      BY <1>3, <3>1
    <3>. QED
      BY <3>2 DEF Place
  <2>2. IsWritten(a) /\ HeldAt(a) = bits[p]
    BY DEF Packed
  <2>. HIDE DEF a
  <2>3. CASE a[1] <= Len(payload)
    <3>1. HeldAt(a) = BitOf(payload[a[1]], a[2])
      BY <2>3 DEF HeldAt
    <3>2. Len(payload) <= Len(payload') /\ payload'[a[1]] = payload[a[1]]
      <4>1. a[1] \in 1 .. Len(payload)
        BY <1>2, <2>1, <2>3
      <4>2. CASE c > 0
        BY <1>2, <4>1, <4>2, AppendProperties
      <4>3. CASE ~(c > 0)
        BY <1>2, <4>3
      <4>. QED
        BY <4>2, <4>3
    <3>3. a[1] <= Len(payload')
      <4>1. Len(payload') \in Nat
        BY <1>2, AppendProperties, LenProperties
      <4>. QED
        BY <1>2, <2>1, <2>3, <3>2, <4>1
    <3>. QED
      BY <2>2, <3>1, <3>2, <3>3 DEF a
  <2>4. CASE ~(a[1] <= Len(payload))
    <3>1. a[1] = Len(payload) + 1 /\ a[2] >= BitsPerByte - c
      BY <2>2, <2>4 DEF IsWritten
    <3>2. c > 0 /\ a[2] - (BitsPerByte - c) \in 0 .. c - 1
          /\ (a[2] - (BitsPerByte - c)) + (BitsPerByte - c) = a[2]
      BY <1>1, <2>1, <3>1
    <3>3. payload' = Append(payload, LastByte) /\ LastByte \in Byte
      BY <3>2
    <3>4. Len(payload') = Len(payload) + 1 /\ payload'[Len(payload) + 1] = LastByte
      BY <1>2, <3>3, AppendProperties
    <3>5. HeldAt(a) = BitOf(writerByte, a[2] - (BitsPerByte - c))
      BY <2>4 DEF HeldAt
    <3>6. BitOf(LastByte, (a[2] - (BitsPerByte - c)) + (BitsPerByte - c))
            = BitOf(writerByte, a[2] - (BitsPerByte - c))
      BY <1>1, <3>2, ZerosPutBehind DEF LastByte
    <3>. QED
      BY <1>2, <2>2, <3>1, <3>2, <3>4, <3>5, <3>6 DEF a
  <2>. QED
    BY <2>3, <2>4
<1>. QED
  BY <1>4, <1>6, <1>7 DEF Flushed

-----------------------------------------------------------------------------
(***************************************************************************)
(* Which codes the bits are.                                               *)
(***************************************************************************)
\* The code of the k-th byte of the input.
CodeOf(k) == Root(nodes).codes[input[k]]

\* The bits are the codes of the bytes taken so far, one behind the other: that of
\* byte k ends at ends[k].  The last one may still lack what is in `left`.
Coded(bits, ends, taken, left) ==
  /\ bits \in Seq(Bit) /\ ends \in [0 .. taken -> Nat] /\ ends[0] = 0
  /\ \A k \in 1 .. taken : CodeOf(k) \in Seq(Bit) /\ ends[k] = ends[k - 1] + Len(CodeOf(k))
  /\ ends[taken] = Len(bits) + Len(left)
  /\ \A k \in 0 .. taken - 1 : ends[k] <= Len(bits)
  /\ \A k \in 1 .. taken : \A m \in 1 .. Len(CodeOf(k)) :
       ends[k - 1] + m <= Len(bits) => bits[ends[k - 1] + m] = CodeOf(k)[m]
  /\ \A m \in 1 .. Len(left) : left[m] = CodeOf(taken)[(Len(bits) - ends[taken - 1]) + m]

LEMMA CodeIsTaken ==
  ASSUME NEW taken \in Nat, NEW bits, NEW ends, Coded(bits, ends, taken, <<>>),
         CodeOf(taken + 1) \in Seq(Bit)
  PROVE  \E longer : Coded(bits, longer, taken + 1, CodeOf(taken + 1))
<1>. DEFINE n == taken + 1
            longer == [k \in 0 .. n |-> IF k = n THEN ends[taken] + Len(CodeOf(n)) ELSE ends[k]]
<1>1. n \in Nat /\ n - 1 = taken /\ n # 0 /\ n = taken + 1
  OBVIOUS
<1>2. bits \in Seq(Bit) /\ Len(bits) \in Nat /\ Len(CodeOf(n)) \in Nat /\ CodeOf(n) \in Seq(Bit)
  BY LenProperties DEF Coded
<1>3. ends[taken] = Len(bits) /\ ends[taken] \in Nat
  <2>1. Len(<<>>) = 0
    BY EmptySeq
  <2>2. ends[taken] = Len(bits) + Len(<<>>)
    BY DEF Coded
  <2>. QED
    BY <1>2, <2>1, <2>2
<1>4. ends \in [0 .. taken -> Nat] /\ ends[0] = 0
  BY DEF Coded
<1>5. /\ \A k \in 1 .. taken : CodeOf(k) \in Seq(Bit) /\ ends[k] = ends[k - 1] + Len(CodeOf(k))
      /\ \A k \in 0 .. taken - 1 : ends[k] <= Len(bits)
      /\ \A k \in 1 .. taken : \A m \in 1 .. Len(CodeOf(k)) :
           ends[k - 1] + m <= Len(bits) => bits[ends[k - 1] + m] = CodeOf(k)[m]
  BY DEF Coded
<1>. HIDE DEF n
<1>8. /\ longer[n] = ends[taken] + Len(CodeOf(n))
      /\ \A k \in 0 .. taken : longer[k] = ends[k]
      /\ longer \in [0 .. n -> Nat]
  BY <1>1, <1>2, <1>3, <1>4
<1>. HIDE DEF longer
<1>9. longer[0] = 0
  BY <1>1, <1>4, <1>8
<1>10. ASSUME NEW k \in 1 .. n
       PROVE  CodeOf(k) \in Seq(Bit) /\ longer[k] = longer[k - 1] + Len(CodeOf(k))
  <2>1. CASE k = n
    BY <1>1, <1>2, <1>8, <2>1
  <2>2. CASE k # n
    <3>1. k \in 1 .. taken /\ k \in 0 .. taken /\ k - 1 \in 0 .. taken
      BY <1>1, <2>2
    <3>. QED
      BY <1>5, <1>8, <3>1
  <2>. QED
    BY <2>1, <2>2
<1>11. \A k \in 0 .. n - 1 : longer[k] <= Len(bits)
  <2>1. ASSUME NEW k \in 0 .. n - 1 PROVE longer[k] <= Len(bits)
    <3>1. CASE k = taken
      BY <1>1, <1>2, <1>3, <1>8, <3>1
    <3>2. CASE k # taken
      <4>1. k \in 0 .. taken - 1 /\ k \in 0 .. taken
        BY <1>1, <3>2
      <4>. QED
        BY <1>5, <1>8, <4>1
    <3>. QED
      BY <3>1, <3>2
  <2>. QED
    BY <2>1
<1>12. ASSUME NEW k \in 1 .. n, NEW m \in 1 .. Len(CodeOf(k)), longer[k - 1] + m <= Len(bits)
       PROVE  bits[longer[k - 1] + m] = CodeOf(k)[m]
  <2>1. CASE k = n
    <3>1. longer[k - 1] = Len(bits)
      BY <1>1, <1>3, <1>8, <2>1
    <3>2. m \in Nat /\ m >= 1
      BY <1>2, <2>1
    <3>. QED
      BY <1>2, <1>12, <3>1, <3>2
  <2>2. CASE k # n
    <3>1. k \in 1 .. taken /\ k - 1 \in 0 .. taken
      BY <1>1, <2>2
    <3>2. longer[k - 1] = ends[k - 1]
      BY <1>8, <3>1
    <3>. QED
      BY <1>5, <1>12, <3>1, <3>2
  <2>. QED
    BY <2>1, <2>2
<1>13. \A m \in 1 .. Len(CodeOf(n)) : CodeOf(n)[m] = CodeOf(n)[(Len(bits) - longer[n - 1]) + m]
  <2>1. longer[n - 1] = Len(bits)
    BY <1>1, <1>3, <1>8
  <2>2. ASSUME NEW m \in 1 .. Len(CodeOf(n)) PROVE (Len(bits) - longer[n - 1]) + m = m
    BY <1>2, <2>1
  <2>. QED
    BY <2>2
<1>14. Coded(bits, longer, n, CodeOf(n))
  <2>1. longer[n] = Len(bits) + Len(CodeOf(n))
    BY <1>3, <1>8
  <2>. QED
    BY <1>2, <1>8, <1>9, <1>10, <1>11, <1>12, <1>13, <2>1 DEF Coded
<1>. QED
  BY <1>14 DEF n

LEMMA BitIsCoded ==
  ASSUME NEW taken \in Nat, NEW left \in Seq(Bit), left # <<>>, NEW bits, NEW ends,
         Coded(bits, ends, taken, left)
  PROVE  Coded(Append(bits, Head(left)), ends, taken, Tail(left))
<1>. DEFINE n == Len(bits)
            bit == Head(left)
            more == Append(bits, bit)
<1>1. /\ bits \in Seq(Bit) /\ n \in Nat /\ Len(left) \in Nat \ {0} /\ bit \in Bit /\ bit = left[1]
      /\ Tail(left) \in Seq(Bit) /\ Len(Tail(left)) = Len(left) - 1
      /\ \A m \in 1 .. Len(Tail(left)) : Tail(left)[m] = left[m + 1]
  <2>1. bits \in Seq(Bit)
    BY DEF Coded
  <2>2. Len(left) # 0 /\ Head(left) = left[1]
    BY EmptySeq
  <2>. QED
    BY <2>1, <2>2, LenProperties, HeadTailProperties
<1>2. /\ more \in Seq(Bit) /\ Len(more) = n + 1 /\ more[n + 1] = bit
      /\ \A p \in 1 .. n : more[p] = bits[p]
  BY <1>1, AppendProperties
<1>. HIDE DEF more, n, bit
<1>3. ends \in [0 .. taken -> Nat] /\ ends[0] = 0
  BY DEF Coded
<1>4. /\ \A k \in 1 .. taken : CodeOf(k) \in Seq(Bit) /\ ends[k] = ends[k - 1] + Len(CodeOf(k))
      /\ \A k \in 0 .. taken - 1 : ends[k] <= n
      /\ \A k \in 1 .. taken : \A m \in 1 .. Len(CodeOf(k)) :
           ends[k - 1] + m <= n => bits[ends[k - 1] + m] = CodeOf(k)[m]
      /\ \A m \in 1 .. Len(left) : left[m] = CodeOf(taken)[(n - ends[taken - 1]) + m]
      /\ ends[taken] = n + Len(left)
  BY DEF Coded, n
<1>6. taken # 0 /\ taken \in 1 .. taken /\ taken - 1 \in 0 .. taken - 1 /\ ends[taken - 1] \in Nat
      /\ ends[taken - 1] <= n
  <2>1. taken # 0
    BY <1>1, <1>3, <1>4
  <2>2. taken \in 1 .. taken /\ taken - 1 \in 0 .. taken - 1 /\ taken - 1 \in 0 .. taken
    BY <2>1
  <2>. QED
    BY <1>3, <1>4, <2>1, <2>2
<1>7. ASSUME NEW k \in 1 .. taken, NEW m \in 1 .. Len(CodeOf(k)), ends[k - 1] + m <= n + 1
      PROVE  more[ends[k - 1] + m] = CodeOf(k)[m]
  <2>1. ends[k - 1] \in Nat /\ Len(CodeOf(k)) \in Nat /\ ends[k] = ends[k - 1] + Len(CodeOf(k))
        /\ ends[k] \in Nat
    <3>1. k - 1 \in 0 .. taken /\ k \in 0 .. taken
      OBVIOUS
    <3>. QED
      BY <1>3, <1>4, <3>1, LenProperties
  <2>2. m \in Nat /\ m >= 1 /\ m <= Len(CodeOf(k))
    BY <2>1
  <2>3. CASE ends[k - 1] + m <= n
    <3>1. ends[k - 1] + m \in 1 .. n
      BY <1>1, <2>1, <2>2, <2>3
    <3>. QED
      BY <1>2, <1>4, <2>3, <3>1
  <2>4. CASE ~(ends[k - 1] + m <= n)
    <3>1. ends[k - 1] + m = n + 1
      <4>1. ends[k - 1] \in Nat /\ m \in Nat /\ n \in Nat
        BY <1>1, <2>1, <2>2
      <4>. QED
        BY <1>7, <2>4, <4>1, JustBehind
    <3>2. k = taken
      <4>. SUFFICES ASSUME k # taken PROVE FALSE
        OBVIOUS
      <4>1. k \in 0 .. taken - 1
        OBVIOUS
      <4>2. ends[k] <= n
        BY <1>4, <4>1
      <4>. QED
        BY <1>1, <2>1, <2>2, <2>4, <4>2
    <3>3. left[1] = CodeOf(taken)[(n - ends[taken - 1]) + 1]
      <4>1. 1 \in 1 .. Len(left)
        BY <1>1
      <4>. QED
        BY <1>4, <4>1
    <3>4. (n - ends[taken - 1]) + 1 = m
      <4>1. ends[taken - 1] + m = n + 1
        BY <3>1, <3>2
      <4>2. n \in Nat
        BY <1>1
      <4>3. m \in Nat /\ ends[taken - 1] \in Nat
        BY <1>6, <2>2
      <4>. QED
        BY ONLY <4>1, <4>2, <4>3, PlaceInCode
    <3>. QED
      BY <1>1, <1>2, <3>1, <3>2, <3>3, <3>4
  <2>. QED
    BY <2>3, <2>4
<1>8. ASSUME NEW m \in 1 .. Len(Tail(left))
      PROVE  Tail(left)[m] = CodeOf(taken)[((n + 1) - ends[taken - 1]) + m]
  <2>1. m + 1 \in 1 .. Len(left)
    BY <1>1
  <2>2. (n - ends[taken - 1]) + (m + 1) = ((n + 1) - ends[taken - 1]) + m
    <3>1. \A a, b, c \in Int : (a - b) + (c + 1) = ((a + 1) - b) + c
      OBVIOUS
    <3>2. n \in Int /\ ends[taken - 1] \in Int /\ m \in Int
      BY <1>1, <1>6
    <3>. QED
      BY <3>1, <3>2
  <2>3. Tail(left)[m] = left[m + 1]
    BY <1>1
  <2>4. left[m + 1] = CodeOf(taken)[(n - ends[taken - 1]) + (m + 1)]
    BY <1>4, <2>1
  <2>. QED
    BY <2>2, <2>3, <2>4
<1>9. /\ ends[taken] = (n + 1) + Len(Tail(left))
      /\ \A k \in 0 .. taken - 1 : ends[k] <= n + 1
  <2>1. ends[taken] = (n + 1) + Len(Tail(left))
    BY <1>1, <1>4
  <2>2. ASSUME NEW k \in 0 .. taken - 1 PROVE ends[k] <= n + 1
    <3>1. k \in 0 .. taken
      OBVIOUS
    <3>2. ends[k] \in Nat /\ ends[k] <= n
      BY <1>3, <1>4, <3>1
    <3>. QED
      BY <1>1, <3>2
  <2>. QED
    BY <2>1, <2>2
<1>10. Coded(more, ends, taken, Tail(left))
  BY <1>2, <1>3, <1>4, <1>7, <1>8, <1>9 DEF Coded
<1>. QED
  BY <1>10 DEF more, bit

-----------------------------------------------------------------------------
(***************************************************************************)
(* The encoder writes its codes.                                           *)
(***************************************************************************)
\* What the second pass keeps.
Encoding ==
  /\ writerByte < Power(2)[writerCount]
  /\ \E bits, places, ends :
       /\ Coded(bits, ends, pos, code) /\ Packed(bits, places)
       /\ places[Len(bits) + 1] = WriterPlace

CodingInv ==
  /\ compressed \in {"counting", "building"} =>
       code = <<>> /\ pos = 0 /\ writerByte = 0 /\ writerCount = 0
  /\ compressed = "building" /\ outGood => payload = Table
  /\ compressed = "encoding" /\ outGood => Encoding
  /\ compressed = "ok" /\ ManyValues =>
       \E bits, places, ends : Coded(bits, ends, Len(input), <<>>) /\ Flushed(bits, places)
  /\ compressed = "ok" /\ ~ManyValues => payload = Table

LEMMA CodedStays ==
  ASSUME NEW bits, NEW ends, NEW n, NEW left, UNCHANGED <<nodes, input>>
  PROVE  Coded(bits, ends, n, left)' <=> Coded(bits, ends, n, left)
<1>1. \A k : CodeOf(k)' = CodeOf(k)
  BY DEF CodeOf
<1>. QED
  BY <1>1 DEF Coded

LEMMA PackedStays ==
  ASSUME NEW bits, NEW places, UNCHANGED <<frequencies, payload, writerByte, writerCount>>
  PROVE  /\ Packed(bits, places)' <=> Packed(bits, places)
         /\ Flushed(bits, places)' <=> Flushed(bits, places)
         /\ WriterPlace' = WriterPlace
<1>1. Trail(bits, places)' <=> Trail(bits, places)
  BY DEF Trail, FirstPlace, Table
<1>. QED
  BY <1>1 DEF Packed, Flushed, WriterPlace, IsWritten, HeldAt

LEMMA CodingStarts == CompressInit => CodingInv
BY DEF CompressInit, CodingInv

LEMMA CodingCounts ==
  ASSUME CodingInv, CountAndWriteTable
  PROVE  CodingInv'
<1>1. /\ compressed = "counting" /\ UNCHANGED <<input, pos, code, writerByte, writerCount>>
      /\ PutTable
  BY DEF CountAndWriteTable
<1>2. outGood' => payload' = Table'
  BY <1>1 DEF PutTable, Table
<1>3. CASE Cardinality(Occurring(frequencies')) <= 1
  <2>1. compressed' \in {"ok", "failed"} /\ (compressed' = "ok" => outGood') /\ ~ManyValues'
    BY <1>3 DEF CountAndWriteTable, ManyValues
  <2>. QED
    BY <1>2, <2>1 DEF CodingInv
<1>4. CASE ~(Cardinality(Occurring(frequencies')) <= 1)
  <2>1. compressed' = "building"
    BY <1>4 DEF CountAndWriteTable
  <2>. QED
    BY <1>1, <1>2, <2>1 DEF CodingInv
<1>. QED
  BY <1>3, <1>4

LEMMA CodingRewinds ==
  ASSUME EncoderInv, CodingInv, Rewind
  PROVE  CodingInv'
<1>1. /\ compressed = "building" /\ compressed' \in {"encoding", "failed"}
      /\ UNCHANGED <<input, frequencies, nodes, pos, code, writerByte, writerCount, payload, outGood>>
  BY DEF Rewind, writerVars
<1>2. code = <<>> /\ pos = 0 /\ writerByte = 0 /\ writerCount = 0 /\ (outGood => payload = Table)
  BY <1>1 DEF CodingInv
<1>3. ASSUME outGood
      PROVE  Encoding
  <2>. DEFINE bits == <<>>
              places == [p \in 1 .. 1 |-> FirstPlace]
              ends == [k \in 0 .. 0 |-> 0]
  <2>1. bits \in Seq(Bit) /\ Len(bits) = 0 /\ code = bits
    BY <1>2, EmptySeq
  <2>2. FirstPlace \in Place
    <3>1. Len(Table) \in Nat
      BY <1>2, <1>3, LenProperties DEF EncoderInv, CompressTypeOK
    <3>2. BitsPerByte - 1 \in 0 .. BitsPerByte - 1
      BY HuffmanAssumption
    <3>. QED
      BY <3>1, <3>2 DEF FirstPlace, Place
  <2>3. WriterPlace = FirstPlace
    <3>1. (BitsPerByte - 1) - 0 = BitsPerByte - 1
      BY HuffmanAssumption
    <3>. QED
      BY <1>2, <1>3, <3>1 DEF WriterPlace, FirstPlace
  <2>4. ends \in [0 .. 0 -> Nat] /\ ends[0] = 0 /\ places \in [1 .. 1 -> Place]
        /\ places[1] = FirstPlace
    BY <2>2
  <2>. HIDE DEF bits, places, ends
  <2>5. Coded(bits, ends, 0, bits)
    BY <2>1, <2>4 DEF Coded
  <2>6. Packed(bits, places) /\ places[Len(bits) + 1] = WriterPlace
    BY <2>1, <2>3, <2>4 DEF Packed, Trail
  <2>7. writerByte < Power(2)[writerCount]
    BY <1>2, BitPowers
  <2>8. Coded(bits, ends, pos, code)
    BY <1>2, <2>1, <2>5
  <2>. QED
    BY <2>6, <2>7, <2>8 DEF Encoding
<1>4. outGood => Encoding'
  <2>. SUFFICES ASSUME outGood PROVE Encoding'
    OBVIOUS
  <2>1. PICK bits, places, ends :
          /\ Coded(bits, ends, pos, code) /\ Packed(bits, places)
          /\ places[Len(bits) + 1] = WriterPlace
    BY <1>3 DEF Encoding
  <2>2. Coded(bits, ends, pos, code)' /\ Packed(bits, places)'
    <3>1. UNCHANGED <<nodes, input>> /\ UNCHANGED <<frequencies, payload, writerByte, writerCount>>
      BY <1>1
    <3>2. PICK n, left : n = pos /\ left = code
      OBVIOUS
    <3>3. Coded(bits, ends, n, left)'
      BY <2>1, <3>1, <3>2, CodedStays
    <3>4. Packed(bits, places)'
      BY <2>1, <3>1, PackedStays
    <3>. QED
      BY <1>1, <3>2, <3>3, <3>4
  <2>3. WriterPlace' = WriterPlace
    BY <1>1 DEF WriterPlace
  <2>. QED
    BY <1>1, <1>3, <2>1, <2>2, <2>3 DEF Encoding
<1>. QED
  BY <1>1, <1>4 DEF CodingInv

LEMMA CodingTakes ==
  ASSUME EncoderInv, EncoderInv', CodingInv, TakeByte
  PROVE  CodingInv'
<1>1. /\ compressed = "encoding" /\ compressed' = "encoding" /\ code = <<>> /\ pos' = pos + 1
      /\ code' = CodeOf(pos + 1)
      /\ UNCHANGED <<input, frequencies, nodes, writerByte, writerCount, payload, outGood>>
  BY DEF TakeByte, CodeOf
<1>2. pos \in Nat /\ code' \in Seq(Bit)
  <2>1. pos \in 0 .. Len(input) /\ code' \in Seq(Bit)
    BY DEF EncoderInv, CompressTypeOK
  <2>. QED
    BY <2>1
<1>3. outGood => Encoding'
  <2>. SUFFICES ASSUME outGood PROVE Encoding'
    OBVIOUS
  <2>1. writerByte < Power(2)[writerCount]
    BY <1>1 DEF CodingInv, Encoding
  <2>2. PICK bits, places, ends :
          /\ Coded(bits, ends, pos, code) /\ Packed(bits, places)
          /\ places[Len(bits) + 1] = WriterPlace
    BY <1>1 DEF CodingInv, Encoding
  <2>3. PICK n \in Nat : n = pos
    BY <1>2
  <2>4. PICK left : left = CodeOf(n + 1)
    OBVIOUS
  <2>5. PICK longer : Coded(bits, longer, n + 1, CodeOf(n + 1))
    <3>1. Coded(bits, ends, n, <<>>)
      BY <1>1, <2>2, <2>3
    <3>2. CodeOf(n + 1) \in Seq(Bit)
      BY <1>1, <1>2, <2>3
    <3>. QED
      BY <3>1, <3>2, CodeIsTaken
  <2>6. PICK m : m = n + 1
    OBVIOUS
  <2>7. Coded(bits, longer, m, left)'
    <3>1. Coded(bits, longer, m, left)
      BY <2>4, <2>5, <2>6
    <3>. QED
      BY <1>1, <3>1, CodedStays
  <2>8. m = pos' /\ left = code'
    BY <1>1, <2>3, <2>4, <2>6
  <2>9. Packed(bits, places)' /\ WriterPlace' = WriterPlace
    BY <1>1, <2>2, PackedStays
  <2>. QED
    BY <1>1, <2>1, <2>2, <2>7, <2>8, <2>9 DEF Encoding
<1>. QED
  BY <1>1, <1>3 DEF CodingInv

LEMMA CodingWrites ==
  ASSUME EncoderInv, CodingInv, WriteBit
  PROVE  CodingInv'
<1>1. /\ compressed = "encoding" /\ code # <<>> /\ code' = Tail(code)
      /\ UNCHANGED <<input, frequencies, nodes, pos>>
      /\ compressed' \in {"encoding", "failed"} /\ (compressed' = "encoding" => outGood')
  BY DEF WriteBit
<1>2. pos \in Nat /\ code \in Seq(Bit)
  <2>1. pos \in 0 .. Len(input) /\ code \in Seq(Bit)
    BY DEF EncoderInv, CompressTypeOK
  <2>. QED
    BY <2>1
<1>3. outGood' => Encoding'
  <2>. SUFFICES ASSUME outGood' PROVE Encoding'
    OBVIOUS
  <2>1. PICK bit \in Bit : bit = Head(code)
    BY <1>1, <1>2, HeadTailProperties
  <2>2. outGood /\ BitAdded(bit)
    <3>1. CASE writerCount + 1 = BitsPerByte
      BY <1>1, <2>1, <3>1 DEF WriteBit, BitAdded, Put
    <3>2. CASE writerCount + 1 # BitsPerByte
      BY <1>1, <2>1, <3>2 DEF WriteBit, BitAdded
    <3>. QED
      BY <3>1, <3>2
  <2>3. WriterOK
    BY <1>1, <2>2 DEF CodingInv, Encoding, WriterOK, EncoderInv, CompressTypeOK
  <2>4. PICK bits, places, ends :
          /\ Coded(bits, ends, pos, code) /\ Packed(bits, places)
          /\ places[Len(bits) + 1] = WriterPlace
    BY <1>1, <2>2 DEF CodingInv, Encoding
  <2>5. PICK more, n : more = Append(bits, bit) /\ n = pos
    OBVIOUS
  <2>6. PICK longer : Packed(Append(bits, bit), longer)' /\ longer[Len(bits) + 2] = WriterPlace'
    BY <2>2, <2>3, <2>4, BitIsPacked
  <2>7. Len(more) = Len(bits) + 1 /\ Len(bits) \in Nat
    BY <2>4, <2>5, AppendProperties, LenProperties DEF Coded
  <2>8. longer[Len(more) + 1] = WriterPlace'
    <3>1. Len(more) + 1 = Len(bits) + 2
      BY <2>7
    <3>. QED
      BY <2>6, <3>1
  <2>9. PICK left : left = Tail(code)
    OBVIOUS
  <2>10. Coded(more, ends, n, left)'
    <3>1. Coded(Append(bits, Head(code)), ends, pos, Tail(code))
      BY <1>1, <1>2, <2>4, BitIsCoded
    <3>2. Coded(more, ends, n, left)
      BY <2>1, <2>5, <2>9, <3>1
    <3>. QED
      BY <1>1, <3>2, CodedStays
  <2>11. Coded(more, ends, pos, code)'
    BY <1>1, <2>5, <2>9, <2>10
  <2>12. (writerByte < Power(2)[writerCount])'
    <3>1. places[Len(bits) + 1] \in Place
      <4>1. places \in [1 .. Len(bits) + 1 -> Place]
        BY <2>4 DEF Packed, Trail
      <4>. QED
        BY <2>7, <4>1
    <3>2. WriterOK'
      BY <2>2, <2>3, <2>4, <3>1, NewBitIsHeld
    <3>. QED
      BY <3>2 DEF WriterOK
  <2>13. Packed(more, longer)'
    BY <2>5, <2>6
  <2>. QED
    BY <2>8, <2>11, <2>12, <2>13 DEF Encoding
<1>. QED
  BY <1>1, <1>3 DEF CodingInv

LEMMA CodingFlushes ==
  ASSUME EncoderInv, CodingInv, WriterInv, FlushBits
  PROVE  CodingInv'
<1>1. /\ compressed = "encoding" /\ code = <<>> /\ pos = Len(input)
      /\ UNCHANGED <<input, frequencies, nodes, pos, code>>
      /\ compressed' \in {"ok", "failed"} /\ (compressed' = "ok" => outGood')
  BY DEF FlushBits
<1>2. ManyValues /\ ManyValues'
  BY <1>1 DEF WriterInv, ManyValues
<1>3. ASSUME outGood'
      PROVE  (\E bits, places, ends : Coded(bits, ends, Len(input), <<>>) /\ Flushed(bits, places))'
  <2>1. /\ outGood
        /\ \/ writerCount > 0 /\ payload' = Append(payload, LastByte) /\ LastByte \in Byte
           \/ ~(writerCount > 0) /\ payload' = payload
    BY <1>3, LastIsByte DEF FlushBits, Put
  <2>2. WriterOK
    BY <1>1, <2>1 DEF CodingInv, Encoding, WriterOK, EncoderInv, CompressTypeOK
  <2>3. PICK bits, places, ends :
          /\ Coded(bits, ends, pos, code) /\ Packed(bits, places)
          /\ places[Len(bits) + 1] = WriterPlace
    BY <1>1, <2>1 DEF CodingInv, Encoding
  <2>4. Flushed(bits, places)'
    BY <1>1, <2>1, <2>2, <2>3, BitsAreFlushed
  <2>5. PICK n, left : n = Len(input) /\ left = <<>>
    OBVIOUS
  <2>6. Coded(bits, ends, n, left)'
    <3>1. Coded(bits, ends, n, left)
      BY <1>1, <2>3, <2>5
    <3>. QED
      BY <1>1, <3>1, CodedStays
  <2>7. n = Len(input') /\ left = <<>>
    BY <1>1, <2>5
  <2>8. Coded(bits, ends, Len(input), <<>>)'
    BY <2>6, <2>7
  <2>. QED
    BY <2>4, <2>8
<1>. QED
  BY <1>1, <1>2, <1>3 DEF CodingInv

LEMMA CodingStays == CodingInv /\ UNCHANGED compressVars => CodingInv'
<1>. SUFFICES ASSUME CodingInv, UNCHANGED compressVars PROVE CodingInv'
  OBVIOUS
<1>1. UNCHANGED <<input, frequencies, nodes, pos, code, writerByte, writerCount, payload, outGood,
                  compressed>>
  BY DEF compressVars, writerVars
<1>2. Table' = Table /\ ManyValues' = ManyValues /\ WriterPlace' = WriterPlace
  BY <1>1 DEF Table, ManyValues, WriterPlace
<1>3. compressed = "encoding" /\ outGood => Encoding'
  <2>. SUFFICES ASSUME compressed = "encoding", outGood PROVE Encoding'
    OBVIOUS
  <2>1. PICK bits, places, ends :
          /\ Coded(bits, ends, pos, code) /\ Packed(bits, places)
          /\ places[Len(bits) + 1] = WriterPlace
    BY DEF CodingInv, Encoding
  <2>2. PICK n, left : n = pos /\ left = code
    OBVIOUS
  <2>3. Coded(bits, ends, n, left)'
    BY <1>1, <2>1, <2>2, CodedStays
  <2>4. Coded(bits, ends, pos, code)' /\ Packed(bits, places)'
    BY <1>1, <2>1, <2>2, <2>3, PackedStays
  <2>. QED
    BY <1>1, <1>2, <2>1, <2>4 DEF Encoding, CodingInv
<1>4. compressed = "ok" /\ ManyValues =>
        (\E bits, places, ends : Coded(bits, ends, Len(input), <<>>) /\ Flushed(bits, places))'
  <2>. SUFFICES ASSUME compressed = "ok", ManyValues
       PROVE (\E bits, places, ends : Coded(bits, ends, Len(input), <<>>) /\ Flushed(bits, places))'
    OBVIOUS
  <2>1. PICK bits, places, ends : Coded(bits, ends, Len(input), <<>>) /\ Flushed(bits, places)
    BY DEF CodingInv
  <2>2. PICK n, left : n = Len(input) /\ left = <<>>
    OBVIOUS
  <2>3. Coded(bits, ends, n, left)'
    BY <1>1, <2>1, <2>2, CodedStays
  <2>4. Coded(bits, ends, Len(input), <<>>)' /\ Flushed(bits, places)'
    BY <1>1, <2>1, <2>2, <2>3, PackedStays
  <2>. QED
    BY <2>4
<1>. QED
  BY <1>1, <1>2, <1>3, <1>4 DEF CodingInv

LEMMA CodingStep ==
  ASSUME EncoderInv, EncoderInv', WriterInv, CodingInv, CompressNext
  PROVE  CodingInv'
<1>1. CASE MergeNodes
  BY <1>1 DEF MergeNodes, CodingInv, writerVars, Table
<1>. QED
  BY <1>1, CodingCounts, CodingRewinds, CodingTakes, CodingWrites, CodingFlushes DEF CompressNext

-----------------------------------------------------------------------------
(***************************************************************************)
(* The sum of the frequencies.                                             *)
(***************************************************************************)
\* Where the input has the values of the first e entries.
ReadSoFar(e) == {i \in 1 .. Len(input) : \E k \in 1 .. e : input[i] = EntryValue(k)}

LEMMA InputIsFinite ==
  ASSUME input \in Inputs
  PROVE  /\ input \in Seq(Byte) /\ Len(input) \in Nat /\ Len(input) < SizeMod
         /\ IsFiniteSet(1 .. Len(input)) /\ Cardinality(1 .. Len(input)) = Len(input)
<1>1. input \in Seq(Byte) /\ Len(input) < SizeMod /\ Len(input) \in Nat
  BY InputsAssumption, LenProperties
<1>. DEFINE n == Len(input)
<1>2. n \in Nat /\ n \in Int /\ 1 \in Int
  BY <1>1
<1>. HIDE DEF n
<1>3. IsFiniteSet(1 .. n) /\ Cardinality(1 .. n) = IF 1 > n THEN 0 ELSE n - 1 + 1
  BY <1>2, FS_Interval
<1>4. Cardinality(1 .. n) = n
  BY <1>2, <1>3
<1>. QED
  BY <1>1, <1>3, <1>4 DEF n

\* An entry adds the places of its value, which no earlier entry has.
LEMMA SumGrows ==
  ASSUME input \in Inputs, frequencies = Count(input), NEW e \in Nat,
         e + 1 \in 1 .. Cardinality(Occurring(frequencies))
  PROVE  /\ Cardinality(ReadSoFar(e + 1)) = Cardinality(ReadSoFar(e)) + frequencies[EntryValue(e + 1)]
         /\ Cardinality(ReadSoFar(e + 1)) \in Nat /\ Cardinality(ReadSoFar(e + 1)) < SizeMod
<1>. DEFINE n == Cardinality(Occurring(frequencies))
            x == EntryValue(e + 1)
            new == {i \in 1 .. Len(input) : input[i] = x}
            a == ReadSoFar(e)
            b == ReadSoFar(e + 1)
<1>1. /\ Len(input) \in Nat /\ Len(input) < SizeMod /\ SizeMod \in Nat
      /\ IsFiniteSet(1 .. Len(input)) /\ Cardinality(1 .. Len(input)) = Len(input)
  BY InputIsFinite, ByteStreamAssumption
<1>2. frequencies \in Frequencies
  BY CountFacts
<1>3. /\ \A j, k \in 1 .. n : j < k => EntryValue(j) < EntryValue(k)
      /\ {EntryValue(k) : k \in 1 .. n} = Occurring(frequencies)
  BY <1>2, TableFacts
<1>4. x \in Byte
  BY <1>3 DEF Occurring
<1>5. frequencies[x] = Cardinality(new)
  BY <1>4, CountFacts
<1>6. b = a \cup new
  <2>1. \A j : j \in 1 .. e + 1 <=> j \in 1 .. e \/ j = e + 1
    OBVIOUS
  <2>. QED
    BY <2>1 DEF ReadSoFar
<1>7. a \cap new = {}
  <2>. SUFFICES ASSUME NEW i \in a, i \in new PROVE FALSE
    OBVIOUS
  <2>1. PICK k \in 1 .. e : input[i] = EntryValue(k)
    BY DEF ReadSoFar
  <2>2. n \in Nat
    BY <1>2, TableFacts
  <2>. HIDE DEF n
  <2>3. k \in 1 .. n /\ e + 1 \in 1 .. n /\ k < e + 1
    BY <2>2 DEF n
  <2>4. EntryValue(k) < x /\ EntryValue(k) = x
    BY <1>3, <2>1, <2>3
  <2>. QED
    BY <1>4, <2>4, ByteStreamAssumption DEF Byte
<1>8. a \in SUBSET (1 .. Len(input)) /\ b \in SUBSET (1 .. Len(input)) /\ new \in SUBSET (1 .. Len(input))
  BY DEF ReadSoFar
<1>. HIDE DEF a, b, new
<1>9. /\ IsFiniteSet(a) /\ IsFiniteSet(new)
      /\ Cardinality(b) \in Nat /\ Cardinality(b) <= Len(input)
      /\ Cardinality(a) \in Nat /\ Cardinality(new) \in Nat
  BY <1>1, <1>8, FS_Subset, FS_CardinalityType
<1>10. Cardinality(a \cup new) = Cardinality(a) + Cardinality(new) - Cardinality(a \cap new)
  BY <1>9, FS_Union
<1>11. Cardinality({}) = 0
  BY FS_EmptySet
<1>12. Cardinality(b) = Cardinality(a) + Cardinality(new)
  <2>1. Cardinality(b) = Cardinality(a \cup new) /\ Cardinality(a \cap new) = Cardinality({})
    BY <1>6, <1>7, Zenon
  <2>2. Cardinality(b) = Cardinality(a) + Cardinality(new) - 0
    BY <1>10, <1>11, <2>1
  <2>. QED
    BY <1>9, <2>2
<1>13. Cardinality(b) < SizeMod
  BY <1>1, <1>9
<1>14. Cardinality(b) = Cardinality(a) + frequencies[x] /\ Cardinality(b) \in Nat
  BY <1>5, <1>9, <1>12
<1>. QED
  BY <1>13, <1>14 DEF a, b

\* All entries together have every place.
LEMMA SumIsLength ==
  ASSUME input \in Inputs, frequencies = Count(input)
  PROVE  Cardinality(ReadSoFar(Cardinality(Occurring(frequencies)))) = Len(input)
<1>. DEFINE n == Cardinality(Occurring(frequencies))
<1>1. frequencies \in Frequencies /\ \A i \in 1 .. Len(input) : input[i] \in Occurring(frequencies)
  BY CountFacts
<1>2. {EntryValue(k) : k \in 1 .. n} = Occurring(frequencies)
  BY <1>1, TableFacts
<1>3. ReadSoFar(n) = 1 .. Len(input)
  <2>. HIDE DEF n
  <2>. QED
    BY <1>1, <1>2 DEF ReadSoFar
<1>. QED
  BY <1>3, InputIsFinite

LEMMA NothingSummed == Cardinality(ReadSoFar(0)) = 0
<1>1. ReadSoFar(0) = {}
  BY DEF ReadSoFar
<1>. QED
  BY <1>1, FS_EmptySet

-----------------------------------------------------------------------------
(***************************************************************************)
(* The decoder reads the codes the encoder wrote.                          *)
(***************************************************************************)
\* The place of the bit that will be read next.
ReaderPlace ==
  IF readerCount > 0 THEN <<at, readerCount - 1>> ELSE <<at + 1, BitsPerByte - 1>>

\* The decoder is behind the codes of the bytes it decoded, as far into the next
\* one as its path leads.
Followed(bits, places, ends) ==
  /\ Coded(bits, ends, Len(input), <<>>) /\ Flushed(bits, places)
  /\ places[ends[decoded] + Len(path) + 1] = ReaderPlace
  /\ decoded < Len(input) =>
       /\ Len(path) <= Len(CodeOf(decoded + 1))
       /\ \A i \in 1 .. Len(path) : path[i] = CodeOf(decoded + 1)[i]
  /\ decoded = Len(input) => path = <<>>

Following ==
  /\ readerCount > 0 => at >= 1 /\ readerByte = stream[at]
  /\ \E bits, places, ends : Followed(bits, places, ends)

\* All bytes decoded so far are the input's.
Restored ==
  /\ Len(out) + Len(outBuf) <= Len(input)
  /\ \A i \in 1 .. Len(out) : out[i] = input[i]
  /\ \A i \in 1 .. Len(outBuf) : outBuf[i] = input[Len(out) + i]

\* What arrived, as far as the damage says.
Delivered ==
  /\ damage \in {"none", "resized"} => stream = payload
  /\ damage \in {"none", "truncated", "extended"} => expected = Len(input)
  /\ damage = "truncated" => Len(stream) < Len(payload)
  /\ damage = "resized" => expected # Len(input)

RestoreInv ==
  /\ stage = "idle" => damage = "none"
  /\ stage # "idle" => Delivered
  /\ stage \in {"idle", "counting"} => sum = 0
  /\ stage \notin {"decoding", "accepted", "rejected"} => readerCount = 0
  /\ ~Altered => Restored
  /\ stage = "reading" /\ ~Altered => sum = Cardinality(ReadSoFar(entriesRead))
  /\ stage \in {"filling", "building", "decoding", "accepted"} /\ ~Altered =>
       expected = Len(input)
  /\ stage \in {"filling", "building"} /\ ~Altered => at = Len(Table)
  /\ stage = "filling" /\ ~Altered => ~ManyValues /\ table = frequencies
  /\ stage = "decoding" /\ ~Altered => Following
  /\ stage = "accepted" /\ ~Altered => Len(payload) <= Len(stream)
  /\ stage = "rejected" /\ damage = "none" => sink = "failed"

\* The tree the decoder follows.
LEMMA TreeIsFollowed ==
  ASSUME IInv, WriterInv, ReaderInv, stage = "decoding", ~Altered
  PROVE  /\ compressed = "ok" /\ ManyValues
         /\ CodesPrefixFree(Root(nodes)) /\ Codes = Root(nodes).codes
         /\ DOMAIN Codes = Values(Root(nodes))
         /\ \A k \in 1 .. Len(input) : input[k] \in DOMAIN Codes /\ CodeOf(k) = Codes[input[k]]
         /\ \A v \in DOMAIN Codes : Codes[v] \in Seq(Bit)
<1>1. ManyValues /\ BuiltFrom(frequencies, heap) /\ IsTree(heap) /\ compressed = "ok"
  BY DEF ReaderInv
<1>2. BuiltFrom(frequencies, nodes) /\ IsTree(nodes)
  BY <1>1 DEF WriterInv
<1>3. frequencies \in Frequencies /\ frequencies = Count(input) /\ input \in Inputs
  BY <1>1, SeesTable DEF WriterInv, IInv, EncoderInv, CompressTypeOK
<1>4. heap = nodes
  BY <1>1, <1>2, <1>3, TreeIsUnique
<1>5. /\ Forest(nodes) /\ IsFiniteSet(nodes)
      /\ Leaves(nodes) = {x \in Byte : frequencies[x] > 0}
  BY <1>2, <1>3, BuiltIsForest
<1>6. PICK node : nodes = {node}
  BY <1>2, <1>5, FS_Singleton DEF IsTree
<1>7. Root(nodes) = node
  BY <1>6 DEF Root
<1>8. NodeTypeOK(node) /\ CodesPrefixFree(node) /\ Values(node) = Leaves(nodes)
  BY <1>5, <1>6 DEF Forest, Leaves
<1>9. Codes = node.codes /\ DOMAIN Codes = Values(node)
  BY <1>4, <1>7 DEF Codes, Values
<1>10. \A k \in 1 .. Len(input) : input[k] \in Values(node) /\ CodeOf(k) = Codes[input[k]]
  BY <1>3, <1>5, <1>7, <1>8, <1>9, CountFacts DEF Occurring, CodeOf
<1>. QED
  BY <1>1, <1>7, <1>8, <1>9, <1>10 DEF NodeTypeOK

LEMMA EndsAreWithin ==
  ASSUME NEW n \in Nat, NEW bits, NEW ends, Coded(bits, ends, n, <<>>)
  PROVE  /\ Len(bits) \in Nat /\ bits \in Seq(Bit)
         /\ \A k \in 0 .. n : ends[k] \in Nat /\ ends[k] <= Len(bits)
         /\ ends[n] = Len(bits)
         /\ \A k \in 0 .. n - 1 : ends[k + 1] = ends[k] + Len(CodeOf(k + 1))
<1>1. /\ bits \in Seq(Bit) /\ ends \in [0 .. n -> Nat]
      /\ ends[n] = Len(bits) + Len(<<>>)
      /\ \A k \in 0 .. n - 1 : ends[k] <= Len(bits)
      /\ \A k \in 1 .. n : ends[k] = ends[k - 1] + Len(CodeOf(k))
  BY DEF Coded
<1>2. Len(<<>>) = 0 /\ Len(bits) \in Nat
  BY <1>1, EmptySeq, LenProperties
<1>3. ends[n] = Len(bits)
  BY <1>1, <1>2
<1>4. ASSUME NEW k \in 0 .. n PROVE ends[k] \in Nat /\ ends[k] <= Len(bits)
  <2>1. CASE k = n
    BY <1>2, <1>3, <2>1
  <2>2. CASE k # n
    <3>1. k \in 0 .. n - 1
      BY <2>2
    <3>. QED
      BY <1>1, <3>1
  <2>. QED
    BY <2>1, <2>2
<1>5. ASSUME NEW k \in 0 .. n - 1 PROVE ends[k + 1] = ends[k] + Len(CodeOf(k + 1))
  <2>1. k + 1 \in 1 .. n /\ (k + 1) - 1 = k
    OBVIOUS
  <2>. QED
    BY <1>1, <2>1
<1>. QED
  BY <1>1, <1>2, <1>3, <1>4, <1>5

\* While the decoder walks, the next bit is there and is its code's.
LEMMA NextBitIsCodes ==
  ASSUME IInv, WriterInv, ReaderInv, ~Altered, expected = Len(input), Walking,
         NEW bits, NEW places, NEW ends, Followed(bits, places, ends)
  PROVE  /\ decoded < Len(input)
         /\ Len(path) + 1 \in 1 .. Len(CodeOf(decoded + 1))
         /\ ends[decoded] + Len(path) + 1 \in 1 .. Len(bits)
         /\ ReaderPlace[1] <= Len(payload)
         /\ BitOf(payload[ReaderPlace[1]], ReaderPlace[2]) = CodeOf(decoded + 1)[Len(path) + 1]
         /\ IsNext(ReaderPlace, places[ends[decoded] + Len(path) + 2])
<1>. DEFINE n == Len(input)
            c == CodeOf(decoded + 1)
            l == Len(path)
            p == ends[decoded] + l + 1
<1>1. stage = "decoding" /\ decoded < n /\ ~AtLeaf
  BY DEF Walking
<1>2. decoded \in Nat /\ path \in Seq(Bit) /\ l \in Nat /\ n \in Nat
  <2>1. decoded \in 0 .. expected /\ path \in Seq(Bit) /\ input \in Inputs
    BY DEF IInv, DecoderInv, DecompressTypeOK, EncoderInv, CompressTypeOK
  <2>. QED
    BY <2>1, InputIsFinite, LenProperties
<1>3. decoded + 1 \in 1 .. n /\ decoded \in 0 .. n - 1 /\ decoded \in 0 .. n /\ decoded + 1 \in 0 .. n
  BY <1>1, <1>2
<1>4. c \in Seq(Bit) /\ Len(c) \in Nat /\ input[decoded + 1] \in DOMAIN Codes /\ c = Codes[input[decoded + 1]]
  BY <1>1, <1>3, TreeIsFollowed, LenProperties
<1>5. /\ Coded(bits, ends, n, <<>>) /\ Flushed(bits, places) /\ places[p] = ReaderPlace
      /\ l <= Len(c) /\ \A i \in 1 .. l : path[i] = c[i]
  BY <1>1 DEF Followed
<1>6. l < Len(c)
  <2>. SUFFICES ASSUME l = Len(c) PROVE FALSE
    BY <1>2, <1>4, <1>5
  <2>1. c = path
    <3>. HIDE DEF c
    <3>. QED
      BY <1>2, <1>4, <1>5, SeqEqual
  <2>. QED
    <3>. HIDE DEF c
    <3>. QED
      BY <1>1, <1>4, <2>1 DEF AtLeaf
<1>7. /\ Len(bits) \in Nat /\ ends[decoded] \in Nat /\ ends[decoded + 1] <= Len(bits)
      /\ ends[decoded + 1] = ends[decoded] + Len(c) /\ ends[decoded + 1] \in Nat
  BY <1>2, <1>3, <1>5, EndsAreWithin
<1>. HIDE DEF n, c, l
<1>8. p \in 1 .. Len(bits) /\ l + 1 \in 1 .. Len(c) /\ ends[decoded] + (l + 1) = p
      /\ p + 1 = ends[decoded] + l + 2
  <2>1. ends[decoded] + Len(c) <= Len(bits)
    BY <1>7
  <2>2. l \in Nat /\ Len(c) \in Nat /\ l < Len(c) /\ ends[decoded] \in Nat /\ Len(bits) \in Nat
    BY <1>2, <1>4, <1>6, <1>7
  <2>. QED
    BY <2>1, <2>2, SumsWithin
<1>9. bits[p] = c[l + 1]
  <2>1. \A k \in 1 .. n : \A m \in 1 .. Len(CodeOf(k)) :
          ends[k - 1] + m <= Len(bits) => bits[ends[k - 1] + m] = CodeOf(k)[m]
    BY <1>5 DEF Coded
  <2>2. (decoded + 1) - 1 = decoded
    BY <1>2
  <2>3. \A m \in 1 .. Len(c) : ends[decoded] + m <= Len(bits) => bits[ends[decoded] + m] = c[m]
    BY <1>3, <2>1, <2>2 DEF c
  <2>4. p <= Len(bits)
    BY <1>7, <1>8
  <2>. QED
    BY <1>8, <2>3, <2>4
<1>10. /\ ReaderPlace[1] <= Len(payload) /\ BitOf(payload[ReaderPlace[1]], ReaderPlace[2]) = bits[p]
       /\ IsNext(ReaderPlace, places[p + 1])
  <2>. HIDE DEF p
  <2>. QED
    BY <1>5, <1>8 DEF Flushed, Trail
<1>. QED
  BY <1>1, <1>8, <1>9, <1>10 DEF n, c, l

LEMMA RestoreGoesOn ==
  ASSUME RestoreInv, UNCHANGED <<compressVars, damage, stream, expected>>,
         stage # "idle", stage' \notin {"idle", "counting"},
         stage' \notin {"decoding", "accepted", "rejected"} => readerCount' = 0,
         ~Altered => Restored',
         stage' = "reading" /\ ~Altered => sum' = Cardinality(ReadSoFar(entriesRead')),
         stage' \in {"filling", "building", "decoding", "accepted"} /\ ~Altered =>
           expected = Len(input),
         stage' \in {"filling", "building"} /\ ~Altered => at' = Len(Table),
         stage' = "filling" /\ ~Altered => ~ManyValues /\ table' = frequencies,
         stage' = "decoding" /\ ~Altered => Following',
         stage' = "accepted" /\ ~Altered => Len(payload) <= Len(stream),
         stage' = "rejected" /\ damage = "none" => sink' = "failed"
  PROVE  RestoreInv'
<1>1. /\ UNCHANGED <<input, frequencies, payload, damage, stream, expected>>
      /\ Table' = Table /\ ManyValues' = ManyValues /\ (Altered' <=> Altered)
  BY DEF compressVars, writerVars, Table, ManyValues, Altered
<1>2. Delivered'
  BY <1>1 DEF RestoreInv, Delivered
<1>3. ReadSoFar(entriesRead)' = ReadSoFar(entriesRead')
  BY <1>1 DEF ReadSoFar, EntryValue
<1>4. /\ (stage = "idle" => damage = "none")'
      /\ (stage # "idle" => Delivered)'
      /\ (stage \in {"idle", "counting"} => sum = 0)'
      /\ (stage \notin {"decoding", "accepted", "rejected"} => readerCount = 0)'
      /\ (~Altered => Restored)'
      /\ (stage = "reading" /\ ~Altered => sum = Cardinality(ReadSoFar(entriesRead)))'
  BY <1>1, <1>2, <1>3
<1>5. /\ (stage \in {"filling", "building", "decoding", "accepted"} /\ ~Altered =>
            expected = Len(input))'
      /\ (stage \in {"filling", "building"} /\ ~Altered => at = Len(Table))'
      /\ (stage = "filling" /\ ~Altered => ~ManyValues /\ table = frequencies)'
      /\ (stage = "decoding" /\ ~Altered => Following)'
      /\ (stage = "accepted" /\ ~Altered => Len(payload) <= Len(stream))'
      /\ (stage = "rejected" /\ damage = "none" => sink = "failed")'
  BY <1>1
<1>. QED
  BY <1>4, <1>5 DEF RestoreInv

LEMMA RestoreStarts == Init => RestoreInv
<1>. SUFFICES ASSUME Init PROVE RestoreInv
  OBVIOUS
<1>1. Len(input) \in Nat /\ out = <<>> /\ outBuf = <<>>
  BY InputIsFinite DEF Init, CompressInit, DecompressInit
<1>2. Restored
  <2>1. Len(out) = 0 /\ Len(outBuf) = 0
    BY <1>1, EmptySeq
  <2>. QED
    BY <1>1, <2>1 DEF Restored
<1>. QED
  BY <1>2 DEF Init, DecompressInit, RestoreInv

\* The encoder moves only before the call.
LEMMA RestoreWaits ==
  ASSUME ReaderInv, RestoreInv, Compress
  PROVE  RestoreInv'
<1>1. compressed # "ok" /\ input' = input
  BY DEF Compress, CompressNext, CountAndWriteTable, MergeNodes, Rewind, TakeByte, WriteBit,
     FlushBits
<1>2. stage = "idle" /\ UNCHANGED <<stage, sum, readerCount, out, outBuf, damage>>
  BY <1>1 DEF ReaderInv, Compress, decompressVars, tableVars, treeVars, sinkVars
<1>3. Restored /\ damage = "none" /\ sum = 0 /\ readerCount = 0
  BY <1>2 DEF RestoreInv, Altered
<1>4. Restored'
  BY <1>1, <1>2, <1>3 DEF Restored
<1>. QED
  BY <1>2, <1>3, <1>4 DEF RestoreInv

\* What arrives.
LEMMA RestoreGets ==
  ASSUME IInv, RestoreInv, Store
  PROVE  RestoreInv'
<1>1. /\ stage = "idle" /\ stage' = "counting"
      /\ UNCHANGED <<input, payload, sum, readerCount, out, outBuf>>
  BY DEF Store, StoreIntact, StoreTruncated, StoreExtended, StoreResized, StoreAltered,
     StartDecompress, compressVars, writerVars, tableVars, treeVars, sinkVars
<1>2. payload \in Seq(Byte) /\ Len(payload) \in Nat
  BY LenProperties DEF IInv, EncoderInv, CompressTypeOK
<1>3. damage = "none" /\ Restored /\ sum = 0 /\ readerCount = 0
  BY <1>1 DEF RestoreInv, Altered
<1>4. Restored'
  BY <1>1, <1>3 DEF Restored
<1>5. Delivered'
  <2>1. CASE StoreIntact
    BY <1>1, <1>3, <2>1 DEF StoreIntact, StartDecompress, Delivered
  <2>2. CASE StoreTruncated
    <3>1. PICK n \in 0 .. Len(payload) - 1 : stream' = SubSeq(payload, 1, n)
      BY <2>2 DEF StoreTruncated, StartDecompress
    <3>2. n \in 0 .. Len(payload)
      BY <1>2
    <3>3. Len(stream') < Len(payload)
      BY <1>2, <3>1, <3>2, FrontBytes
    <3>4. expected' = Len(input) /\ damage' = "truncated"
      BY <2>2 DEF StoreTruncated, StartDecompress
    <3>. QED
      BY <1>1, <3>3, <3>4 DEF Delivered
  <2>3. CASE StoreExtended
    BY <1>1, <2>3 DEF StoreExtended, StartDecompress, Delivered
  <2>4. CASE StoreResized
    BY <1>1, <2>4 DEF StoreResized, StartDecompress, Delivered
  <2>5. CASE StoreAltered
    <3>1. damage' \in {"table altered", "bits altered"}
      BY <2>5 DEF StoreAltered
    <3>. QED
      BY <3>1 DEF Delivered
  <2>. QED
    BY <2>1, <2>2, <2>3, <2>4, <2>5 DEF Store
<1>. QED
  BY <1>1, <1>3, <1>4, <1>5 DEF RestoreInv

LEMMA RestoreStays ==
  RestoreInv /\ UNCHANGED <<compressVars, decompressVars, damage>> => RestoreInv'
<1>. SUFFICES ASSUME RestoreInv, UNCHANGED <<compressVars, decompressVars, damage>>
     PROVE  RestoreInv'
  OBVIOUS
<1>1. UNCHANGED <<input, frequencies, nodes, payload, writerByte, writerCount, damage, stream,
                  expected, stage, sum, readerCount, out, outBuf, entriesRead, at, table, sink,
                  path, decoded, readerByte>>
  BY DEF compressVars, writerVars, decompressVars, tableVars, treeVars, sinkVars
<1>2. /\ Table' = Table /\ ManyValues' = ManyValues /\ (Altered' <=> Altered)
      /\ Delivered' = Delivered /\ Restored' = Restored
      /\ ReadSoFar(entriesRead)' = ReadSoFar(entriesRead)
  BY <1>1 DEF Table, ManyValues, Altered, Delivered, Restored, ReadSoFar, EntryValue
<1>3. Following' = Following
  BY <1>1 DEF Following, Followed, Coded, CodeOf, Flushed, Trail, FirstPlace, Table, ReaderPlace
<1>4. /\ (stage = "idle" => damage = "none")'
      /\ (stage # "idle" => Delivered)'
      /\ (stage \in {"idle", "counting"} => sum = 0)'
      /\ (stage \notin {"decoding", "accepted", "rejected"} => readerCount = 0)'
      /\ (~Altered => Restored)'
      /\ (stage = "reading" /\ ~Altered => sum = Cardinality(ReadSoFar(entriesRead)))'
  BY <1>1, <1>2 DEF RestoreInv
<1>5. /\ (stage \in {"filling", "building", "decoding", "accepted"} /\ ~Altered =>
            expected = Len(input))'
      /\ (stage \in {"filling", "building"} /\ ~Altered => at = Len(Table))'
      /\ (stage = "filling" /\ ~Altered => ~ManyValues /\ table = frequencies)'
      /\ (stage = "decoding" /\ ~Altered => Following)'
      /\ (stage = "accepted" /\ ~Altered => Len(payload) <= Len(stream))'
      /\ (stage = "rejected" /\ damage = "none" => sink = "failed")'
  BY <1>1, <1>2, <1>3 DEF RestoreInv
<1>. QED
  BY <1>4, <1>5 DEF RestoreInv

-----------------------------------------------------------------------------
\* The table is read.

\* How many entries the table has.
LEMMA EntryCount ==
  ASSUME input \in Inputs, frequencies = Count(input)
  PROVE  /\ Cardinality(Occurring(frequencies)) \in 0 .. MaxByte + 1
         /\ Cardinality(Occurring(frequencies)) = 0 <=> Len(input) = 0
<1>. DEFINE S == Occurring(frequencies)
<1>1. /\ frequencies \in Frequencies /\ \A i \in 1 .. Len(input) : input[i] \in S
      /\ \A v \in Byte : frequencies[v] = Cardinality({i \in 1 .. Len(input) : input[i] = v})
  BY CountFacts
<1>2. Len(input) \in Nat
  BY InputIsFinite
<1>3. IsFiniteSet(Byte) /\ Cardinality(Byte) = MaxByte + 1
  <2>. DEFINE m == MaxByte
  <2>1. m \in Nat /\ 0 \in Int /\ m \in Int
    BY ByteStreamAssumption
  <2>2. IsFiniteSet(0 .. m) /\ Cardinality(0 .. m) = IF 0 > m THEN 0 ELSE m - 0 + 1
    BY <2>1, FS_Interval
  <2>3. Cardinality(0 .. m) = m + 1
    <3>. HIDE DEF m
    <3>. QED
      BY <2>1, <2>2
  <2>. QED
    BY <2>2, <2>3 DEF Byte
<1>4. S \in SUBSET Byte
  BY DEF Occurring
<1>5. IsFiniteSet(S) /\ Cardinality(S) <= MaxByte + 1 /\ Cardinality(S) \in Nat
  <2>. HIDE DEF S
  <2>. QED
    BY <1>3, <1>4, FS_Subset, FS_CardinalityType
<1>6. ASSUME Len(input) = 0 PROVE S = {}
  <2>1. ASSUME NEW v \in Byte PROVE ~(frequencies[v] > 0)
    <3>1. {i \in 1 .. Len(input) : input[i] = v} = {}
      BY <1>6
    <3>2. frequencies[v] = 0
      BY <1>1, <3>1, FS_EmptySet
    <3>. QED
      BY <3>2
  <2>. QED
    BY <2>1 DEF Occurring
<1>7. ASSUME Len(input) # 0 PROVE S # {}
  <2>1. 1 \in 1 .. Len(input)
    BY <1>2, <1>7
  <2>. QED
    BY <1>1, <2>1
<1>8. Cardinality(S) \in 0 .. MaxByte + 1
  <2>. HIDE DEF S
  <2>. QED
    BY <1>5, ByteStreamAssumption
<1>9. Cardinality(S) = 0 <=> S = {}
  <2>. HIDE DEF S
  <2>. QED
    BY <1>5, FS_EmptySet
<1>. QED
  BY <1>6, <1>7, <1>8, <1>9

\* What is known of the table when the decoder has begun.
LEMMA TableIsThere ==
  ASSUME IInv, WriterInv, compressed = "ok"
  PROVE  /\ input \in Inputs /\ frequencies = Count(input) /\ frequencies \in Frequencies
         /\ Len(Table) \in Nat /\ Len(payload) \in Nat /\ Len(Table) <= Len(payload)
         /\ Len(Table) = EntryStart(Cardinality(Occurring(frequencies)) + 1)
         /\ Cardinality(Occurring(frequencies)) \in Nat
         /\ CountBytes \in Nat /\ FrequencyBytes \in Nat
         /\ Cardinality(Occurring(frequencies)) # 0 => CountBytes + 1 + FrequencyBytes <= Len(Table)
<1>. DEFINE n == Cardinality(Occurring(frequencies))
<1>1. /\ input \in Inputs /\ frequencies = Count(input) /\ payload \in Seq(Byte)
      /\ frequencies \in Frequencies /\ TableFirst(payload)
  BY DEF WriterInv, IInv, EncoderInv, CompressTypeOK
<1>2. /\ Table \in Seq(Byte) /\ n \in Nat /\ Len(Table) = EntryStart(n + 1)
  BY <1>1, TableFacts
<1>3. Len(Table) \in Nat /\ Len(payload) \in Nat /\ Len(Table) <= Len(payload)
  BY <1>1, <1>2, LenProperties DEF TableFirst
<1>. HIDE DEF n
<1>4. n # 0 => CountBytes + 1 + FrequencyBytes <= Len(Table)
  <2>. SUFFICES ASSUME n # 0 PROVE CountBytes + 1 + FrequencyBytes <= Len(Table)
    OBVIOUS
  <2>1. 1 \in 1 .. n
    BY <1>2
  <2>2. /\ EntryStart(1) = CountBytes /\ EntryStart(1 + 1) = EntryStart(1) + 1 + FrequencyBytes
        /\ EntryStart(1 + 1) <= EntryStart(n + 1)
    BY <1>2, <2>1, EntriesInOrder
  <2>. QED
    BY <1>2, <2>2
<1>. QED
  BY <1>1, <1>2, <1>3, <1>4, HuffmanAssumption DEF n

LEMMA EmptyArchive ==
  ASSUME IInv, WriterInv, CodingInv, compressed = "ok"
  PROVE  payload = ToBytes(0, CountBytes) <=> Len(input) = 0
<1>. DEFINE n == Cardinality(Occurring(frequencies))
            empty == ToBytes(0, CountBytes)
<1>1. n = 0 <=> Len(input) = 0
  BY TableIsThere, EntryCount
<1>2. /\ Len(Table) \in Nat /\ Len(payload) \in Nat /\ Len(Table) <= Len(payload)
      /\ CountBytes \in Nat /\ FrequencyBytes \in Nat
      /\ n # 0 => CountBytes + 1 + FrequencyBytes <= Len(Table)
  BY TableIsThere
<1>3. ASSUME n = 0 PROVE payload = empty
  <2>1. ~ManyValues
    BY <1>3 DEF ManyValues
  <2>. QED
    BY <1>3, <2>1, TableIsThere, TableFacts DEF CodingInv
<1>4. Len(empty) = CountBytes
  <2>. DEFINE S == {empty[b] : b \in 1 .. CountBytes}
  <2>1. empty \in [1 .. CountBytes -> S]
    BY DEF ToBytes
  <2>. HIDE DEF empty, S
  <2>2. empty \in Seq(S)
    BY <1>2, <2>1, SeqDef
  <2>3. Len(empty) \in Nat /\ 1 .. Len(empty) = 1 .. CountBytes
    BY <2>1, <2>2, LenProperties
  <2>. QED
    BY <1>2, <2>3
<1>5. ASSUME n # 0 PROVE payload # empty
  <2>. HIDE DEF n, empty
  <2>. QED
    BY <1>2, <1>4, <1>5
<1>. QED
  BY <1>1, <1>3, <1>5

LEMMA RestoreEmpty ==
  ASSUME IInv, WriterInv, ReaderInv, CodingInv, RestoreInv, UNCHANGED <<compressVars, damage>>,
         DecodeEmpty
  PROVE  RestoreInv'
<1>1. /\ stage = "counting" /\ expected = 0
      /\ stage' = (IF stream = ToBytes(0, CountBytes) THEN "accepted" ELSE "rejected")
      /\ UNCHANGED <<stream, expected, out, outBuf>>
  BY DEF DecodeEmpty, sinkVars
<1>2. compressed = "ok" /\ Delivered /\ UNCHANGED <<input, damage>>
  BY <1>1 DEF ReaderInv, RestoreInv, compressVars
<1>3. ~Altered => Restored'
  BY <1>1, <1>2 DEF RestoreInv, Restored
<1>4. payload = ToBytes(0, CountBytes) <=> Len(input) = 0
  BY <1>2, EmptyArchive
<1>5. Len(payload) \in Nat
  BY <1>2, TableIsThere
<1>6. damage \in {"none", "truncated", "extended", "resized", "table altered", "bits altered"}
  BY DEF IInv
<1>7. stage' = "accepted" /\ ~Altered => expected = Len(input) /\ Len(payload) <= Len(stream)
  <2>. SUFFICES ASSUME stage' = "accepted", ~Altered
       PROVE  expected = Len(input) /\ Len(payload) <= Len(stream)
    OBVIOUS
  <2>1. stream = ToBytes(0, CountBytes)
    BY <1>1
  <2>2. expected = Len(input)
    <3>1. CASE damage = "resized"
      BY <1>1, <1>2, <1>4, <2>1, <3>1 DEF Delivered
    <3>2. CASE damage # "resized"
      BY <1>2, <1>6, <3>2 DEF Delivered, Altered
    <3>. QED
      BY <3>1, <3>2
  <2>3. payload = stream
    BY <1>1, <1>4, <2>1, <2>2
  <2>. QED
    BY <1>5, <2>2, <2>3
<1>8. stage' = "rejected" /\ damage = "none" => sink' = "failed"
  BY <1>1, <1>2, <1>4 DEF Delivered
<1>. QED
  BY <1>1, <1>3, <1>7, <1>8, RestoreGoesOn

LEMMA RestoreReadsCount ==
  ASSUME IInv, WriterInv, ReaderInv, CodingInv, RestoreInv, UNCHANGED <<compressVars, damage>>,
         ReadCount
  PROVE  RestoreInv'
<1>1. /\ stage = "counting" /\ stage' = "reading"
      /\ UNCHANGED <<stream, expected, out, outBuf, sum, entriesRead, readerCount>>
  BY DEF ReadCount, sinkVars, treeVars
<1>2. UNCHANGED <<input, damage>>
  BY DEF compressVars
<1>3. ~Altered => Restored'
  BY <1>1, <1>2 DEF RestoreInv, Restored
<1>4. sum = 0 /\ entriesRead = 0 /\ readerCount = 0
  BY <1>1 DEF RestoreInv, IInv, DecoderInv, StartInv
<1>5. sum' = Cardinality(ReadSoFar(entriesRead'))
  BY <1>1, <1>4, NothingSummed
<1>. QED
  BY <1>1, <1>3, <1>4, <1>5, RestoreGoesOn

LEMMA RestoreRejectsCount ==
  ASSUME IInv, WriterInv, ReaderInv, CodingInv, RestoreInv, UNCHANGED <<compressVars, damage>>,
         RejectCount
  PROVE  RestoreInv'
<1>1. /\ stage = "counting" /\ stage' = "rejected" /\ expected # 0 /\ ~CountIsValid
      /\ UNCHANGED <<stream, expected, out, outBuf>>
  BY DEF RejectCount, sinkVars
<1>2. compressed = "ok" /\ Delivered /\ UNCHANGED <<input, damage>>
  BY <1>1 DEF ReaderInv, RestoreInv, compressVars
<1>3. ~Altered => Restored'
  BY <1>1, <1>2 DEF RestoreInv, Restored
<1>4. damage # "none"
  <2>. SUFFICES ASSUME damage = "none" PROVE FALSE
    OBVIOUS
  <2>. DEFINE n == Cardinality(Occurring(frequencies))
  <2>1. stream = payload /\ Len(input) # 0 /\ at = 0 /\ ~Altered
    BY <1>1, <1>2 DEF Delivered, Altered, IInv, DecoderInv, StartInv
  <2>2. /\ Len(Table) \in Nat /\ Len(payload) \in Nat /\ Len(Table) <= Len(payload)
        /\ CountBytes \in Nat /\ FrequencyBytes \in Nat
        /\ n # 0 => CountBytes + 1 + FrequencyBytes <= Len(Table)
        /\ input \in Inputs /\ frequencies = Count(input)
    BY <1>2, TableIsThere
  <2>3. n \in 0 .. MaxByte + 1 /\ n # 0
    BY <2>1, <2>2, EntryCount
  <2>4. ~Truncated(CountBytes)
    <3>. HIDE DEF n
    <3>. QED
      BY <2>1, <2>2, <2>3 DEF Truncated
  <2>5. AnnouncedCount = n
    BY <1>1, <2>1, <2>4, CountIsRead
  <2>. HIDE DEF n
  <2>6. AnnouncedCount \in 1 .. MaxByte + 1
    BY <2>3, <2>5, ByteStreamAssumption
  <2>. QED
    BY <1>1, <2>4, <2>6 DEF CountIsValid
<1>. QED
  BY <1>1, <1>3, <1>4, RestoreGoesOn

LEMMA RestoreReadsEntry ==
  ASSUME IInv, WriterInv, ReaderInv, CodingInv, RestoreInv, UNCHANGED <<compressVars, damage>>,
         ReadEntry
  PROVE  RestoreInv'
<1>. DEFINE f == FromBytes(Tail(NextBytes(1 + FrequencyBytes)))
<1>1. /\ stage = "reading" /\ stage' = "reading" /\ entriesRead' = entriesRead + 1
      /\ entriesRead < uniqueCount /\ ~Truncated(1 + FrequencyBytes) /\ sum' = SumWith(f)
      /\ UNCHANGED <<stream, expected, out, outBuf, readerCount>>
  BY DEF ReadEntry, sinkVars, treeVars
<1>2. compressed = "ok" /\ UNCHANGED <<input, damage>> /\ readerCount = 0
  BY <1>1 DEF ReaderInv, RestoreInv, compressVars
<1>3. ~Altered => Restored'
  BY <1>1, <1>2 DEF RestoreInv, Restored
<1>4. ASSUME ~Altered PROVE sum' = Cardinality(ReadSoFar(entriesRead'))
  <2>1. PICK e \in Nat : e = entriesRead
    BY EntriesAreCounted
  <2>2. e + 1 \in 1 .. Cardinality(Occurring(frequencies)) /\ f = frequencies[EntryValue(e + 1)]
    BY <1>1, <1>4, <2>1, EntryIsRead
  <2>3. sum = Cardinality(ReadSoFar(e))
    BY <1>1, <1>4, <2>1 DEF RestoreInv
  <2>4. /\ Cardinality(ReadSoFar(e + 1)) = Cardinality(ReadSoFar(e)) + frequencies[EntryValue(e + 1)]
        /\ Cardinality(ReadSoFar(e + 1)) \in Nat /\ Cardinality(ReadSoFar(e + 1)) < SizeMod
    <3>1. input \in Inputs /\ frequencies = Count(input)
      BY <1>2, TableIsThere
    <3>. QED
      BY <2>2, <3>1, SumGrows
  <2>5. PICK c \in Nat : c = Cardinality(ReadSoFar(e + 1)) /\ c < SizeMod
    BY <2>4
  <2>. HIDE DEF f
  <2>6. sum' = c % SizeMod
    BY <1>1, <2>2, <2>3, <2>4, <2>5 DEF SumWith
  <2>7. sum' = c
    BY <2>5, <2>6, ByteStreamAssumption
  <2>. QED
    BY <1>1, <2>1, <2>5, <2>7
<1>. QED
  BY <1>1, <1>2, <1>3, <1>4, RestoreGoesOn

LEMMA RestoreRejectsTable ==
  ASSUME IInv, WriterInv, ReaderInv, CodingInv, RestoreInv, UNCHANGED <<compressVars, damage>>,
         RejectTruncatedTable
  PROVE  RestoreInv'
<1>1. /\ stage = "reading" /\ stage' = "rejected" /\ entriesRead < uniqueCount
      /\ Truncated(1 + FrequencyBytes) /\ UNCHANGED <<stream, expected, out, outBuf>>
  BY DEF RejectTruncatedTable, sinkVars
<1>2. compressed = "ok" /\ Delivered /\ UNCHANGED <<input, damage>>
  BY <1>1 DEF ReaderInv, RestoreInv, compressVars
<1>3. ~Altered => Restored'
  BY <1>1, <1>2 DEF RestoreInv, Restored
<1>4. damage # "none"
  <2>. SUFFICES ASSUME damage = "none" PROVE FALSE
    OBVIOUS
  <2>. DEFINE n == Cardinality(Occurring(frequencies))
  <2>1. stream = payload /\ ~Altered
    BY <1>2 DEF Delivered, Altered
  <2>2. /\ Len(Table) \in Nat /\ Len(payload) \in Nat /\ Len(Table) <= Len(payload)
        /\ FrequencyBytes \in Nat /\ n \in Nat /\ Len(Table) = EntryStart(n + 1)
    BY <1>2, TableIsThere
  <2>3. uniqueCount = n /\ at = EntryStart(entriesRead + 1) /\ entriesRead \in Nat
    BY <1>1, <2>1, EntriesAreCounted DEF ReaderInv
  <2>. HIDE DEF n
  <2>4. PICK k \in 1 .. n : k = entriesRead + 1
    BY <1>1, <2>2, <2>3
  <2>5. /\ EntryStart(k + 1) = EntryStart(k) + 1 + FrequencyBytes /\ EntryStart(k) \in Nat
        /\ EntryStart(k + 1) <= EntryStart(n + 1)
    BY <2>2, EntriesInOrder
  <2>6. at = EntryStart(k)
    BY <2>3, <2>4
  <2>7. Len(payload) - at >= 1 + FrequencyBytes
    BY <2>2, <2>5, <2>6
  <2>. QED
    BY <1>1, <2>1, <2>2, <2>5, <2>6, <2>7 DEF Truncated
<1>. QED
  BY <1>1, <1>3, <1>4, RestoreGoesOn

LEMMA RestoreChecksSum ==
  ASSUME IInv, WriterInv, ReaderInv, CodingInv, RestoreInv, UNCHANGED <<compressVars, damage>>,
         CheckSum
  PROVE  RestoreInv'
<1>. DEFINE n == Cardinality(Occurring(frequencies))
<1>1. /\ stage = "reading" /\ entriesRead = uniqueCount
      /\ stage' = (IF SumMatches THEN IF uniqueCount = 1 THEN "filling" ELSE "building"
                                 ELSE "rejected")
      /\ UNCHANGED <<stream, expected, out, outBuf, readerCount, at, table>>
  BY DEF CheckSum, sinkVars, tableVars
<1>2. compressed = "ok" /\ Delivered /\ UNCHANGED <<input, damage>> /\ readerCount = 0
  BY <1>1 DEF ReaderInv, RestoreInv, compressVars
<1>3. ~Altered => Restored'
  BY <1>1, <1>2 DEF RestoreInv, Restored
<1>4. /\ input \in Inputs /\ frequencies = Count(input) /\ frequencies \in Frequencies
      /\ Len(Table) = EntryStart(n + 1)
  BY <1>2, TableIsThere
<1>5. ASSUME ~Altered
      PROVE  uniqueCount = n /\ at = Len(Table) /\ table = frequencies /\ sum = Len(input)
  <2>1. uniqueCount = n /\ at = EntryStart(n + 1) /\ table = TableOf(n)
    BY <1>1, <1>5 DEF ReaderInv
  <2>2. sum = Cardinality(ReadSoFar(n))
    BY <1>1, <1>5, <2>1 DEF RestoreInv
  <2>. QED
    BY <1>4, <2>1, <2>2, AllEntries, SumIsLength
<1>6. stage' = "filling" /\ ~Altered => ~ManyValues
  <2>. HIDE DEF n
  <2>. QED
    BY <1>1, <1>5 DEF ManyValues, n
<1>7. stage' \in {"filling", "building"} /\ ~Altered => expected = Len(input)
  BY <1>1, <1>5 DEF SumMatches
<1>8. stage' = "rejected" => damage # "none"
  BY <1>1, <1>2, <1>5 DEF SumMatches, Delivered, Altered
<1>9. stage' \in {"filling", "building", "rejected"}
  BY <1>1
<1>. QED
  BY <1>1, <1>2, <1>3, <1>5, <1>6, <1>7, <1>8, <1>9, RestoreGoesOn

-----------------------------------------------------------------------------
\* An input with one value.

\* What is written behind the output that is there.
LEMMA WritesOn ==
  ASSUME out \in Seq(Byte), NEW bytes \in Seq(Byte), NEW n \in Nat,
         Len(out) + Len(bytes) <= n, \A i \in 1 .. Len(out) : out[i] = input[i],
         \A i \in 1 .. Len(bytes) : bytes[i] = input[Len(out) + i]
  PROVE  /\ Len(out \o bytes) \in Nat /\ Len(out \o bytes) <= n
         /\ \A i \in 1 .. Len(out \o bytes) : (out \o bytes)[i] = input[i]
<1>1. /\ Len(out) \in Nat /\ Len(bytes) \in Nat
      /\ Len(out \o bytes) = Len(out) + Len(bytes)
      /\ \A i \in 1 .. Len(out) + Len(bytes) :
           (out \o bytes)[i] = IF i <= Len(out) THEN out[i] ELSE bytes[i - Len(out)]
  BY ConcatProperties, LenProperties
<1>2. ASSUME NEW i \in 1 .. Len(out) + Len(bytes) PROVE (out \o bytes)[i] = input[i]
  <2>1. CASE i <= Len(out)
    <3>1. i \in 1 .. Len(out)
      BY <1>1, <2>1
    <3>. QED
      BY <1>1, <1>2, <2>1, <3>1
  <2>2. CASE ~(i <= Len(out))
    <3>1. i - Len(out) \in 1 .. Len(bytes) /\ Len(out) + (i - Len(out)) = i
      BY <1>1, <2>2
    <3>2. (out \o bytes)[i] = bytes[i - Len(out)]
      BY <1>1, <2>2
    <3>3. bytes[i - Len(out)] = input[Len(out) + (i - Len(out))]
      BY <3>1
    <3>. QED
      BY <3>1, <3>2, <3>3
  <2>. QED
    BY <2>1, <2>2
<1>. QED
  BY <1>1, <1>2

\* The same of a write that fails on its way.
LEMMA WritesSome ==
  ASSUME out \in Seq(Byte), NEW bytes \in Seq(Byte), NEW n \in Nat, WriteFails(bytes),
         Len(out) + Len(bytes) <= n, \A i \in 1 .. Len(out) : out[i] = input[i],
         \A i \in 1 .. Len(bytes) : bytes[i] = input[Len(out) + i]
  PROVE  /\ Len(out') \in Nat /\ Len(out') <= n
         /\ \A i \in 1 .. Len(out') : out'[i] = input[i]
<1>1. PICK k \in 0 .. Len(bytes) : out' = out \o SubSeq(bytes, 1, k)
  BY DEF WriteFails
<1>. DEFINE some == SubSeq(bytes, 1, k)
<1>2. Len(bytes) \in Nat /\ Len(out) \in Nat
  BY LenProperties
<1>3. \A i \in 1 .. k : bytes[i] \in Byte
  BY <1>2, ElementOfSeq
<1>4. some \in Seq(Byte) /\ Len(some) = k
  BY FrontBytes
<1>5. \A i \in 1 .. k : some[i] = bytes[i]
  <2>1. k \in Int /\ 1 \in Int
    BY <1>2
  <2>2. \A i \in 1 .. k - 1 + 1 : SubSeq(bytes, 1, k)[i] = bytes[1 + i - 1]
    BY <1>3, <2>1, SubSeqProperties
  <2>3. \A i \in 1 .. k : i \in 1 .. k - 1 + 1 /\ 1 + i - 1 = i
    BY <2>1
  <2>. QED
    BY <2>2, <2>3
<1>. HIDE DEF some
<1>6. Len(out) + Len(some) <= n
  BY <1>2, <1>4
<1>7. ASSUME NEW i \in 1 .. Len(some) PROVE some[i] = input[Len(out) + i]
  <2>1. i \in 1 .. k /\ i \in 1 .. Len(bytes)
    BY <1>2, <1>4
  <2>. QED
    BY <1>5, <2>1
<1>8. /\ Len(out \o some) \in Nat /\ Len(out \o some) <= n
      /\ \A i \in 1 .. Len(out \o some) : (out \o some)[i] = input[i]
  BY <1>4, <1>6, <1>7, WritesOn
<1>. QED
  BY <1>1, <1>8 DEF some

LEMMA ChunkIsInput ==
  ASSUME IInv, WriterInv, ReaderInv, RestoreInv, stage = "filling", decoded < expected, ~Altered
  PROVE  /\ Chunk \in Seq(Byte) /\ out \in Seq(Byte) /\ outBuf = <<>>
         /\ Len(input) \in Nat /\ Len(out) + Len(Chunk) <= Len(input)
         /\ \A i \in 1 .. Len(out) : out[i] = input[i]
         /\ \A i \in 1 .. Len(Chunk) : Chunk[i] = input[Len(out) + i]
<1>. DEFINE S == Occurring(frequencies)
<1>1. /\ Chunk \in Seq(Byte) /\ Len(Chunk) \in 1 .. expected - decoded /\ out \in Seq(Byte)
      /\ decoded \in 0 .. expected /\ expected = Len(input) /\ table = frequencies /\ ~ManyValues
  BY ChunkFacts DEF IInv, DecoderInv, DecompressTypeOK, RestoreInv
<1>2. Len(input) \in Nat /\ Len(out) \in Nat /\ Len(Chunk) \in Nat
  BY <1>1, InputIsFinite, LenProperties DEF IInv, EncoderInv, CompressTypeOK
<1>3. outBuf = <<>> /\ Len(out) = decoded
  <2>1. outBuf = <<>> /\ Len(out) + Len(outBuf) = decoded
    BY DEF IInv, DecoderInv, StartInv, CountInv
  <2>2. Len(<<>>) = 0
    BY EmptySeq
  <2>. QED
    BY <1>2, <2>1, <2>2
<1>4. compressed = "ok"
  BY DEF ReaderInv
<1>5. /\ frequencies \in Frequencies /\ \A i \in 1 .. Len(input) : input[i] \in S
      /\ Cardinality(S) \in Nat
  BY <1>4, TableIsThere, CountFacts
<1>6. PICK c : S = {c}
  <2>1. IsFiniteSet(Byte) /\ S \in SUBSET Byte
    BY ByteStreamAssumption, FS_Interval DEF Byte, Occurring
  <2>2. IsFiniteSet(S)
    <3>. HIDE DEF S
    <3>. QED
      BY <2>1, FS_Subset
  <2>3. S # {}
    <3>1. 1 \in 1 .. Len(input)
      BY <1>1, <1>2
    <3>. QED
      BY <1>5, <3>1
  <2>4. Cardinality(S) <= 1
    BY <1>1 DEF ManyValues
  <2>. HIDE DEF S
  <2>5. Cardinality(S) # 0
    BY <2>2, <2>3, FS_EmptySet
  <2>6. Cardinality(S) = 1
    BY <1>5, <2>4, <2>5
  <2>. QED
    BY <2>2, <2>6, FS_Singleton
<1>7. SingleChar = c
  <2>1. S \subseteq Nat
    BY ByteStreamAssumption DEF Occurring, Byte
  <2>2. SingleChar = IF S = {} THEN 0 ELSE Min(S)
    BY <1>1 DEF SingleChar
  <2>. HIDE DEF S
  <2>3. Min(S) \in S
    BY <1>6, <2>1, MinIsLeast
  <2>. QED
    BY <1>6, <2>2, <2>3
<1>8. \A i \in 1 .. Len(Chunk) : Chunk[i] = c
  <2>1. DOMAIN Chunk = 1 .. Len(Chunk)
    BY <1>1, LenProperties
  <2>2. \A i \in DOMAIN Chunk : Chunk[i] = SingleChar
    BY DEF Chunk
  <2>. QED
    BY <1>7, <2>1, <2>2
<1>9. \A i \in 1 .. Len(input) : input[i] = c
  BY <1>5, <1>6
<1>. HIDE DEF S
<1>10. Len(out) + Len(Chunk) <= Len(input)
  BY <1>1, <1>2, <1>3
<1>11. ASSUME NEW i \in 1 .. Len(Chunk) PROVE Chunk[i] = input[Len(out) + i]
  <2>1. Len(out) + i \in 1 .. Len(input)
    BY <1>2, <1>10
  <2>. QED
    BY <1>8, <1>9, <2>1
<1>12. \A i \in 1 .. Len(out) : out[i] = input[i]
  BY DEF RestoreInv, Restored
<1>. QED
  BY <1>1, <1>2, <1>3, <1>10, <1>11, <1>12

\* Nothing is in the buffer, and what is in the sink is the input's.
LEMMA RestoredWithoutBuffer ==
  ASSUME outBuf' = <<>>, input' = input, Len(out') \in Nat, Len(out') <= Len(input),
         \A i \in 1 .. Len(out') : out'[i] = input[i]
  PROVE  Restored'
<1>1. Len(outBuf') = 0
  BY EmptySeq
<1>2. Len(out') + Len(outBuf') <= Len(input)
  BY <1>1
<1>3. \A i \in 1 .. Len(outBuf') : FALSE
  BY <1>1
<1>. QED
  BY <1>2, <1>3 DEF Restored

LEMMA RestoreFills ==
  ASSUME IInv, WriterInv, ReaderInv, CodingInv, RestoreInv, UNCHANGED <<compressVars, damage>>,
         Fill \/ FillFails
  PROVE  RestoreInv'
<1>1. /\ stage = "filling" /\ decoded < expected
      /\ UNCHANGED <<stream, expected, outBuf, readerCount, at, table>>
  BY DEF Fill, FillFails, tableVars, treeVars
<1>2. /\ Fill => out' = out \o Chunk /\ stage' = "filling"
      /\ FillFails => WriteFails(Chunk) /\ stage' = "rejected" /\ sink' = "failed"
  BY DEF Fill, FillFails, Written, WriteFails
<1>3. UNCHANGED <<input, damage>>
  BY DEF compressVars
<1>4. ASSUME ~Altered PROVE Restored'
  <2>1. /\ Chunk \in Seq(Byte) /\ out \in Seq(Byte) /\ outBuf = <<>>
        /\ Len(input) \in Nat /\ Len(out) + Len(Chunk) <= Len(input)
        /\ \A i \in 1 .. Len(out) : out[i] = input[i]
        /\ \A i \in 1 .. Len(Chunk) : Chunk[i] = input[Len(out) + i]
    BY <1>1, <1>4, ChunkIsInput
  <2>. DEFINE l == Len(input)
              bytes == Chunk
  <2>2. /\ bytes \in Seq(Byte) /\ l \in Nat /\ Len(out) + Len(bytes) <= l
        /\ \A i \in 1 .. Len(bytes) : bytes[i] = input[Len(out) + i]
    BY <2>1
  <2>. HIDE DEF l, bytes
  <2>3. CASE Fill
    <3>1. /\ Len(out \o bytes) \in Nat /\ Len(out \o bytes) <= l
          /\ \A i \in 1 .. Len(out \o bytes) : (out \o bytes)[i] = input[i]
      BY <2>1, <2>2, WritesOn
    <3>2. out' = out \o bytes
      BY <1>2, <2>3 DEF bytes
    <3>. QED
      BY <1>1, <1>3, <2>1, <3>1, <3>2, RestoredWithoutBuffer DEF l
  <2>4. CASE FillFails
    <3>1. WriteFails(bytes)
      BY <1>2, <2>4 DEF bytes
    <3>2. Len(out') \in Nat /\ Len(out') <= l /\ \A i \in 1 .. Len(out') : out'[i] = input[i]
      BY <2>1, <2>2, <3>1, WritesSome
    <3>. QED
      BY <1>1, <1>3, <2>1, <3>2, RestoredWithoutBuffer DEF l
  <2>. QED
    BY <2>3, <2>4
<1>5. readerCount = 0 /\ (~Altered => expected = Len(input) /\ at = Len(Table)
                                      /\ ~ManyValues /\ table = frequencies)
  BY <1>1 DEF RestoreInv
<1>6. stage' \in {"filling", "rejected"} /\ (stage' = "rejected" => sink' = "failed")
  BY <1>2
<1>. QED
  BY <1>1, <1>4, <1>5, <1>6, RestoreGoesOn

LEMMA RestoreFinishesFilling ==
  ASSUME IInv, WriterInv, ReaderInv, CodingInv, RestoreInv, UNCHANGED <<compressVars, damage>>,
         FinishFilling
  PROVE  RestoreInv'
<1>1. /\ stage = "filling" /\ stage' = "accepted" /\ UNCHANGED <<stream, expected, out, outBuf>>
  BY DEF FinishFilling, sinkVars
<1>2. compressed = "ok" /\ UNCHANGED <<input, damage>>
  BY <1>1 DEF ReaderInv, compressVars
<1>3. ~Altered => Restored'
  BY <1>1, <1>2 DEF RestoreInv, Restored
<1>4. ASSUME ~Altered PROVE expected = Len(input) /\ Len(payload) <= Len(stream)
  <2>1. expected = Len(input) /\ at = Len(Table) /\ ~ManyValues
    BY <1>1, <1>4 DEF RestoreInv
  <2>2. payload = Table
    BY <1>2, <2>1 DEF CodingInv
  <2>3. at \in 0 .. Len(stream)
    BY DEF IInv, DecoderInv, DecompressTypeOK
  <2>. QED
    BY <2>1, <2>2, <2>3
<1>. QED
  BY <1>1, <1>3, <1>4, RestoreGoesOn

-----------------------------------------------------------------------------
\* The codes are followed.
LEMMA RestoreMerges ==
  ASSUME IInv, WriterInv, ReaderInv, CodingInv, RestoreInv, UNCHANGED <<compressVars, damage>>,
         MergeHeap
  PROVE  RestoreInv'
<1>1. /\ stage = "building" /\ stage' = "building"
      /\ UNCHANGED <<stream, expected, out, outBuf, readerCount, at>>
  BY DEF MergeHeap, sinkVars
<1>2. UNCHANGED <<input, damage>>
  BY DEF compressVars
<1>3. ~Altered => Restored' /\ expected = Len(input) /\ at = Len(Table)
  BY <1>1, <1>2 DEF RestoreInv, Restored
<1>4. readerCount = 0
  BY <1>1 DEF RestoreInv
<1>. QED
  BY <1>1, <1>3, <1>4, RestoreGoesOn

\* What the decoder has followed, from what it has left.
LEMMA FollowsOn ==
  ASSUME UNCHANGED compressVars, NEW bits, NEW places, NEW ends,
         Coded(bits, ends, Len(input), <<>>), Flushed(bits, places),
         places[ends[decoded'] + Len(path') + 1] = ReaderPlace',
         decoded' < Len(input) =>
           /\ Len(path') <= Len(CodeOf(decoded' + 1))
           /\ \A i \in 1 .. Len(path') : path'[i] = CodeOf(decoded' + 1)[i],
         decoded' = Len(input) => path' = <<>>,
         readerCount' > 0 => at' >= 1 /\ readerByte' = stream'[at']
  PROVE  Following'
<1>1. UNCHANGED <<input, nodes, frequencies, payload, writerByte, writerCount>>
  BY DEF compressVars, writerVars
<1>2. PICK n, left : n = Len(input) /\ left = <<>>
  OBVIOUS
<1>3. Coded(bits, ends, n, left)' /\ Flushed(bits, places)'
  BY <1>1, <1>2, CodedStays, PackedStays
<1>4. PICK k, q : k = decoded' /\ q = path'
  OBVIOUS
<1>5. CodeOf(k + 1)' = CodeOf(k + 1)
  BY <1>1 DEF CodeOf
<1>6. (decoded < Len(input) =>
         /\ Len(path) <= Len(CodeOf(decoded + 1))
         /\ \A i \in 1 .. Len(path) : path[i] = CodeOf(decoded + 1)[i])'
  BY <1>1, <1>4, <1>5
<1>7. Followed(bits, places, ends)'
  BY <1>1, <1>2, <1>3, <1>6 DEF Followed
<1>. QED
  BY <1>7 DEF Following

LEMMA RestoreFinishesTree ==
  ASSUME IInv, WriterInv, ReaderInv, CodingInv, RestoreInv, UNCHANGED <<compressVars, damage>>,
         FinishTree
  PROVE  RestoreInv'
<1>1. /\ stage = "building" /\ stage' = IF heap = {} THEN "rejected" ELSE "decoding"
      /\ UNCHANGED <<stream, expected, out, outBuf, readerCount, at, path, decoded>>
  BY DEF FinishTree, sinkVars, treeVars
<1>2. compressed = "ok" /\ Delivered /\ UNCHANGED <<input, damage>> /\ readerCount = 0
  BY <1>1 DEF ReaderInv, RestoreInv, compressVars
<1>3. ~Altered => Restored' /\ expected = Len(input)
  BY <1>1, <1>2 DEF RestoreInv, Restored
<1>4. ASSUME ~Altered PROVE ManyValues /\ heap # {}
  <2>1. ManyValues /\ BuiltFrom(frequencies, heap) /\ frequencies \in Frequencies
    BY <1>1, <1>2, <1>4, TableIsThere DEF ReaderInv
  <2>2. Leaves(heap) = Occurring(frequencies)
    BY <2>1, BuiltIsForest DEF Occurring
  <2>3. Occurring(frequencies) # {}
    <3>. SUFFICES ASSUME Occurring(frequencies) = {} PROVE FALSE
      OBVIOUS
    <3>1. Cardinality(Occurring(frequencies)) = 0
      BY FS_EmptySet
    <3>. QED
      BY <2>1, <3>1 DEF ManyValues
  <2>. QED
    BY <2>1, <2>2, <2>3 DEF Leaves
<1>5. ASSUME ~Altered PROVE Following'
  <2>1. PICK bits, places, ends : Coded(bits, ends, Len(input), <<>>) /\ Flushed(bits, places)
    BY <1>2, <1>4, <1>5 DEF CodingInv
  <2>2. decoded = 0 /\ path = <<>> /\ at = Len(Table) /\ readerCount' = 0
    BY <1>1, <1>2, <1>5 DEF IInv, DecoderInv, StartInv, RestoreInv
  <2>3. ReaderPlace' = FirstPlace
    BY <1>1, <2>2 DEF ReaderPlace, FirstPlace
  <2>4. ends[0] = 0 /\ places[1] = FirstPlace
    BY <2>1 DEF Coded, Flushed, Trail
  <2>5. Len(path') = 0 /\ decoded' = 0 /\ path' = <<>> /\ 0 + 0 + 1 = 1 /\ 0 \in Nat
    BY <1>1, <2>2, EmptySeq
  <2>6. Len(CodeOf(decoded' + 1)) \in Nat \/ ~(decoded' < Len(input))
    <3>. SUFFICES ASSUME 0 < Len(input) PROVE Len(CodeOf(0 + 1)) \in Nat
      BY <2>5
    <3>1. Len(input) \in Nat
      BY <1>2, TableIsThere, InputIsFinite
    <3>2. 1 \in 1 .. Len(input)
      BY <3>1
    <3>3. CodeOf(1) \in Seq(Bit)
      BY <2>1, <3>2 DEF Coded
    <3>. QED
      BY <3>3, LenProperties
  <2>7. places[ends[decoded'] + Len(path') + 1] = ReaderPlace'
    BY <2>3, <2>4, <2>5
  <2>8. \A i \in 1 .. Len(path') : FALSE
    BY <2>5
  <2>9. decoded' < Len(input) => Len(path') <= Len(CodeOf(decoded' + 1))
    BY <2>5, <2>6
  <2>. QED
    BY <2>1, <2>2, <2>5, <2>7, <2>8, <2>9, FollowsOn
<1>6. stage' \in {"decoding", "rejected"} /\ (stage' = "rejected" => damage # "none")
  BY <1>1, <1>4 DEF Altered
<1>. QED
  BY <1>1, <1>3, <1>5, <1>6, RestoreGoesOn

\* What read_bit does to the place and to the path.
LEMMA BitIsRead ==
  ASSUME IInv, ReaderInv, RestoreInv, ~Altered, ReadBit, ReaderPlace[1] <= Len(payload),
         NEW place, IsNext(ReaderPlace, place)
  PROVE  /\ path' = Append(path, BitOf(payload[ReaderPlace[1]], ReaderPlace[2]))
         /\ ReaderPlace' = place
         /\ readerCount' > 0 => at' >= 1 /\ readerByte' = stream[at']
<1>1. stage = "decoding" /\ (readerCount > 0 \/ ~Truncated(1))
  BY DEF ReadBit, Walking
<1>2. /\ at \in Nat /\ at <= Len(stream) /\ readerCount \in 0 .. BitsPerByte - 1
      /\ Len(stream) \in Nat /\ BitsPerByte \in Nat \ {0}
  <2>1. at \in 0 .. Len(stream) /\ stream \in Seq(Byte) /\ readerCount \in 0 .. BitsPerByte - 1
    BY DEF IInv, DecoderInv, DecompressTypeOK
  <2>. QED
    BY <2>1, LenProperties, HuffmanAssumption
<1>3. \A i \in 1 .. Len(stream) : i <= Len(payload) => stream[i] = payload[i]
  BY <1>1 DEF ReaderInv
<1>4. readerCount > 0 => at >= 1 /\ readerByte = stream[at]
  BY <1>1 DEF RestoreInv, Following
<1>5. CASE readerCount > 0
  <2>1. /\ path' = Append(path, BitOf(readerByte, readerCount - 1))
        /\ readerCount' = readerCount - 1 /\ UNCHANGED <<at, readerByte>>
    BY <1>5 DEF ReadBit
  <2>2. ReaderPlace = <<at, readerCount - 1>>
    BY <1>5 DEF ReaderPlace
  <2>3. ReaderPlace[1] = at /\ ReaderPlace[2] = readerCount - 1
    BY <2>2
  <2>4. readerByte = payload[at]
    BY <1>2, <1>3, <1>4, <1>5, <2>3
  <2>5. ReaderPlace' = place
    <3>1. CASE readerCount - 1 = 0
      <4>1. place = <<at + 1, BitsPerByte - 1>>
        BY <2>3, <3>1 DEF IsNext
      <4>2. ~(readerCount' > 0)
        BY <2>1, <3>1
      <4>. QED
        BY <2>1, <4>1, <4>2 DEF ReaderPlace
    <3>2. CASE readerCount - 1 # 0
      <4>1. place = <<at, (readerCount - 1) - 1>>
        BY <2>3, <3>2 DEF IsNext
      <4>2. readerCount' > 0
        BY <1>2, <1>5, <2>1, <3>2
      <4>. QED
        BY <2>1, <4>1, <4>2 DEF ReaderPlace
    <3>. QED
      BY <3>1, <3>2
  <2>. QED
    BY <1>4, <1>5, <2>1, <2>3, <2>4, <2>5
<1>6. CASE ~(readerCount > 0)
  <2>1. /\ path' = Append(path, BitOf(stream[at + 1], BitsPerByte - 1))
        /\ readerCount' = BitsPerByte - 1 /\ at' = at + 1 /\ readerByte' = stream[at + 1]
    BY <1>6 DEF ReadBit
  <2>2. ReaderPlace = <<at + 1, BitsPerByte - 1>>
    BY <1>6 DEF ReaderPlace
  <2>3. ReaderPlace[1] = at + 1 /\ ReaderPlace[2] = BitsPerByte - 1
    BY <2>2
  <2>4. at + 1 \in 1 .. Len(stream)
    BY <1>1, <1>2, <1>6 DEF Truncated
  <2>5. stream[at + 1] = payload[at + 1]
    BY <1>3, <2>3, <2>4
  <2>6. ReaderPlace' = place
    <3>1. CASE BitsPerByte - 1 = 0
      <4>1. place = <<at + 1 + 1, BitsPerByte - 1>>
        BY <2>3, <3>1 DEF IsNext
      <4>2. ~(readerCount' > 0)
        BY <2>1, <3>1
      <4>. QED
        BY <2>1, <4>1, <4>2 DEF ReaderPlace
    <3>2. CASE BitsPerByte - 1 # 0
      <4>1. place = <<at + 1, (BitsPerByte - 1) - 1>>
        BY <2>3, <3>2 DEF IsNext
      <4>2. readerCount' > 0
        BY <1>2, <2>1, <3>2
      <4>. QED
        BY <2>1, <4>1, <4>2 DEF ReaderPlace
    <3>. QED
      BY <3>1, <3>2
  <2>. QED
    BY <1>2, <2>1, <2>3, <2>5, <2>6
<1>. QED
  BY <1>5, <1>6

LEMMA RestoreReadsBit ==
  ASSUME IInv, WriterInv, ReaderInv, CodingInv, RestoreInv, UNCHANGED <<compressVars, damage>>,
         ReadBit
  PROVE  RestoreInv'
<1>1. /\ stage = "decoding" /\ stage' = "decoding" /\ Walking
      /\ UNCHANGED <<stream, expected, out, outBuf, decoded>>
  BY DEF ReadBit, Walking, sinkVars
<1>2. UNCHANGED <<input, damage>>
  BY DEF compressVars
<1>3. ~Altered => Restored' /\ expected = Len(input)
  BY <1>1, <1>2 DEF RestoreInv, Restored
<1>4. ASSUME ~Altered PROVE Following'
  <2>1. PICK bits, places, ends : Followed(bits, places, ends)
    BY <1>1, <1>4 DEF RestoreInv, Following
  <2>. DEFINE c == CodeOf(decoded + 1)
              l == Len(path)
              next == places[ends[decoded] + l + 2]
  <2>2. /\ decoded < Len(input) /\ l + 1 \in 1 .. Len(c)
        /\ ReaderPlace[1] <= Len(payload)
        /\ BitOf(payload[ReaderPlace[1]], ReaderPlace[2]) = c[l + 1]
        /\ IsNext(ReaderPlace, next)
        /\ ends[decoded] + l + 1 \in 1 .. Len(bits)
    BY <1>1, <1>3, <1>4, <2>1, NextBitIsCodes
  <2>3. /\ path' = Append(path, c[l + 1]) /\ ReaderPlace' = next
        /\ readerCount' > 0 => at' >= 1 /\ readerByte' = stream[at']
    BY <1>4, <2>2, BitIsRead
  <2>4. /\ Coded(bits, ends, Len(input), <<>>) /\ Flushed(bits, places)
        /\ \A i \in 1 .. l : path[i] = c[i]
    BY <2>1, <2>2 DEF Followed
  <2>5. path \in Seq(Bit) /\ l \in Nat /\ decoded \in Nat /\ Len(input) \in Nat
    <3>1. path \in Seq(Bit) /\ decoded \in 0 .. expected /\ input \in Inputs
      BY DEF IInv, DecoderInv, DecompressTypeOK, EncoderInv, CompressTypeOK
    <3>. QED
      BY <3>1, LenProperties, InputIsFinite
  <2>6. c[l + 1] \in Bit /\ Len(c) \in Nat
    <3>1. decoded + 1 \in 1 .. Len(input)
      BY <2>2, <2>5
    <3>2. c \in Seq(Bit)
      BY <2>4, <3>1 DEF Coded
    <3>. HIDE DEF c, l
    <3>. QED
      BY <2>2, <3>2, ElementOfSeq, LenProperties
  <2>7. /\ Len(path') = l + 1 /\ path'[l + 1] = c[l + 1]
        /\ \A i \in 1 .. l : path'[i] = path[i]
    BY <2>3, <2>5, <2>6, AppendProperties
  <2>8. ends[decoded] \in Nat
    <3>1. decoded \in 0 .. Len(input)
      BY <2>2, <2>5
    <3>. QED
      BY <2>4, <2>5, <3>1, EndsAreWithin
  <2>9. Len(path') <= Len(c)
    <3>. HIDE DEF c, l
    <3>. QED
      BY <2>2, <2>6, <2>7
  <2>10. \A i \in 1 .. Len(path') : path'[i] = c[i]
    <3>. HIDE DEF c, l
    <3>1. \A i \in 1 .. l + 1 : i \in 1 .. l \/ i = l + 1
      BY <2>5
    <3>. QED
      BY <2>4, <2>7, <3>1
  <2>11. places[ends[decoded'] + Len(path') + 1] = ReaderPlace'
    <3>. HIDE DEF l
    <3>1. ends[decoded] + (l + 1) + 1 = ends[decoded] + l + 2
      BY <2>5, <2>8, OneFurther
    <3>. QED
      BY <1>1, <2>3, <2>7, <3>1
  <2>12. /\ decoded' < Len(input) =>
              /\ Len(path') <= Len(CodeOf(decoded' + 1))
              /\ \A i \in 1 .. Len(path') : path'[i] = CodeOf(decoded' + 1)[i]
         /\ ~(decoded' = Len(input))
    BY <1>1, <2>2, <2>5, <2>9, <2>10
  <2>13. readerCount' > 0 => at' >= 1 /\ readerByte' = stream'[at']
    BY <1>1, <2>3
  <2>. QED
    BY <2>4, <2>11, <2>12, <2>13, FollowsOn
<1>. QED
  BY <1>1, <1>3, <1>4, RestoreGoesOn

LEMMA RestoreRejectsBits ==
  ASSUME IInv, WriterInv, ReaderInv, CodingInv, RestoreInv, UNCHANGED <<compressVars, damage>>,
         RejectTruncatedBits
  PROVE  RestoreInv'
<1>1. /\ stage = "decoding" /\ stage' = "rejected" /\ Walking /\ readerCount = 0 /\ Truncated(1)
      /\ UNCHANGED <<stream, expected, out, outBuf>>
  BY DEF RejectTruncatedBits, Walking, sinkVars
<1>2. compressed = "ok" /\ Delivered /\ UNCHANGED <<input, damage>>
  BY <1>1 DEF ReaderInv, RestoreInv, compressVars
<1>3. ~Altered => Restored' /\ expected = Len(input)
  BY <1>1, <1>2 DEF RestoreInv, Restored
<1>4. damage # "none"
  <2>. SUFFICES ASSUME damage = "none" PROVE FALSE
    OBVIOUS
  <2>1. stream = payload /\ ~Altered
    BY <1>2 DEF Delivered, Altered
  <2>2. PICK bits, places, ends : Followed(bits, places, ends)
    BY <1>1, <2>1 DEF RestoreInv, Following
  <2>3. ReaderPlace[1] <= Len(payload)
    BY <1>1, <1>3, <2>1, <2>2, NextBitIsCodes
  <2>4. ReaderPlace[1] = at + 1
    BY <1>1 DEF ReaderPlace
  <2>5. at \in 0 .. Len(stream) /\ Len(stream) \in Nat
    BY <1>2, <2>1, TableIsThere DEF IInv, DecoderInv, DecompressTypeOK
  <2>. QED
    BY <1>1, <2>1, <2>3, <2>4, <2>5 DEF Truncated
<1>. QED
  BY <1>1, <1>3, <1>4, RestoreGoesOn

\* A leaf is reached by the code of the next byte of the input, and by no other.
LEMMA SymbolIsInput ==
  ASSUME IInv, WriterInv, ReaderInv, AtSymbol, ~Altered, expected = Len(input),
         NEW bits, NEW places, NEW ends, Followed(bits, places, ends)
  PROVE  /\ decoded < Len(input) /\ decoded \in Nat /\ Len(input) \in Nat
         /\ Symbol = input[decoded + 1]
         /\ path \in Seq(Bit) /\ ends[decoded + 1] = ends[decoded] + Len(path)
         /\ ends[decoded] \in Nat /\ \A k \in 0 .. Len(input) : ends[k] \in Nat
<1>. DEFINE c == CodeOf(decoded + 1)
            w == input[decoded + 1]
<1>1. stage = "decoding" /\ decoded < Len(input) /\ AtLeaf
  BY DEF AtSymbol
<1>2. decoded \in Nat /\ path \in Seq(Bit) /\ Len(path) \in Nat /\ Len(input) \in Nat
  <2>1. decoded \in 0 .. expected /\ path \in Seq(Bit) /\ input \in Inputs
    BY DEF IInv, DecoderInv, DecompressTypeOK, EncoderInv, CompressTypeOK
  <2>. QED
    BY <2>1, InputIsFinite, LenProperties
<1>3. /\ Codes = Root(nodes).codes /\ DOMAIN Codes = Values(Root(nodes))
      /\ CodesPrefixFree(Root(nodes)) /\ \A v \in DOMAIN Codes : Codes[v] \in Seq(Bit)
      /\ w \in DOMAIN Codes /\ c = Codes[w]
  <2>1. decoded + 1 \in 1 .. Len(input)
    BY <1>1, <1>2
  <2>. QED
    BY <1>1, <2>1, TreeIsFollowed
<1>4. Len(path) <= Len(c) /\ \A i \in 1 .. Len(path) : path[i] = c[i]
  BY <1>1 DEF Followed
<1>5. ASSUME NEW v \in DOMAIN Codes, Codes[v] = path PROVE v = w
  <2>. SUFFICES ASSUME v # w PROVE FALSE
    OBVIOUS
  <2>1. ~IsPrefix(path, Codes[w])
    BY <1>3, <1>5 DEF CodesPrefixFree
  <2>2. Codes[w] \in Seq(Bit) /\ Len(path) <= Len(Codes[w])
        /\ \A i \in 1 .. Len(path) : path[i] = Codes[w][i]
    BY <1>3, <1>4
  <2>. QED
    BY <1>2, <2>1, <2>2, PrefixByElement
<1>6. PICK v \in DOMAIN Codes : Codes[v] = path
  BY <1>1 DEF AtLeaf
<1>7. v = w /\ c = path
  BY <1>3, <1>5, <1>6
<1>8. Symbol = w
  <2>1. Symbol \in DOMAIN Codes /\ Codes[Symbol] = path
    BY <1>6 DEF Symbol
  <2>. QED
    BY <1>5, <2>1
<1>9. /\ ends[decoded + 1] = ends[decoded] + Len(c) /\ ends[decoded] \in Nat
      /\ \A k \in 0 .. Len(input) : ends[k] \in Nat
  <2>1. Coded(bits, ends, Len(input), <<>>)
    BY DEF Followed
  <2>2. decoded \in 0 .. Len(input) - 1 /\ decoded \in 0 .. Len(input)
    BY <1>1, <1>2
  <2>. QED
    BY <1>2, <2>1, <2>2, EndsAreWithin
<1>. QED
  BY <1>1, <1>2, <1>7, <1>8, <1>9

\* The buffer with the next byte.
LEMMA PushedIsInput ==
  ASSUME IInv, WriterInv, ReaderInv, RestoreInv, AtSymbol, ~Altered
  PROVE  /\ Pushed \in Seq(Byte) /\ out \in Seq(Byte) /\ Len(Pushed) \in Nat
         /\ Len(input) \in Nat /\ Len(out) + Len(Pushed) <= Len(input)
         /\ \A i \in 1 .. Len(out) : out[i] = input[i]
         /\ \A i \in 1 .. Len(Pushed) : Pushed[i] = input[Len(out) + i]
<1>1. expected = Len(input) /\ Following /\ Restored
  BY DEF AtSymbol, RestoreInv
<1>2. PICK bits, places, ends : Followed(bits, places, ends)
  BY <1>1 DEF Following
<1>3. /\ decoded < Len(input) /\ decoded \in Nat /\ Len(input) \in Nat
      /\ Symbol = input[decoded + 1]
  BY <1>1, <1>2, SymbolIsInput
<1>4. /\ Pushed \in Seq(Byte) /\ Len(Pushed) = Len(outBuf) + 1
      /\ Len(outBuf) \in Nat /\ Len(out) \in Nat /\ Len(out) + Len(outBuf) = decoded
  BY PushedFacts DEF IInv
<1>5. out \in Seq(Byte) /\ outBuf \in Seq(Byte)
  BY DEF IInv, DecoderInv, DecompressTypeOK
<1>6. /\ Pushed[Len(outBuf) + 1] = Symbol
      /\ \A i \in 1 .. Len(outBuf) : Pushed[i] = outBuf[i]
  <2>1. Symbol \in Byte
    <3>1. decoded + 1 \in 1 .. Len(input)
      BY <1>3
    <3>2. input \in Seq(Byte)
      BY InputIsFinite DEF IInv, EncoderInv, CompressTypeOK
    <3>. QED
      BY <1>3, <3>1, <3>2, ElementOfSeq
  <2>. QED
    BY <1>5, <2>1, AppendProperties DEF Pushed
<1>7. ASSUME NEW i \in 1 .. Len(Pushed) PROVE Pushed[i] = input[Len(out) + i]
  <2>1. CASE i = Len(outBuf) + 1
    <3>1. Len(out) + i = decoded + 1
      BY <1>4, <2>1
    <3>. QED
      BY <1>3, <1>6, <2>1, <3>1
  <2>2. CASE i # Len(outBuf) + 1
    <3>1. i \in 1 .. Len(outBuf)
      BY <1>4, <2>2
    <3>. QED
      BY <1>1, <1>6, <3>1 DEF Restored
  <2>. QED
    BY <2>1, <2>2
<1>8. Len(out) + Len(Pushed) <= Len(input) /\ Len(Pushed) \in Nat
  BY <1>3, <1>4
<1>. QED
  BY <1>1, <1>3, <1>4, <1>5, <1>7, <1>8 DEF Restored

LEMMA RestoreEmits ==
  ASSUME IInv, WriterInv, ReaderInv, CodingInv, RestoreInv, UNCHANGED <<compressVars, damage>>,
         Emit
  PROVE  RestoreInv'
<1>1. /\ stage = "decoding" /\ stage' = "decoding" /\ AtSymbol
      /\ decoded' = decoded + 1 /\ path' = <<>>
      /\ UNCHANGED <<stream, expected, at, readerByte, readerCount>>
  BY DEF Emit, AtSymbol
<1>2. \/ out' = out \o Pushed /\ outBuf' = <<>>
      \/ out' = out /\ outBuf' = Pushed
  BY DEF Emit, Written
<1>3. UNCHANGED <<input, damage>>
  BY DEF compressVars
<1>4. ~Altered => expected = Len(input)
  BY <1>1 DEF RestoreInv
<1>5. ASSUME ~Altered PROVE Restored'
  <2>. DEFINE bytes == Pushed
              n == Len(input)
  <2>1. /\ bytes \in Seq(Byte) /\ out \in Seq(Byte)
        /\ n \in Nat /\ Len(out) + Len(bytes) <= n
        /\ \A i \in 1 .. Len(out) : out[i] = input[i]
        /\ \A i \in 1 .. Len(bytes) : bytes[i] = input[Len(out) + i]
    BY <1>1, <1>5, PushedIsInput
  <2>. HIDE DEF bytes, n
  <2>2. CASE out' = out \o Pushed /\ outBuf' = <<>>
    <3>1. /\ Len(out \o bytes) \in Nat /\ Len(out \o bytes) <= n
          /\ \A i \in 1 .. Len(out \o bytes) : (out \o bytes)[i] = input[i]
      BY <2>1, WritesOn
    <3>2. out' = out \o bytes
      BY <2>2 DEF bytes
    <3>. QED
      BY <1>3, <2>2, <3>1, <3>2, RestoredWithoutBuffer DEF n
  <2>3. CASE out' = out /\ outBuf' = Pushed
    BY <1>3, <2>1, <2>3 DEF Restored, bytes, n
  <2>. QED
    BY <1>2, <2>2, <2>3
<1>6. ASSUME ~Altered PROVE Following'
  <2>1. PICK bits, places, ends : Followed(bits, places, ends)
    BY <1>1, <1>6 DEF RestoreInv, Following
  <2>2. /\ decoded < Len(input) /\ decoded \in Nat /\ Len(input) \in Nat
        /\ path \in Seq(Bit) /\ ends[decoded + 1] = ends[decoded] + Len(path)
        /\ ends[decoded] \in Nat
    BY <1>1, <1>4, <1>6, <2>1, SymbolIsInput
  <2>3. /\ Coded(bits, ends, Len(input), <<>>) /\ Flushed(bits, places)
        /\ places[ends[decoded] + Len(path) + 1] = ReaderPlace
    BY <2>1 DEF Followed
  <2>4. ReaderPlace' = ReaderPlace
    BY <1>1 DEF ReaderPlace
  <2>5. Len(path') = 0 /\ Len(path) \in Nat
    BY <1>1, <2>2, EmptySeq, LenProperties
  <2>6. places[ends[decoded'] + Len(path') + 1] = ReaderPlace'
    <3>1. ends[decoded + 1] + 0 + 1 = ends[decoded] + Len(path) + 1
      BY <2>2, <2>5
    <3>. QED
      BY <1>1, <2>3, <2>4, <2>5, <3>1
  <2>7. decoded' < Len(input) => Len(CodeOf(decoded' + 1)) \in Nat
    <3>. SUFFICES ASSUME decoded + 1 < Len(input) PROVE Len(CodeOf(decoded + 1 + 1)) \in Nat
      BY <1>1
    <3>1. decoded + 1 + 1 \in 1 .. Len(input)
      BY <2>2
    <3>2. CodeOf(decoded + 1 + 1) \in Seq(Bit)
      BY <2>3, <3>1 DEF Coded
    <3>. QED
      BY <3>2, LenProperties
  <2>8. decoded' < Len(input) =>
          /\ Len(path') <= Len(CodeOf(decoded' + 1))
          /\ \A i \in 1 .. Len(path') : path'[i] = CodeOf(decoded' + 1)[i]
    BY <2>5, <2>7
  <2>9. readerCount' > 0 => at' >= 1 /\ readerByte' = stream'[at']
    BY <1>1, <1>6 DEF RestoreInv, Following
  <2>. QED
    BY <1>1, <2>3, <2>6, <2>8, <2>9, FollowsOn
<1>. QED
  BY <1>1, <1>4, <1>5, <1>6, RestoreGoesOn

LEMMA RestoreEmitFails ==
  ASSUME IInv, WriterInv, ReaderInv, CodingInv, RestoreInv, UNCHANGED <<compressVars, damage>>,
         EmitFails
  PROVE  RestoreInv'
<1>1. /\ stage = "decoding" /\ stage' = "rejected" /\ AtSymbol
      /\ WriteFails(Pushed) /\ outBuf' = <<>> /\ sink' = "failed"
      /\ UNCHANGED <<stream, expected>>
  BY DEF EmitFails, AtSymbol, WriteFails
<1>2. UNCHANGED <<input, damage>>
  BY DEF compressVars
<1>3. ASSUME ~Altered PROVE Restored'
  <2>. DEFINE bytes == Pushed
              n == Len(input)
  <2>1. /\ bytes \in Seq(Byte) /\ out \in Seq(Byte)
        /\ n \in Nat /\ Len(out) + Len(bytes) <= n
        /\ \A i \in 1 .. Len(out) : out[i] = input[i]
        /\ \A i \in 1 .. Len(bytes) : bytes[i] = input[Len(out) + i]
    BY <1>1, <1>3, PushedIsInput
  <2>2. WriteFails(bytes)
    BY <1>1
  <2>. HIDE DEF bytes, n
  <2>3. Len(out') \in Nat /\ Len(out') <= n /\ \A i \in 1 .. Len(out') : out'[i] = input[i]
    BY <2>1, <2>2, WritesSome
  <2>. QED
    BY <1>1, <1>2, <2>3, RestoredWithoutBuffer DEF n
<1>. QED
  BY <1>1, <1>3, RestoreGoesOn

\* The end of the output.
LEMMA RestoreFinishes ==
  ASSUME IInv, WriterInv, ReaderInv, CodingInv, RestoreInv, UNCHANGED <<compressVars, damage>>,
         FinishDecoding \/ FinishFails
  PROVE  RestoreInv'
<1>1. /\ stage = "decoding" /\ decoded = expected /\ outBuf' = <<>>
      /\ UNCHANGED <<stream, expected>>
      /\ \/ out' = out \o outBuf /\ stage' = "accepted"
         \/ WriteFails(outBuf) /\ stage' = "rejected" /\ sink' = "failed"
  BY DEF FinishDecoding, FinishFails, Written, WriteFails
<1>2. UNCHANGED <<input, damage>> /\ compressed = "ok"
  BY <1>1 DEF compressVars, ReaderInv
<1>3. ~Altered => Restored /\ expected = Len(input) /\ Following
  BY <1>1 DEF RestoreInv
<1>4. /\ out \in Seq(Byte) /\ outBuf \in Seq(Byte) /\ Len(out) \in Nat /\ Len(outBuf) \in Nat
      /\ Len(input) \in Nat
  BY <1>2, LenProperties, TableIsThere, InputIsFinite DEF IInv, DecoderInv, DecompressTypeOK
<1>5. ASSUME ~Altered PROVE Restored'
  <2>. DEFINE bytes == outBuf
              n == Len(input)
  <2>1. /\ bytes \in Seq(Byte) /\ n \in Nat /\ Len(out) + Len(bytes) <= n
        /\ \A i \in 1 .. Len(out) : out[i] = input[i]
        /\ \A i \in 1 .. Len(bytes) : bytes[i] = input[Len(out) + i]
    BY <1>3, <1>4, <1>5 DEF Restored
  <2>2. out' = out \o bytes \/ WriteFails(bytes)
    BY <1>1
  <2>. HIDE DEF bytes, n
  <2>3. Len(out') \in Nat /\ Len(out') <= n /\ \A i \in 1 .. Len(out') : out'[i] = input[i]
    <3>1. /\ Len(out \o bytes) \in Nat /\ Len(out \o bytes) <= n
          /\ \A i \in 1 .. Len(out \o bytes) : (out \o bytes)[i] = input[i]
      BY <1>4, <2>1, WritesOn
    <3>2. CASE WriteFails(bytes)
      BY <1>4, <2>1, <3>2, WritesSome
    <3>. QED
      BY <2>2, <3>1, <3>2
  <2>. QED
    BY <1>1, <1>2, <2>3, RestoredWithoutBuffer DEF n
<1>6. ASSUME ~Altered PROVE Len(payload) <= Len(stream)
  <2>1. PICK bits, places, ends : Followed(bits, places, ends)
    BY <1>3, <1>6 DEF Following
  <2>2. /\ Coded(bits, ends, Len(input), <<>>) /\ Flushed(bits, places)
        /\ places[ends[decoded] + Len(path) + 1] = ReaderPlace /\ path = <<>>
        /\ decoded = Len(input)
    BY <1>1, <1>3, <1>6, <2>1 DEF Followed
  <2>3. ends[decoded] = Len(bits) /\ Len(bits) \in Nat
    BY <1>4, <2>2, EndsAreWithin
  <2>4. places[Len(bits) + 1] = ReaderPlace
    <3>1. Len(path) = 0
      BY <2>2, EmptySeq
    <3>2. Len(bits) + 0 + 1 = Len(bits) + 1
      BY <2>3
    <3>. QED
      BY <2>2, <2>3, <3>1, <3>2
  <2>5. /\ at \in Nat /\ at <= Len(stream) /\ readerCount \in 0 .. BitsPerByte - 1
        /\ BitsPerByte \in Nat \ {0}
    <3>1. at \in 0 .. Len(stream) /\ readerCount \in 0 .. BitsPerByte - 1 /\ stream \in Seq(Byte)
      BY DEF IInv, DecoderInv, DecompressTypeOK
    <3>. QED
      BY <3>1, LenProperties, HuffmanAssumption
  <2>6. /\ ReaderPlace[2] = BitsPerByte - 1 => Len(payload) = ReaderPlace[1] - 1
        /\ ReaderPlace[2] # BitsPerByte - 1 => Len(payload) = ReaderPlace[1]
    BY <2>2, <2>4 DEF Flushed
  <2>7. Len(payload) = at
    <3>1. CASE readerCount > 0
      <4>1. ReaderPlace[1] = at /\ ReaderPlace[2] = readerCount - 1
        BY <3>1 DEF ReaderPlace
      <4>. QED
        BY <2>5, <2>6, <4>1
    <3>2. CASE ~(readerCount > 0)
      <4>1. ReaderPlace[1] = at + 1 /\ ReaderPlace[2] = BitsPerByte - 1
        BY <3>2 DEF ReaderPlace
      <4>. QED
        BY <2>5, <2>6, <4>1
    <3>. QED
      BY <3>1, <3>2
  <2>. QED
    BY <2>5, <2>7
<1>. QED
  BY <1>1, <1>3, <1>5, <1>6, RestoreGoesOn

LEMMA RestoreStep ==
  ASSUME IInv, WriterInv, ReaderInv, CodingInv, RestoreInv, UNCHANGED <<compressVars, damage>>,
         DecompressNext
  PROVE  RestoreInv'
<1>1. CASE DecodeEmpty \/ ReadCount \/ RejectCount \/ ReadEntry \/ RejectTruncatedTable \/ CheckSum
  BY <1>1, RestoreEmpty, RestoreReadsCount, RestoreRejectsCount, RestoreReadsEntry,
     RestoreRejectsTable, RestoreChecksSum
<1>2. CASE Fill \/ FillFails \/ FinishFilling
  BY <1>2, RestoreFills, RestoreFinishesFilling
<1>3. CASE MergeHeap \/ FinishTree \/ ReadBit \/ RejectTruncatedBits
  BY <1>3, RestoreMerges, RestoreFinishesTree, RestoreReadsBit, RestoreRejectsBits
<1>4. CASE Emit \/ EmitFails \/ FinishDecoding \/ FinishFails
  BY <1>4, RestoreEmits, RestoreEmitFails, RestoreFinishes
<1>. QED
  BY <1>1, <1>2, <1>3, <1>4 DEF DecompressNext

-----------------------------------------------------------------------------
(***************************************************************************)
(* The contract.                                                           *)
(***************************************************************************)
ArchiveInv == IInv /\ WriterInv /\ ReaderInv /\ CodingInv /\ RestoreInv

\* The decoder restores what the encoder coded: the invariant of both and of what
\* they have in common, the table, the tree and the bits, holds of every reachable
\* state (huffman.cpp:17-340).
THEOREM ArchiveInductive == Spec => []ArchiveInv
<1>1. Init => WriterInv /\ ReaderInv /\ CodingInv /\ RestoreInv
  BY WriterStarts, ReaderStarts, CodingStarts, RestoreStarts DEF Init
<1>2. IInv /\ IInv' /\ ArchiveInv /\ [Next]_vars => ArchiveInv'
  <2>. SUFFICES ASSUME IInv, IInv', ArchiveInv, [Next]_vars PROVE CodingInv' /\ RestoreInv'
    BY WritersReaders DEF ArchiveInv
  <2>. USE DEF ArchiveInv
  <2>1. CASE Compress
    BY <2>1, CodingStep, RestoreWaits DEF Compress, IInv
  <2>2. CASE Store
    BY <2>2, CodingStays, RestoreGets DEF Store
  <2>3. CASE Decompress
    BY <2>3, CodingStays, RestoreStep DEF Decompress
  <2>4. CASE UNCHANGED vars
    BY <2>4, CodingStays, RestoreStays DEF vars
  <2>. QED
    BY <2>1, <2>2, <2>3, <2>4 DEF Next
<1>. QED
  BY <1>1, <1>2, InitIInv, Inductive, PTL DEF Spec, ArchiveInv

\* A prefix, byte by byte.
LEMMA PrefixOfBytes ==
  ASSUME NEW s \in Seq(Byte), NEW t \in Seq(Byte), Len(s) <= Len(t),
         \A i \in 1 .. Len(s) : s[i] = t[i]
  PROVE  IsPrefix(s, t)
<1>1. Len(s) \in Nat /\ \A i \in 1 .. Len(s) : s[i] \in Byte /\ t[i] \in Byte
  BY LenProperties, ElementOfSeq
<1>2. /\ SubSeq(s, 1, Len(s)) \in Seq(Byte) /\ SubSeq(t, 1, Len(s)) \in Seq(Byte)
      /\ Len(SubSeq(s, 1, Len(s))) = Len(s) /\ Len(SubSeq(t, 1, Len(s))) = Len(s)
  BY <1>1, SubSeqProperties
<1>3. \A i \in 1 .. Len(s) : SubSeq(s, 1, Len(s))[i] = s[i] /\ SubSeq(t, 1, Len(s))[i] = t[i]
  BY <1>1, SubSeqProperties
<1>4. SubSeq(s, 1, Len(s)) = SubSeq(t, 1, Len(s))
  BY <1>2, <1>3, SeqEqual
<1>. QED
  BY <1>4 DEF IsPrefix

LEMMA GrownByBytes ==
  ASSUME NEW s \in Seq(Byte), NEW t \in Seq(Byte)
  PROVE  IsPrefix(s, s \o t)
<1>1. /\ s \o t \in Seq(Byte) /\ Len(s) \in Nat /\ Len(t) \in Nat
      /\ Len(s \o t) = Len(s) + Len(t)
      /\ \A i \in 1 .. Len(s) + Len(t) : (s \o t)[i] = IF i <= Len(s) THEN s[i] ELSE t[i - Len(s)]
  BY ConcatProperties, LenProperties
<1>2. Len(s) <= Len(s \o t) /\ \A i \in 1 .. Len(s) : s[i] = (s \o t)[i]
  BY <1>1
<1>. QED
  BY <1>1, <1>2, PrefixOfBytes

\* The decoder only appends to the sink.
LEMMA OutGrows ==
  ASSUME IInv, DecompressNext
  PROVE  \E bytes \in Seq(Byte) : out' = out \o bytes
<1>1. out \in Seq(Byte) /\ outBuf \in Seq(Byte)
  BY DEF IInv, DecoderInv, DecompressTypeOK
<1>2. CASE UNCHANGED out
  BY <1>1, <1>2, ConcatEmptySeq, EmptySeq
<1>3. ASSUME NEW bytes \in Seq(Byte), WriteFails(bytes)
      PROVE  \E part \in Seq(Byte) : out' = out \o part
  <2>1. PICK k \in 0 .. Len(bytes) : out' = out \o SubSeq(bytes, 1, k)
    BY <1>3 DEF WriteFails
  <2>2. SubSeq(bytes, 1, k) \in Seq(Byte)
    BY SubSeqProperties
  <2>. QED
    BY <2>1, <2>2
<1>4. CASE Fill \/ FillFails
  <2>1. Chunk \in Seq(Byte)
    BY <1>4, ChunkFacts DEF Fill, FillFails, IInv, DecoderInv
  <2>. QED
    BY <1>3, <1>4, <2>1 DEF Fill, FillFails, Written
<1>5. CASE Emit \/ EmitFails
  <2>1. Pushed \in Seq(Byte)
    BY <1>5, PushedFacts DEF Emit, EmitFails, IInv
  <2>. QED
    BY <1>2, <1>3, <1>5, <2>1 DEF Emit, EmitFails, Written
<1>6. CASE FinishDecoding \/ FinishFails
  BY <1>1, <1>3, <1>6 DEF FinishDecoding, FinishFails, Written
<1>. QED
  BY <1>2, <1>4, <1>5, <1>6
     DEF DecompressNext, DecodeEmpty, ReadCount, RejectCount, ReadEntry, RejectTruncatedTable,
         CheckSum, FinishFilling, MergeHeap, FinishTree, ReadBit, RejectTruncatedBits, sinkVars

\* What the decoder changes.
LEMMA DecoderChanges ==
  ASSUME IInv, IInv', DecompressNext
  PROVE  /\ stage \notin {"idle", "accepted", "rejected"}
         /\ stage' \in {"reading", "filling", "building", "decoding", "accepted", "rejected"}
         /\ stage' # "rejected" => UNCHANGED sink
<1>1. stage' \in {"idle", "counting", "reading", "filling", "building", "decoding", "accepted",
                  "rejected"}
  BY DEF IInv, DecoderInv, DecompressTypeOK
<1>. QED
  BY <1>1
     DEF DecompressNext, DecodeEmpty, ReadCount, RejectCount, ReadEntry, RejectTruncatedTable,
         CheckSum, Fill, FillFails, FinishFilling, MergeHeap, FinishTree, ReadBit,
         RejectTruncatedBits, Emit, EmitFails, FinishDecoding, FinishFails, Walking, AtSymbol,
         Written, WriteFails, sinkVars

\* Every step of the decoder is a step of the contract or none.
LEMMA DecompressImplements ==
  ASSUME ArchiveInv, ArchiveInv', Decompress
  PROVE  Contract!ContractNext
<1>1. /\ stage \notin {"idle", "accepted", "rejected"}
      /\ stage' \in {"reading", "filling", "building", "decoding", "accepted", "rejected"}
      /\ stage' # "rejected" => UNCHANGED sink
      /\ UNCHANGED <<input, payload, damage>>
  BY DecoderChanges DEF ArchiveInv, Decompress, compressVars, writerVars
<1>2. /\ out \in Seq(Byte) /\ out' \in Seq(Byte) /\ input \in Seq(Byte)
      /\ outBuf' \in Seq(Byte) /\ sink' \in {"good", "failed"}
      /\ damage \in {"none", "truncated", "extended", "resized", "table altered", "bits altered"}
      /\ Len(out') \in Nat /\ Len(outBuf') \in Nat /\ Len(input) \in Nat
  <2>1. /\ out \in Seq(Byte) /\ out' \in Seq(Byte) /\ input \in Inputs
        /\ outBuf' \in Seq(Byte) /\ sink' \in {"good", "failed"}
        /\ damage \in {"none", "truncated", "extended", "resized", "table altered", "bits altered"}
    BY DEF ArchiveInv, IInv, EncoderInv, CompressTypeOK, DecoderInv, DecompressTypeOK
  <2>. QED
    BY <2>1, InputsAssumption, LenProperties
<1>3. IsPrefix(out, out')
  <2>1. PICK bytes \in Seq(Byte) : out' = out \o bytes
    BY OutGrows DEF ArchiveInv, Decompress
  <2>. QED
    BY <1>2, <2>1, GrownByBytes
<1>4. /\ Altered' <=> Altered
      /\ ~Altered => /\ Len(out') + Len(outBuf') <= Len(input)
                     /\ \A i \in 1 .. Len(out') : out'[i] = input[i]
  <2>1. Altered' <=> Altered
    BY <1>1 DEF Altered
  <2>2. ~Altered' => Restored'
    BY DEF ArchiveInv, RestoreInv
  <2>. QED
    BY <1>1, <2>1, <2>2 DEF Restored
<1>5. ~Altered => IsPrefix(out', input)
  <2>. SUFFICES ASSUME ~Altered PROVE IsPrefix(out', input)
    OBVIOUS
  <2>1. Len(out') + Len(outBuf') <= Len(input)
    BY <1>4
  <2>2. Len(out') <= Len(input)
    <3>1. \A x, y, z \in Nat : x + y <= z => x <= z
      OBVIOUS
    <3>2. Len(out') \in Nat /\ Len(outBuf') \in Nat /\ Len(input) \in Nat
      BY <1>2
    <3>. QED
      BY <2>1, <3>1, <3>2
  <2>. QED
    BY <1>2, <1>4, <2>2, PrefixOfBytes
<1>. DEFINE seen == IF Altered THEN "altered" ELSE damage
            verdict == IF stage \in {"accepted", "rejected"} THEN stage ELSE "pending"
<1>6. /\ seen' = seen /\ (seen = "altered" <=> Altered) /\ verdict = "pending"
      /\ seen \in {"none", "truncated", "extended", "resized", "altered"}
      /\ ~Altered => seen = damage
  <2>1. seen' = seen
    BY <1>1 DEF Altered
  <2>. QED
    BY <1>1, <1>2, <2>1 DEF Altered
<1>7. Contract!Progress
  BY <1>1, <1>2, <1>3, <1>5, <1>6
     DEF Contract!Progress, Contract!IsPrefix, Contract!Byte, IsPrefix, Byte
<1>8. CASE stage' \notin {"accepted", "rejected"}
  <2>1. Contract!Restore
    BY <1>1, <1>6, <1>7, <1>8 DEF Contract!Restore
  <2>. QED
    BY <2>1 DEF Contract!ContractNext
<1>9. CASE stage' = "accepted"
  <2>1. seen \in {"none", "altered", "extended"} /\ (~Altered => out' = input)
    <3>. SUFFICES ASSUME ~Altered PROVE damage \in {"none", "extended"} /\ out' = input
      BY <1>6
    <3>1. Len(out') = expected' /\ expected' = Len(input)
      BY <1>1, <1>4, <1>9
         DEF ArchiveInv, IInv, DecoderInv, CountInv, WithinDeclaredSize, RestoreInv
    <3>2. out' = input
      BY <1>2, <1>4, <3>1, SeqEqual
    <3>3. Len(payload) <= Len(stream')
      BY <1>1, <1>4, <1>9 DEF ArchiveInv, RestoreInv
    <3>4. /\ damage = "truncated" => Len(stream') < Len(payload)
          /\ damage = "resized" => expected' # Len(input)
      BY <1>1 DEF ArchiveInv, RestoreInv, Delivered
    <3>5. Len(payload) \in Nat /\ Len(stream') \in Nat
      <4>1. payload \in Seq(Byte) /\ stream' \in Seq(Byte)
        BY DEF ArchiveInv, IInv, EncoderInv, CompressTypeOK, DecoderInv, DecompressTypeOK
      <4>. QED
        BY <4>1, LenProperties
    <3>6. damage # "truncated" /\ damage # "resized"
      BY <3>1, <3>3, <3>4, <3>5
    <3>. QED
      BY <1>2, <3>2, <3>6 DEF Altered
  <2>2. Contract!Accept
    BY <1>1, <1>6, <1>7, <1>9, <2>1 DEF Contract!Accept
  <2>. QED
    BY <2>2 DEF Contract!ContractNext
<1>10. CASE stage' = "rejected"
  <2>1. seen # "none" \/ sink' = "failed"
    BY <1>1, <1>6, <1>10 DEF ArchiveInv, RestoreInv
  <2>2. Contract!Reject
    BY <1>1, <1>2, <1>6, <1>7, <1>10, <2>1 DEF Contract!Reject
  <2>. QED
    BY <2>2 DEF Contract!ContractNext
<1>. QED
  BY <1>8, <1>9, <1>10

\* What happens to a stored archive is what the contract says may happen to it.
LEMMA StoreDelivers ==
  ASSUME IInv, IInv', Store, RestoreInv, RestoreInv', ReaderInv
  PROVE  Contract!Deliver
<1>1. stage = "idle" /\ stage' = "counting" /\ UNCHANGED <<input, out, sink>>
  BY DEF Store, StoreIntact, StoreTruncated, StoreExtended, StoreResized, StoreAltered,
     StartDecompress, sinkVars, compressVars
<1>2. out = <<>>
  BY <1>1 DEF IInv, DecoderInv, StartInv
<1>3. (IF Altered THEN "altered" ELSE damage)' \in
        {"none", "truncated", "extended", "resized", "altered"}
  BY DEF IInv, Altered
<1>. QED
  BY <1>1, <1>2, <1>3 DEF Contract!Deliver, Contract!Damage

\* Huffman compression and decompression (huffman.cpp:17-340) implement the contract
\* of Compressor (compressor.hpp): whatever happens to the archive between the two
\* calls, the decompressor restores the source from an intact archive, left to right,
\* and only altered bytes and bytes after the end can pass unnoticed.
THEOREM HuffmanImplementsContract == Spec => ImplementsContract
<1>1. Init => Contract!ContractInit
  BY DEF Init, CompressInit, DecompressInit, Altered, Contract!ContractInit
<1>2. ArchiveInv /\ ArchiveInv' /\ [Next]_vars
        => [Contract!ContractNext]_(Contract!contractVars)
  <2>. SUFFICES ASSUME ArchiveInv, ArchiveInv', [Next]_vars
                PROVE  [Contract!ContractNext]_(Contract!contractVars)
    OBVIOUS
  <2>1. CASE Compress
    <3>1. UNCHANGED <<input, damage, out, sink, stage>>
      BY <2>1 DEF Compress, CompressNext, CountAndWriteTable, MergeNodes, Rewind, TakeByte,
         WriteBit, FlushBits, decompressVars, sinkVars
    <3>. QED
      BY <3>1 DEF Contract!contractVars, Altered
  <2>2. CASE Store
    BY <2>2, StoreDelivers DEF ArchiveInv, Contract!ContractNext
  <2>3. CASE Decompress
    BY <2>3, DecompressImplements
  <2>4. CASE UNCHANGED vars
    <3>1. UNCHANGED <<input, damage, out, sink, stage>>
      BY <2>4 DEF vars, compressVars, decompressVars, sinkVars
    <3>. QED
      BY <3>1 DEF Contract!contractVars, Altered
  <2>. QED
    BY <2>1, <2>2, <2>3, <2>4 DEF Next
<1>. QED
  BY <1>1, <1>2, ArchiveInductive, PTL DEF Spec, ImplementsContract, Contract!ContractSpec
-----------------------------------------------------------------------------
(***************************************************************************)
(* How many bytes the bits take.                                           *)
(***************************************************************************)
LEMMA QuotientIs ==
  ASSUME NEW b \in Nat \ {0}, NEW q \in Nat, NEW r \in 0 .. b - 1
  PROVE  (q * b + r) \div b = q
BY Z3

\* q whole bytes and b - 1 - y bits more fit into q or q + 1 bytes.
LEMMA BytesNeeded ==
  ASSUME NEW b \in Nat \ {0}, NEW q \in Nat, NEW y \in 0 .. b - 1
  PROVE  /\ y = b - 1 => (q * b + (b - 1 - y) + b - 1) \div b = q
         /\ y # b - 1 => (q * b + (b - 1 - y) + b - 1) \div b = q + 1
<1>1. q * b \in Nat /\ (q + 1) * b = q * b + b
  OBVIOUS
<1>2. ASSUME y = b - 1 PROVE (q * b + (b - 1 - y) + b - 1) \div b = q
  <2>1. b - 1 \in 0 .. b - 1 /\ q * b + (b - 1 - y) + b - 1 = q * b + (b - 1)
    BY <1>1, <1>2
  <2>. QED
    BY <2>1, QuotientIs
<1>3. ASSUME y # b - 1 PROVE (q * b + (b - 1 - y) + b - 1) \div b = q + 1
  <2>1. /\ b - 2 - y \in 0 .. b - 1 /\ q + 1 \in Nat
        /\ q * b + (b - 1 - y) + b - 1 = (q + 1) * b + (b - 2 - y)
    BY <1>1, <1>3
  <2>. QED
    BY <2>1, QuotientIs
<1>. QED
  BY <1>2, <1>3

LEMMA OneBitFurther ==
  ASSUME NEW b \in Nat \ {0}, NEW x \in Nat, NEW y \in 0 .. b - 1, NEW u \in Nat, NEW z \in 0 .. b - 1,
         \/ y = 0 /\ u = x + 1 /\ z = b - 1
         \/ y # 0 /\ u = x /\ z = y - 1
  PROVE  u * b + (b - 1 - z) = x * b + (b - 1 - y) + 1
<1>1. x * b \in Nat /\ (x + 1) * b = x * b + b
  OBVIOUS
<1>. QED
  BY <1>1

\* The place behind p - 1 bits.
LEMMA PlaceOfBit ==
  ASSUME NEW bits, NEW places, Trail(bits, places), Len(Table) \in Nat
  PROVE  \A p \in 1 .. Len(bits) + 1 :
           /\ places[p] \in Place /\ places[p][1] - (Len(Table) + 1) \in Nat
           /\ (places[p][1] - (Len(Table) + 1)) * BitsPerByte + (BitsPerByte - 1 - places[p][2]) = p - 1
<1>. DEFINE t == Len(Table) + 1
            B == BitsPerByte
            n == Len(bits)
            placed(p) == /\ places[p][1] - t \in Nat
                         /\ (places[p][1] - t) * B + (B - 1 - places[p][2]) = p - 1
            good == {m \in Nat : m <= n => placed(m + 1)}
<1>1. /\ n \in Nat /\ t \in Nat /\ B \in Nat \ {0} /\ places \in [1 .. n + 1 -> Place] /\ places[1] = <<t, B - 1>>
      /\ \A p \in 1 .. n : IsNext(places[p], places[p + 1])
  BY LenProperties, HuffmanAssumption DEF Trail, FirstPlace
<1>2. ASSUME NEW p \in 1 .. n + 1
      PROVE  places[p] \in Place /\ places[p][1] \in Nat /\ places[p][2] \in 0 .. B - 1
  BY <1>1 DEF Place
<1>3. 0 \in good
  <2>1. places[1][1] = t /\ places[1][2] = B - 1
    BY <1>1
  <2>2. placed(0 + 1)
    BY <1>1, <2>1
  <2>. QED
    BY <2>2
<1>4. ASSUME NEW m \in Nat, m \in good PROVE m + 1 \in good
  <2>. SUFFICES ASSUME m + 1 <= n PROVE placed((m + 1) + 1)
    OBVIOUS
  <2>1. m + 1 \in 1 .. n /\ m + 1 \in 1 .. n + 1 /\ (m + 1) + 1 \in 1 .. n + 1
    BY <1>1
  <2>2. placed(m + 1)
    BY <1>1, <1>4
  <2>. DEFINE a == places[m + 1]
              c == places[(m + 1) + 1]
  <2>3. IsNext(a, c)
    BY <1>1, <2>1
  <2>4. a[1] \in Nat /\ a[2] \in 0 .. B - 1 /\ c[1] \in Nat /\ c[2] \in 0 .. B - 1
    BY <1>2, <2>1
  <2>. HIDE DEF a, c
  <2>5. \/ a[2] = 0 /\ c[1] = a[1] + 1 /\ c[2] = B - 1
        \/ a[2] # 0 /\ c[1] = a[1] /\ c[2] = a[2] - 1
    BY <2>3 DEF IsNext
  <2>6. a[1] - t \in Nat
    BY <2>2 DEF a
  <2>7. (a[1] - t) * B + (B - 1 - a[2]) = m
    BY <2>2 DEF a
  <2>8. \/ a[2] = 0 /\ c[1] - t = (a[1] - t) + 1 /\ c[2] = B - 1
        \/ a[2] # 0 /\ c[1] - t = a[1] - t /\ c[2] = a[2] - 1
    BY <1>1, <2>4, <2>5
  <2>9. c[1] - t \in Nat
    BY <2>6, <2>8
  <2>10. (c[1] - t) * B + (B - 1 - c[2]) = (a[1] - t) * B + (B - 1 - a[2]) + 1
    <3>1. PICK x, u, y, z, b : x = a[1] - t /\ u = c[1] - t /\ y = a[2] /\ z = c[2] /\ b = B
      OBVIOUS
    <3>2. /\ b \in Nat \ {0} /\ x \in Nat /\ u \in Nat /\ y \in 0 .. b - 1 /\ z \in 0 .. b - 1
          /\ \/ y = 0 /\ u = x + 1 /\ z = b - 1
             \/ y # 0 /\ u = x /\ z = y - 1
      BY <1>1, <2>4, <2>6, <2>9, <2>8, <3>1
    <3>3. u * b + (b - 1 - z) = x * b + (b - 1 - y) + 1
      BY <3>2, OneBitFurther
    <3>. QED
      BY <3>1, <3>3
  <2>11. ((m + 1) + 1) - 1 = m + 1
    OBVIOUS
  <2>. QED
    BY <2>9, <2>10, <2>11, <2>7 DEF c
<1>. HIDE DEF good
<1>5. \A m \in Nat : m \in good
  BY <1>3, <1>4, EveryNumber
<1>6. ASSUME NEW p \in 1 .. n + 1 PROVE placed(p)
  <2>1. p - 1 \in Nat /\ p - 1 <= n /\ (p - 1) + 1 = p
    BY <1>1
  <2>2. placed((p - 1) + 1)
    BY <1>5, <2>1 DEF good
  <2>. QED
    BY <2>1, <2>2
<1>. QED
  BY <1>2, <1>6

\* The flushed bits end in the byte of the last of them.
LEMMA FlushedLength ==
  ASSUME NEW bits, NEW places, Flushed(bits, places), Len(Table) \in Nat, Len(payload) \in Nat
  PROVE  Len(payload) = Len(Table) + (Len(bits) + BitsPerByte - 1) \div BitsPerByte
<1>. DEFINE n == Len(bits)
            y == places[n + 1][2]
            q == places[n + 1][1] - (Len(Table) + 1)
            B == BitsPerByte
<1>1. Trail(bits, places) /\ n \in Nat /\ B \in Nat \ {0} /\ n + 1 \in 1 .. n + 1
  BY LenProperties, HuffmanAssumption DEF Flushed, Trail
<1>2. places[n + 1] \in Place /\ q \in Nat /\ q * B + (B - 1 - y) = (n + 1) - 1
  BY <1>1, PlaceOfBit
<1>3. y \in 0 .. B - 1 /\ places[n + 1][1] \in Nat
  BY <1>2 DEF Place
<1>8. /\ y = B - 1 => Len(payload) = places[n + 1][1] - 1
      /\ y # B - 1 => Len(payload) = places[n + 1][1]
  BY DEF Flushed
<1>4. /\ y = B - 1 => Len(payload) = Len(Table) + q
      /\ y # B - 1 => Len(payload) = Len(Table) + (q + 1)
  <2>1. places[n + 1][1] - 1 = Len(Table) + q /\ places[n + 1][1] = Len(Table) + (q + 1)
    BY <1>3
  <2>. QED
    BY <1>8, <2>1
<1>. HIDE DEF y, q, B
<1>5. /\ y = B - 1 => (q * B + (B - 1 - y) + B - 1) \div B = q
      /\ y # B - 1 => (q * B + (B - 1 - y) + B - 1) \div B = q + 1
  BY <1>1, <1>2, <1>3, BytesNeeded
<1>6. q * B + (B - 1 - y) + B - 1 = n + B - 1
  BY <1>1, <1>2
<1>. HIDE DEF n
<1>7. Len(payload) = Len(Table) + (n + B - 1) \div B
  BY <1>4, <1>5, <1>6
<1>. QED
  BY <1>7 DEF n, B

-----------------------------------------------------------------------------
\* The bits of one byte's code.
CodeLength(v) == IF IsTree(nodes) THEN Len(Root(nodes).codes[v]) ELSE 0

\* The recursion of CodeBits, where it has a solution, counts as any other count does.
LEMMA CodeBitsAre ==
  ASSUME NEW ends \in [0 .. Len(input) -> Nat], Len(input) \in Nat, ends[0] = 0,
         \A k \in 1 .. Len(input) : ends[k] = ends[k - 1] + CodeLength(input[k])
  PROVE  CodeBits = ends[Len(input)]
<1>. DEFINE n == Len(input)
            step(f, k) == IF k = 0 THEN 0 ELSE f[k - 1] + CodeLength(input[k])
            counts(f) == f = [k \in 0 .. n |-> step(f, k)]
            upTo == CHOOSE f : counts(f)
<1>1. CodeBits = upTo[n]
  BY DEF CodeBits, CodeLength
<1>2. counts(ends)
  <2>1. ASSUME NEW k \in 0 .. n PROVE ends[k] = step(ends, k)
    <3>1. k = 0 \/ k \in 1 .. n
      OBVIOUS
    <3>. QED
      BY <3>1
  <2>2. ends = [k \in 0 .. n |-> ends[k]]
    OBVIOUS
  <2>. HIDE DEF step
  <2>3. [k \in 0 .. n |-> ends[k]] = [k \in 0 .. n |-> step(ends, k)]
    BY <2>1
  <2>. QED
    BY <2>2, <2>3
<1>3. counts(upTo)
  <2>. HIDE DEF counts
  <2>. QED
    BY <1>2
<1>. DEFINE good == {k \in Nat : k <= n => upTo[k] = ends[k]}
<1>4. ASSUME NEW k \in 0 .. n PROVE upTo[k] = step(upTo, k)
  <2>. HIDE DEF upTo, step
  <2>. QED
    BY <1>3
<1>. HIDE DEF upTo
<1>5. 0 \in good
  BY <1>4
<1>6. ASSUME NEW k \in Nat, k \in good PROVE k + 1 \in good
  <2>. SUFFICES ASSUME k + 1 <= n PROVE upTo[k + 1] = ends[k + 1]
    OBVIOUS
  <2>1. k + 1 \in 0 .. n /\ k + 1 \in 1 .. n /\ k + 1 # 0 /\ (k + 1) - 1 = k /\ k <= n
    OBVIOUS
  <2>2. upTo[k + 1] = upTo[k] + CodeLength(input[k + 1])
    BY <1>4, <2>1
  <2>3. ends[k + 1] = ends[k] + CodeLength(input[k + 1])
    BY <2>1
  <2>4. upTo[k] = ends[k]
    BY <1>6, <2>1
  <2>. QED
    BY <2>2, <2>3, <2>4
<1>. HIDE DEF good
<1>7. n \in good
  BY <1>5, <1>6, EveryNumber
<1>. QED
  BY <1>1, <1>7 DEF good

\* Before there are nodes to merge, and where there are none, there is no tree.
NoTreeInv ==
  /\ compressed = "counting" => nodes = {}
  /\ compressed = "ok" /\ ~ManyValues => nodes = {}

LEMMA NoTreeStep ==
  ASSUME WriterInv, NoTreeInv, [Next]_vars
  PROVE  NoTreeInv'
<1>1. CASE UNCHANGED compressVars
  BY <1>1 DEF NoTreeInv, ManyValues, compressVars
<1>2. CASE CountAndWriteTable
  <2>1. nodes = {} /\ compressed' # "counting"
    BY <1>2 DEF CountAndWriteTable, NoTreeInv
  <2>2. ~ManyValues' => nodes' = {}
    BY <1>2, <2>1 DEF CountAndWriteTable, ManyValues
  <2>. QED
    BY <2>1, <2>2 DEF NoTreeInv
<1>3. ASSUME compressed \in {"building", "encoding"}, frequencies' = frequencies, compressed' # "counting"
      PROVE  NoTreeInv'
  <2>1. ManyValues /\ ManyValues'
    BY <1>3 DEF WriterInv, ManyValues
  <2>. QED
    BY <1>3, <2>1 DEF NoTreeInv
<1>4. CASE CompressNext /\ ~CountAndWriteTable
  BY <1>3, <1>4 DEF CompressNext, MergeNodes, Rewind, TakeByte, WriteBit, FlushBits
<1>. QED
  BY <1>1, <1>2, <1>4 DEF Next, Compress, Store, Decompress, vars

\* A finished payload is the table and the bits of the codes, in the bytes they need.
LEMMA FinishedIsPacked ==
  ASSUME IInv, ArchiveInv, NoTreeInv, compressed = "ok"
  PROVE  Len(payload) = TableLength + (CodeBits + BitsPerByte - 1) \div BitsPerByte
<1>1. /\ Len(input) \in Nat /\ Len(payload) \in Nat /\ TableLength = Len(Table) /\ Len(Table) \in Nat
  <2>1. input \in Seq(Byte) /\ payload \in Seq(Byte) /\ Table \in Seq(Byte)
    BY InputsAssumption, TableIsReadBack DEF IInv, EncoderInv, CompressTypeOK, Table
  <2>. QED
    BY <2>1, LenProperties DEF TableLength, Table
<1>2. CASE ManyValues
  <2>1. PICK bits, places, ends : Coded(bits, ends, Len(input), <<>>) /\ Flushed(bits, places)
    BY <1>2 DEF ArchiveInv, CodingInv
  <2>2. IsTree(nodes)
    BY <1>2 DEF ArchiveInv, WriterInv
  <2>3. /\ ends \in [0 .. Len(input) -> Nat] /\ ends[0] = 0
        /\ \A k \in 1 .. Len(input) : ends[k] = ends[k - 1] + CodeLength(input[k])
    BY <2>1, <2>2 DEF Coded, CodeOf, CodeLength
  <2>4. CodeBits = ends[Len(input)]
    BY <1>1, <2>3, CodeBitsAre
  <2>5. ends[Len(input)] = Len(bits)
    <3>1. Len(bits) \in Nat /\ Len(<<>>) = 0
      BY <2>1, LenProperties DEF Coded
    <3>. QED
      BY <2>1, <3>1 DEF Coded
  <2>. QED
    BY <1>1, <2>1, <2>4, <2>5, FlushedLength
<1>3. CASE ~ManyValues
  <2>. DEFINE ends == [k \in 0 .. Len(input) |-> 0]
  <2>1. payload = Table /\ nodes = {}
    BY <1>3 DEF ArchiveInv, CodingInv, NoTreeInv
  <2>2. ~IsTree(nodes)
    BY <2>1, FS_EmptySet DEF IsTree
  <2>3. \A k \in 1 .. Len(input) : ends[k] = ends[k - 1] + CodeLength(input[k])
    BY <1>1, <2>2 DEF CodeLength
  <2>4. CodeBits = 0
    <3>1. ends \in [0 .. Len(input) -> Nat] /\ ends[0] = 0 /\ ends[Len(input)] = 0
      BY <1>1
    <3>. HIDE DEF ends
    <3>. QED
      BY <1>1, <2>3, <3>1, CodeBitsAre
  <2>5. (0 + BitsPerByte - 1) \div BitsPerByte = 0
    <3>1. /\ BitsPerByte \in Nat \ {0} /\ BitsPerByte - 1 \in 0 .. BitsPerByte - 1
          /\ 0 + BitsPerByte - 1 = 0 * BitsPerByte + (BitsPerByte - 1)
      BY HuffmanAssumption
    <3>. QED
      BY <3>1, QuotientIs
  <2>. QED
    BY <1>1, <2>1, <2>4, <2>5
<1>. QED
  BY <1>2, <1>3

\* The payload is as short as the table and the codes allow, for any input
\* (huffman.cpp:19-47, 153-196).
THEOREM PayloadIsPackedHolds == Spec => []PayloadIsPacked
<1>1. Init => NoTreeInv
  BY DEF Init, CompressInit, NoTreeInv
<1>2. ArchiveInv => WriterInv
  BY DEF ArchiveInv
<1>3. WriterInv /\ NoTreeInv /\ [Next]_vars => NoTreeInv'
  BY NoTreeStep
<1>4. IInv /\ ArchiveInv /\ NoTreeInv => PayloadIsPacked
  BY FinishedIsPacked DEF PayloadIsPacked
<1>. QED
  BY <1>1, <1>2, <1>3, <1>4, Inductive, ArchiveInductive, PTL DEF Spec
-----------------------------------------------------------------------------
(***************************************************************************)
(* The loops of both functions end.                                        *)
(***************************************************************************)
\* n is left of m by a step that does something.
Less(n, m) == n \in 0 .. m - 1

\* The encoder goes on to a later stage; it never comes back to one.
EncoderGoesOn ==
  \/ compressed = "counting" /\ compressed' \in {"building", "ok", "failed"}
  \/ compressed = "building" /\ compressed' \in {"encoding", "failed"}
  \/ compressed = "encoding" /\ compressed' \in {"ok", "failed"}

\* Or its loops come closer to their ends: fewer nodes; fewer bytes to take, or
\* fewer bits of the last one taken.
EncoderGetsCloser ==
  /\ compressed' = compressed
  /\ \/ compressed = "building" /\ Less(Cardinality(nodes'), Cardinality(nodes))
     \/ compressed = "encoding" /\ Less(Len(input') - pos', Len(input) - pos)
     \/ compressed = "encoding" /\ UNCHANGED <<input, pos>> /\ Less(Len(code'), Len(code))

DecoderGoesOn ==
  \/ stage = "counting" /\ stage' \in {"reading", "accepted", "rejected"}
  \/ stage = "reading" /\ stage' \in {"filling", "building", "rejected"}
  \/ stage = "building" /\ stage' \in {"decoding", "rejected"}
  \/ stage \in {"filling", "decoding"} /\ stage' \in {"accepted", "rejected"}

\* Bytes the decoder has still to write, and bits it may still read.
BytesLeft == expected - decoded

BitsLeft == BitsPerByte * (Len(stream) - at) + readerCount

DecoderGetsCloser ==
  /\ stage' = stage
  /\ \/ stage = "reading" /\ Less(uniqueCount' - entriesRead', uniqueCount - entriesRead)
     \/ stage = "building" /\ Less(Cardinality(heap'), Cardinality(heap))
     \/ stage = "filling" /\ Less(BytesLeft', BytesLeft)
     \/ stage = "decoding" /\ Less(BytesLeft' + BitsLeft', BytesLeft + BitsLeft)

CallsAdvance ==
  /\ compressed \notin {"ok", "failed"} => EncoderGoesOn \/ EncoderGetsCloser
  /\ stage \notin {"idle", "accepted", "rejected"} => DecoderGoesOn \/ DecoderGetsCloser

\* A round leaves fewer nodes.
LEMMA FewerNodes ==
  ASSUME NEW trees, Forest(trees), IsFiniteSet(trees), NEW merged \in MergeRound(trees)
  PROVE  Less(Cardinality(merged), Cardinality(trees))
<1>1. IsFiniteSet(merged)
  BY MergeRoundForest
<1>2. Cardinality(merged) \in Nat
  BY <1>1, FS_CardinalityType
<1>3. Cardinality(trees) \in Nat /\ Cardinality(merged) = Cardinality(trees) - 1
  BY RoundShrinks
<1>. QED
  BY <1>2, <1>3 DEF Less

LEMMA EncoderAdvances ==
  ASSUME EncoderInv, CompressNext
  PROVE  EncoderGoesOn \/ EncoderGetsCloser
<1>1. Len(input) \in Nat /\ pos \in 0 .. Len(input) /\ code \in Seq(Bit)
  BY InputsAssumption, LenProperties DEF EncoderInv, CompressTypeOK
<1>2. CASE CountAndWriteTable
  <2>1. compressed = "counting" /\ compressed' \in {"building", "ok", "failed"}
    BY <1>2 DEF CountAndWriteTable
  <2>. QED
    BY <2>1 DEF EncoderGoesOn
<1>3. CASE MergeNodes
  <2>1. Forest(nodes) /\ IsFiniteSet(nodes) /\ nodes' \in MergeRound(nodes)
        /\ compressed = "building" /\ compressed' = compressed
    BY <1>3 DEF MergeNodes, EncoderInv
  <2>. QED
    BY <2>1, FewerNodes DEF EncoderGetsCloser
<1>4. CASE Rewind
  BY <1>4 DEF Rewind, EncoderGoesOn
<1>5. CASE TakeByte
  <2>1. /\ compressed = "encoding" /\ compressed' = compressed
        /\ pos < Len(input) /\ pos' = pos + 1 /\ input' = input
    BY <1>5 DEF TakeByte
  <2>2. Less(Len(input') - pos', Len(input) - pos)
    BY <1>1, <2>1 DEF Less
  <2>. QED
    BY <2>1, <2>2 DEF EncoderGetsCloser
<1>6. CASE WriteBit
  <2>1. /\ compressed = "encoding" /\ compressed' \in {"encoding", "failed"}
        /\ code # <<>> /\ code' = Tail(code) /\ UNCHANGED <<input, pos>>
    BY <1>6 DEF WriteBit
  <2>2. Len(Tail(code)) = Len(code) - 1 /\ Len(code) \in Nat /\ Len(code) # 0
    BY <1>1, <2>1, HeadTailProperties, LenProperties, EmptySeq
  <2>3. Less(Len(code'), Len(code))
    BY <2>1, <2>2 DEF Less
  <2>. QED
    BY <2>1, <2>3 DEF EncoderGoesOn, EncoderGetsCloser
<1>7. CASE FlushBits
  <2>1. compressed = "encoding" /\ compressed' \in {"ok", "failed"}
    BY <1>7 DEF FlushBits
  <2>. QED
    BY <2>1 DEF EncoderGoesOn
<1>. QED
  BY <1>2, <1>3, <1>4, <1>5, <1>6, <1>7 DEF CompressNext

\* Reading a bit uses one up, also when it opens the next byte.
LEMMA BitUsedUp ==
  ASSUME DecompressTypeOK, ReadBit
  PROVE  BytesLeft' = BytesLeft /\ BitsLeft' = BitsLeft - 1
<1>1. /\ Len(stream) \in Nat /\ at \in Nat /\ readerCount \in Nat
      /\ BitsPerByte \in Nat
  BY LenProperties, HuffmanAssumption DEF DecompressTypeOK
<1>2. UNCHANGED <<expected, decoded, stream>>
  BY DEF ReadBit, sinkVars
<1>3. \A a \in Nat, b \in Int : a * (b - 1) = a * b - a /\ a * b \in Int
  OBVIOUS
<1>. DEFINE bytes == Len(stream) - at
<1>4. bytes \in Int /\ Len(stream) - (at + 1) = bytes - 1
  BY <1>1
<1>. HIDE DEF bytes
<1>5. CASE readerCount > 0
  <2>1. at' = at /\ readerCount' = readerCount - 1
    BY <1>5 DEF ReadBit
  <2>2. BitsPerByte * bytes \in Int
    BY <1>1, <1>3, <1>4
  <2>3. BitsLeft = BitsPerByte * bytes + readerCount
    BY DEF BitsLeft, bytes
  <2>4. BitsLeft' = BitsPerByte * bytes + (readerCount - 1)
    BY <1>2, <2>1 DEF BitsLeft, bytes
  <2>. QED
    BY <1>1, <1>2, <2>2, <2>3, <2>4 DEF BytesLeft
<1>6. CASE ~(readerCount > 0)
  <2>1. at' = at + 1 /\ readerCount' = BitsPerByte - 1 /\ readerCount = 0
    BY <1>1, <1>6 DEF ReadBit
  <2>2. BitsPerByte * bytes \in Int /\ BitsPerByte * (bytes - 1) = BitsPerByte * bytes - BitsPerByte
    BY <1>1, <1>3, <1>4
  <2>3. BitsLeft = BitsPerByte * bytes + 0
    BY <2>1 DEF BitsLeft, bytes
  <2>4. BitsLeft' = BitsPerByte * (bytes - 1) + (BitsPerByte - 1)
    BY <1>2, <1>4, <2>1 DEF BitsLeft
  <2>. QED
    BY <1>1, <1>2, <2>2, <2>3, <2>4 DEF BytesLeft
<1>. QED
  BY <1>5, <1>6

\* Where the decoder is.
LEMMA LeftIsNat ==
  ASSUME DecompressTypeOK
  PROVE  BytesLeft \in Nat /\ BitsLeft \in Nat
<1>1. /\ Len(stream) - at \in Nat /\ readerCount \in Nat /\ BitsPerByte \in Nat
      /\ BytesLeft \in Nat
  BY LenProperties, ByteStreamAssumption, HuffmanAssumption
     DEF DecompressTypeOK, BytesLeft, Size
<1>2. \A a, b \in Nat : a * b \in Nat
  OBVIOUS
<1>. QED
  BY <1>1, <1>2 DEF BitsLeft

LEMMA DecoderAdvances ==
  ASSUME DecoderInv, DecoderInv', IsFiniteSet(heap), DecompressNext
  PROVE  DecoderGoesOn \/ DecoderGetsCloser
<1>. USE DEF DecoderGoesOn
<1>1. DecompressTypeOK /\ expected \in Nat /\ decoded \in 0 .. expected
  BY ByteStreamAssumption DEF DecoderInv, DecompressTypeOK, Size
<1>2. CASE DecodeEmpty
  BY <1>2 DEF DecodeEmpty
<1>3. CASE ReadCount
  BY <1>3 DEF ReadCount
<1>4. CASE RejectCount
  BY <1>4 DEF RejectCount
<1>5. CASE ReadEntry
  <2>1. /\ stage = "reading" /\ stage' = stage /\ uniqueCount' = uniqueCount
        /\ entriesRead < uniqueCount /\ entriesRead' = entriesRead + 1
    BY <1>5 DEF ReadEntry
  <2>2. entriesRead \in Nat /\ uniqueCount \in Nat
    BY <1>1, ByteStreamAssumption DEF DecompressTypeOK
  <2>3. Less(uniqueCount' - entriesRead', uniqueCount - entriesRead)
    BY <2>1, <2>2 DEF Less
  <2>. QED
    BY <2>1, <2>3 DEF DecoderGetsCloser
<1>6. CASE RejectTruncatedTable
  BY <1>6 DEF RejectTruncatedTable
<1>7. CASE CheckSum
  <2>1. stage = "reading" /\ stage' \in {"filling", "building", "rejected"}
    BY <1>7 DEF CheckSum
  <2>. QED
    BY <2>1
<1>8. CASE Fill
  <2>1. /\ stage = "filling" /\ stage' = stage /\ expected' = expected
        /\ decoded < expected /\ decoded' = decoded + Len(Chunk)
    BY <1>8 DEF Fill
  <2>2. Len(Chunk) \in 1 .. expected - decoded
    BY <1>1, <2>1, ChunkFacts
  <2>. DEFINE n == Len(Chunk)
  <2>3. n \in 1 .. expected - decoded /\ decoded' = decoded + n
    BY <2>1, <2>2
  <2>. HIDE DEF n
  <2>4. Less(BytesLeft', BytesLeft)
    BY <1>1, <2>1, <2>3 DEF Less, BytesLeft
  <2>. QED
    BY <2>1, <2>4 DEF DecoderGetsCloser
<1>9. CASE FillFails
  BY <1>9 DEF FillFails, WriteFails
<1>10. CASE FinishFilling
  BY <1>10 DEF FinishFilling
<1>11. CASE MergeHeap
  <2>1. /\ Forest(heap) /\ heap' \in MergeRound(heap)
        /\ stage = "building" /\ stage' = stage
    BY <1>11 DEF MergeHeap, DecoderInv, TreeInv
  <2>. QED
    BY <2>1, FewerNodes DEF DecoderGetsCloser
<1>12. CASE FinishTree
  BY <1>12 DEF FinishTree
<1>13. CASE ReadBit
  <2>1. stage = "decoding" /\ stage' = stage
    BY <1>13 DEF ReadBit, Walking
  <2>2. BytesLeft' = BytesLeft /\ BitsLeft' = BitsLeft - 1
    BY <1>1, <1>13, BitUsedUp
  <2>3. BytesLeft \in Nat /\ BitsLeft \in Nat
    BY <1>1, LeftIsNat
  <2>4. BitsLeft' \in Nat
    <3>0. stream' \in Seq(Byte) /\ at' \in 0 .. Len(stream') /\ readerCount' \in 0 .. BitsPerByte - 1
      BY DEF DecoderInv, DecompressTypeOK
    <3>1. Len(stream') - at' \in Nat /\ readerCount' \in Nat /\ BitsPerByte \in Nat
      BY <3>0, LenProperties, HuffmanAssumption
    <3>2. \A a, b \in Nat : a * b \in Nat
      OBVIOUS
    <3>. QED
      BY <3>1, <3>2 DEF BitsLeft
  <2>5. Less(BytesLeft' + BitsLeft', BytesLeft + BitsLeft)
    BY <2>2, <2>3, <2>4 DEF Less
  <2>. QED
    BY <2>1, <2>5 DEF DecoderGetsCloser
<1>14. CASE RejectTruncatedBits
  BY <1>14 DEF RejectTruncatedBits, Walking
<1>15. CASE Emit
  <2>1. /\ stage = "decoding" /\ stage' = stage
        /\ decoded < expected /\ decoded' = decoded + 1
        /\ UNCHANGED <<expected, stream, at, readerCount>>
    BY <1>15 DEF Emit, AtSymbol
  <2>2. BytesLeft' = BytesLeft - 1 /\ BytesLeft' \in Nat
    BY <1>1, <2>1 DEF BytesLeft
  <2>3. BitsLeft' = BitsLeft
    BY <2>1 DEF BitsLeft
  <2>4. BytesLeft \in Nat /\ BitsLeft \in Nat
    BY <1>1, LeftIsNat
  <2>5. Less(BytesLeft' + BitsLeft', BytesLeft + BitsLeft)
    BY <2>2, <2>3, <2>4 DEF Less
  <2>. QED
    BY <2>1, <2>5 DEF DecoderGetsCloser
<1>16. CASE EmitFails
  BY <1>16 DEF EmitFails, AtSymbol, WriteFails
<1>17. CASE FinishDecoding
  BY <1>17 DEF FinishDecoding
<1>18. CASE FinishFails
  BY <1>18 DEF FinishFails, WriteFails
<1>. QED
  BY <1>2, <1>3, <1>4, <1>5, <1>6, <1>7, <1>8, <1>9, <1>10, <1>11, <1>12, <1>13, <1>14,
     <1>15, <1>16, <1>17, <1>18 DEF DecompressNext

\* The decoder's heap is finite.
FiniteInv == IsFiniteSet(heap)

LEMMA HeapStaysFinite ==
  ASSUME IInv, FiniteInv, [Next]_vars
  PROVE  FiniteInv'
<1>. USE DEF FiniteInv
<1>1. CASE heap' = heap
  BY <1>1
<1>2. CASE CheckSum
  <2>1. heap' = heap \/ heap' = MakeHeap(table)
    BY <1>2 DEF CheckSum
  <2>2. table \in Frequencies
    BY DEF IInv, DecoderInv, DecompressTypeOK
  <2>3. IsFiniteSet(MakeHeap(table))
    BY <2>2, MakeHeapForest
  <2>. QED
    BY <2>1, <2>3
<1>3. CASE MergeHeap
  <2>1. Forest(heap)
    BY DEF IInv, DecoderInv, TreeInv
  <2>2. heap' \in MergeRound(heap)
    BY <1>3 DEF MergeHeap
  <2>. QED
    BY <2>1, <2>2, MergeRoundForest
<1>4. Store \/ Compress \/ UNCHANGED vars => heap' = heap
  <2>1. ASSUME Store PROVE heap' = heap
    <3>1. \E s, size : StartDecompress(s, size)
      BY <2>1 DEF Store, StoreIntact, StoreTruncated, StoreExtended, StoreResized, StoreAltered
    <3>. QED
      BY <3>1 DEF StartDecompress, treeVars
  <2>2. Compress => heap' = heap
    BY DEF Compress, decompressVars, treeVars
  <2>3. UNCHANGED vars => heap' = heap
    BY DEF vars, decompressVars, treeVars
  <2>. QED
    BY <2>1, <2>2, <2>3
<1>5. Decompress => heap' = heap \/ CheckSum \/ MergeHeap
  BY DEF Decompress, DecompressNext, DecodeEmpty, ReadCount, RejectCount, ReadEntry,
     RejectTruncatedTable, Fill, FillFails, FinishFilling, FinishTree, ReadBit,
     RejectTruncatedBits, Emit, EmitFails, FinishDecoding, FinishFails, treeVars
<1>. QED
  BY <1>1, <1>2, <1>3, <1>4, <1>5 DEF Next

\* Every step of a running call, of the encoder or of the decoder and for any
\* archive the decoder is given, goes on to a later stage or brings the loop it
\* is in closer to its end: no loop goes round for ever, not even the one that
\* follows a tree of a single leaf and reads no bits (huffman.cpp:128-196,
\* 236-337).
THEOREM CallsAdvanceHolds == Spec => [][CallsAdvance]_vars
<1>1. ASSUME IInv, IInv', ArchiveInv, FiniteInv, [Next]_vars, vars' # vars
      PROVE  CallsAdvance
  <2>1. stage # "idle" => compressed = "ok"
    BY <1>1 DEF ArchiveInv, ReaderInv
  <2>2. CASE Compress
    <3>0. EncoderInv /\ CompressNext
      BY <1>1, <2>2 DEF IInv, Compress
    <3>1. EncoderGoesOn \/ EncoderGetsCloser
      BY <3>0, EncoderAdvances
    <3>2. compressed # "ok"
      BY <3>1 DEF EncoderGoesOn, EncoderGetsCloser
    <3>. QED
      BY <2>1, <3>1, <3>2 DEF CallsAdvance
  <2>3. CASE Store
    <3>0. compressed = "ok" /\ \E s, size : StartDecompress(s, size)
      BY <2>3 DEF Store, StoreIntact, StoreTruncated, StoreExtended, StoreResized, StoreAltered
    <3>1. compressed = "ok" /\ stage = "idle"
      BY <3>0 DEF StartDecompress
    <3>. QED
      BY <3>1 DEF CallsAdvance
  <2>4. CASE Decompress
    <3>0. DecoderInv /\ DecoderInv' /\ DecompressNext /\ IsFiniteSet(heap)
      BY <1>1, <2>4 DEF IInv, Decompress, FiniteInv
    <3>1. DecoderGoesOn \/ DecoderGetsCloser
      BY <3>0, DecoderAdvances
    <3>2. stage # "idle"
      BY <3>1 DEF DecoderGoesOn, DecoderGetsCloser
    <3>. QED
      BY <2>1, <3>1, <3>2 DEF CallsAdvance
  <2>. QED
    BY <1>1, <2>2, <2>3, <2>4 DEF Next
<1>2. IInv /\ IInv' /\ ArchiveInv /\ FiniteInv /\ [Next]_vars => [CallsAdvance]_vars
  BY <1>1
<1>3. Init => FiniteInv
  BY FS_EmptySet DEF Init, DecompressInit, FiniteInv
<1>4. IInv /\ FiniteInv /\ [Next]_vars => FiniteInv'
  BY HeapStaysFinite
<1>. QED
  BY <1>2, <1>3, <1>4, Inductive, ArchiveInductive, PTL DEF Spec
=============================================================================
