----------------------------- MODULE HuffmanTree -----------------------------
(***************************************************************************)
(* build_tree and generate_codes of src/core/huffman.cpp and the order of  *)
(* its heap, HuffmanNodeComparator of src/core/huffman.hpp.                *)
(*                                                                         *)
(* A tree is represented by the codes of its leaves: codes[v] is the path  *)
(* of bits from the root to the leaf that holds v, which is what           *)
(* generate_codes reads off the finished tree.                             *)
(***************************************************************************)
EXTENDS ByteStream

Bit == 0 .. 1

\* Frequency tables: how often each byte value occurs.
Frequencies == [Byte -> Size]

Leaf(v, n) == [frequency |-> n, codes |-> [x \in {v} |-> <<>>]]

\* The values at the leaves of a tree.
Values(node) == DOMAIN node.codes

\* Mutant: frequencies alone decide, as in a heap of pairs without tie-break.
BeforeByFrequency(a, b) == a.frequency < b.frequency

\* a leaves the heap before b: it is rarer, or as rare and has the smaller leaf.
Before(a, b) ==
  \/ a.frequency < b.frequency
  \/ a.frequency = b.frequency /\ Min(Values(a)) < Min(Values(b))

\* pop_heap takes an element that no other comes before: which one, if there
\* are several, depends on the heap's layout.
MayPop(node, nodes) == \A other \in nodes \ {node} : ~Before(other, node)

\* Mutant: the sum is kept in a wider integer.
WideParentFrequency(left, right) == left.frequency + right.frequency

\* The sum is on uint64_t.
ParentFrequency(left, right) == (left.frequency + right.frequency) % SizeMod

\* Mutant: both children are reached by the same bit.
JoinOneSided(left, right) ==
  [frequency |-> ParentFrequency(left, right),
   codes |-> [v \in Values(left) \cup Values(right) |->
                IF v \in Values(left) THEN <<0>> \o left.codes[v] ELSE <<0>> \o right.codes[v]]]

\* The parent of two nodes: every path gets the bit that leads to its side.
Join(left, right) ==
  [frequency |-> ParentFrequency(left, right),
   codes |-> [v \in Values(left) \cup Values(right) |->
                IF v \in Values(left) THEN <<0>> \o left.codes[v] ELSE <<1>> \o right.codes[v]]]

\* Mutant: values that do not occur get a leaf, too.
MakeFullHeap(frequencies) == {Leaf(v, frequencies[v]) : v \in Byte}

\* The heap before the first round: a leaf for every value that occurs.
MakeHeap(frequencies) == {Leaf(v, frequencies[v]) : v \in {x \in Byte : frequencies[x] > 0}}

\* Mutant: the second pop does not look for the smallest node.
PopAnySecond(nodes) ==
  {pair \in nodes \X nodes : pair[1] # pair[2] /\ MayPop(pair[1], nodes)}

\* The pairs a round of the loop may pop.
PopTwo(nodes) ==
  {pair \in nodes \X nodes :
     /\ pair[1] # pair[2]
     /\ MayPop(pair[1], nodes)
     /\ MayPop(pair[2], nodes \ {pair[1]})}

\* The heaps a round may leave.
MergeRound(nodes) ==
  {(nodes \ {pair[1], pair[2]}) \cup {Join(pair[1], pair[2])} : pair \in PopTwo(nodes)}

IsTree(nodes) == Cardinality(nodes) = 1

Root(nodes) == CHOOSE node \in nodes : TRUE

-----------------------------------------------------------------------------
NodeTypeOK(node) ==
  /\ node.frequency \in Size
  /\ Values(node) \subseteq Byte /\ Values(node) # {}
  /\ \A v \in Values(node) : node.codes[v] \in Seq(Bit)

\* No code of the tree is a prefix of another one.
CodesPrefixFree(node) ==
  \A v, w \in Values(node) : v # w => ~IsPrefix(node.codes[v], node.codes[w])

\* Some code follows v's up to its bit i, which is the other one there.
Branches(node, v, i) ==
  \E w \in Values(node) :
    /\ Len(node.codes[w]) >= i
    /\ \A k \in 1 .. i - 1 : node.codes[w][k] = node.codes[v][k]
    /\ node.codes[w][i] # node.codes[v][i]

\* Wherever a code of the tree goes one way, some code goes the other way.
CodesComplete(node) ==
  \A v \in Values(node) : \A i \in 1 .. Len(node.codes[v]) : Branches(node, v, i)
=============================================================================
