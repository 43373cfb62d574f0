----------------------------- MODULE HuffmanBuild -----------------------------
(***************************************************************************)
(* The loop of build_tree (src/core/huffman.cpp) on its own, for any       *)
(* frequency table the encoder counts or the decoder reads.                *)
(***************************************************************************)
EXTENDS HuffmanTree

CONSTANT Tables  \* the frequency tables to build trees from

ASSUME TablesAssumption == Tables \subseteq Frequencies

VARIABLES
  weights,   \* the table `frequencies`
  subtrees   \* the nodes in `heap`

buildVars == <<weights, subtrees>>

BuildInit ==
  /\ weights \in Tables
  /\ subtrees = MakeHeap(weights)

Merge ==
  /\ Cardinality(subtrees) > 1
  /\ subtrees' \in MergeRound(subtrees)
  /\ UNCHANGED weights

BuildNext == Merge

BuildSpec == BuildInit /\ [][BuildNext]_buildVars

-----------------------------------------------------------------------------
Symbols == {v \in Byte : weights[v] > 0}

BuildTypeOK ==
  /\ weights \in Tables
  /\ \A node \in subtrees : NodeTypeOK(node)

\* Every value that occurs is a leaf of exactly one node: no symbol is lost or
\* coded twice while nodes move in and out of the heap (huffman.cpp:104-117).
LeavesPartition ==
  /\ UNION {Values(node) : node \in subtrees} = Symbols
  /\ \A a, b \in subtrees : a # b => Values(a) \cap Values(b) = {}

\* No code is a prefix of another code of its tree (huffman.cpp:73-90).
PrefixFree == \A node \in subtrees : CodesPrefixFree(node)

\* Where a code goes one way, some code goes the other way: a decoder that
\* follows bits from the root always finds the child it asks for and never
\* dereferences a null one (huffman.cpp:311-322).
NoMissingChild == \A node \in subtrees : CodesComplete(node)

\* A round can end in one heap only, whatever the layout std::make_heap chose:
\* the encoder and the decoder, perhaps built with different standard
\* libraries, get the same tree from the same table (huffman.hpp:33-44).
RoundIsDetermined == \A g, h \in MergeRound(subtrees) : g = h

Total(values) == SumFunctionOnSet(weights, values)

Cost(length) == SumFunction([v \in Symbols |-> weights[v] * length[v]])

\* For every set of values, the code lengths up to a limit that satisfy Kraft's
\* inequality: the sum of 2^-length is at most 1.
KraftLengths(limit) ==
  [values \in SUBSET Byte |->
     {length \in [values -> 1 .. limit] :
        SumFunction([v \in values |-> Power(2)[limit - length[v]]]) <= Power(2)[limit]}]

\* The finished code is as short as a prefix code for these frequencies can be:
\* none of the given lengths cost less.
Optimal(lengths) ==
  IsTree(subtrees) /\ Cardinality(Symbols) > 1 /\ Total(Byte) < SizeMod =>
    LET codes == Root(subtrees).codes
        cost == Cost([v \in Symbols |-> Len(codes[v])])
    IN \A length \in lengths[Symbols] : cost <= Cost(length)

LengthsToCompare == KraftLengths(MaxByte)

\* No prefix code is shorter than the one build_tree finds (huffman.cpp:92-123).
\* Longer codes than MaxByte bits are never shorter for MaxByte + 1 values.
CodeIsOptimal == Optimal(LengthsToCompare)
=============================================================================
