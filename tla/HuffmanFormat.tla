---------------------------- MODULE HuffmanFormat ----------------------------
(***************************************************************************)
(* The frequency table that opens a Huffman payload (src/core/huffman.cpp).*)
(***************************************************************************)
EXTENDS HuffmanTree, LittleEndian

CONSTANTS
  BitsPerByte,    \* 8 in the code
  CountBytes,     \* bytes that hold the number of table entries: 2 in the code
  FrequencyBytes  \* bytes that hold a frequency: 8 in the code

ASSUME HuffmanAssumption ==
  /\ BitsPerByte \in Nat \ {0} /\ MaxByte + 1 = Power(2)[BitsPerByte]
  /\ CountBytes \in Nat /\ MaxByte + 1 < Power(MaxByte + 1)[CountBytes]
  /\ FrequencyBytes \in Nat /\ SizeMod = Power(MaxByte + 1)[FrequencyBytes]

\* The values the encoder writes an entry for.
Occurring(table) == {v \in Byte : table[v] > 0}

\* The table's entries, in the order of their values.
EntryBytes(table) ==
  FlattenSeq([i \in 1 .. MaxByte + 1 |->
    IF table[i - 1] > 0 THEN <<i - 1>> \o ToBytes(table[i - 1], FrequencyBytes) ELSE <<>>])

\* The number of values that occur, then each with its frequency.
TableBytes(table) == ToBytes(Cardinality(Occurring(table)), CountBytes) \o EntryBytes(table)
=============================================================================
