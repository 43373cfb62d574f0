--------------------------- MODULE MCHuffmanArchive ---------------------------
(***************************************************************************)
(* Small instances of HuffmanArchive: bytes of 2 bits, frequencies of two  *)
(* bytes.                                                                  *)
(***************************************************************************)
EXTENDS HuffmanArchive

CONSTANT
  MaxLen,  \* length of the longest of the short inputs
  Letters  \* the byte values short inputs are made of

\* Short inputs, inputs in which every byte value occurs once, and one whose
\* tree is a chain.
MCInputs ==
  UNION {[1 .. n -> Letters] : n \in 0 .. MaxLen}
    \cup {<<0, 1, 2, 3>>, <<3, 1, 2, 0>>}
    \cup {<<0, 3, 1, 3, 2, 3, 2, 3>>}

\* A byte of zeros, a byte of ones and another archive's table.
MCTails == {<<0>>, <<3>>, <<1, 0, 0, 1, 0>>}

\* Any byte; and for an input of two different bytes, tables with a repeated
\* value: one of which no value is left, one of which a single value is left,
\* and one whose frequencies add up only because the sum wraps around.
MCPatches ==
  {<<b>> : b \in Byte}
    \cup {<<0, 2, 0, 0, 0, 0>>, <<0, 1, 0, 0, 1, 0>>, <<0, 3, 3, 1, 3, 0>>}
=============================================================================
