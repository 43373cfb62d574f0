---------------------------- MODULE MCHuffmanBuild ----------------------------
(***************************************************************************)
(* Instances of HuffmanBuild: five byte values and every table of the      *)
(* given frequencies, among them those that make the tree a chain.         *)
(***************************************************************************)
EXTENDS HuffmanBuild

CONSTANT Counts  \* the frequencies the tables are made of

MCTables == [Byte -> Counts]
=============================================================================
