----------------------------- MODULE MCRleArchive -----------------------------
(***************************************************************************)
(* Small instances of RleArchive: bytes are 0 .. 3, so a run is full after *)
(* 3 bytes; inputs use two of the byte values.                             *)
(***************************************************************************)
EXTENDS RleArchiveInv

CONSTANT MaxLen  \* length of the longest input

MCInputs == UNION {[1 .. n -> 0 .. 1] : n \in 0 .. MaxLen}

\* A zero count, a count without value, a whole block, and the header of another
\* block.
MCTails == {<<0>>, <<1>>, <<2, 1>>, <<3, 0, 1>>}
=============================================================================
