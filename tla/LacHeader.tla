------------------------------ MODULE LacHeader ------------------------------
(***************************************************************************)
(* The header of a .lac file: write_header and read_header of              *)
(* src/utils/file_io.cpp, on sequences of bytes.                           *)
(***************************************************************************)
EXTENDS LittleEndian

CONSTANTS
  Magic,     \* Header::MAGIC, "LAC\0" in the code
  SizeBytes  \* bytes that hold the original size: 8 in the code

ASSUME HeaderAssumption ==
  /\ MaxByte >= 2
  /\ Magic \in Seq(Byte)
  /\ SizeBytes \in Nat /\ SizeMod = Power(MaxByte + 1)[SizeBytes]

CurrentVersion == 1

\* The values of algorithm_id.
Rle == 1
Huffman == 2
Algorithms == {Rle, Huffman}

WriteHeader(algo, size) == Magic \o <<CurrentVersion, algo>> \o ToBytes(size, SizeBytes)

HeaderLength == Len(Magic) + 2 + SizeBytes

\* What read_header accepts; a stream that ends within the header is refused
\* at the field it does not hold.
HeaderIsValid(bytes) ==
  /\ Len(bytes) >= HeaderLength
  /\ IsPrefix(Magic, bytes)
  /\ bytes[Len(Magic) + 1] = CurrentVersion
  /\ bytes[Len(Magic) + 2] \in Algorithms

AlgorithmId(bytes) == bytes[Len(Magic) + 2]

OriginalSize(bytes) == FromBytes(SubSeq(bytes, Len(Magic) + 3, HeaderLength))

\* What is left in the stream after read_header.
AfterHeader(bytes) == SubSeq(bytes, HeaderLength + 1, Len(bytes))
=============================================================================
