------------------------------ MODULE ByteStream ------------------------------
(***************************************************************************)
(* The bytes both codecs work on and the way they read a std::istream:     *)
(* in blocks of BufferSize bytes, the last one possibly shorter.           *)
(***************************************************************************)
EXTENDS Integers, SequencesExt

CONSTANTS
  MaxByte,     \* largest uint8_t, 255 in the code
  BufferSize,  \* size of the codecs' buffers, 65536 in the code
  SizeMod      \* sizes are uint64_t: 2^64 in the code

ASSUME ByteStreamAssumption ==
  /\ MaxByte \in Nat \ {0}
  /\ BufferSize \in Nat \ {0}
  /\ SizeMod \in Nat \ {0}

Byte == 0 .. MaxByte

Size == 0 .. SizeMod - 1

\* The powers of a base, which shifts of bits and bytes multiply and divide by.
Power(base) ==
  LET power[n \in Nat] == IF n = 0 THEN 1 ELSE base * power[n - 1]
  IN power

\* How far in.read(buffer) gets in a stream of n bytes of which k were read.
ReadTo(k, n) == IF n - k <= BufferSize THEN n ELSE k + BufferSize
=============================================================================
