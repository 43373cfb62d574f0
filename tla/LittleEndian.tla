----------------------------- MODULE LittleEndian -----------------------------
(***************************************************************************)
(* Unsigned integers as bytes, least significant byte first: the form in   *)
(* which src/core/huffman.cpp stores the number of table entries and their *)
(* frequencies, and src/utils/file_io.cpp the original size.               *)
(***************************************************************************)
EXTENDS ByteStream

\* The value of a byte's least bit, byte b shifted by b * 8.
ByteValue(b) == Power(MaxByte + 1)[b - 1]

\* Byte b holds (n >> (b * 8)) & 0xFF.
ToBytes(n, width) == [b \in 1 .. width |-> (n \div ByteValue(b)) % (MaxByte + 1)]

\* The bitwise or of the bytes, byte b shifted by b * 8.
FromBytes(bytes) == SumFunction([b \in DOMAIN bytes |-> bytes[b] * ByteValue(b)])
=============================================================================
