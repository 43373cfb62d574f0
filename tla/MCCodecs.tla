------------------------------- MODULE MCCodecs -------------------------------
(***************************************************************************)
(* Small codecs for the commands: a run-length code for RLE and, in the    *)
(* place of Huffman's, a code that stores the size and then the data: like *)
(* Huffman's it is shorter than RLE for data without runs and does not     *)
(* notice bytes after its end.                                             *)
(***************************************************************************)
EXTENDS LacHeader

MCMagic == <<3>>

\* Where a run begins that is cut after MaxByte bytes, and where the k-th does.
RunStarts(data) ==
  LET changes == {i \in DOMAIN data : i = 1 \/ data[i] # data[Max({1, i - 1})]}
  IN  {i \in DOMAIN data : (i - Max({j \in changes : j <= i})) % MaxByte = 0}

StartOf(k, data) ==
  CHOOSE i \in RunStarts(data) \cup {Len(data) + 1} :
    Cardinality({j \in RunStarts(data) : j < i}) = k - 1

RlePayload(data) ==
  [j \in 1 .. 2 * Cardinality(RunStarts(data)) |->
     LET k == (j + 1) \div 2
     IN  IF j % 2 = 1 THEN StartOf(k + 1, data) - StartOf(k, data) ELSE data[StartOf(k, data)]]

MCPayload(algo, data) ==
  IF algo = Rle THEN RlePayload(data) ELSE ToBytes(Len(data), SizeBytes) \o data

\* The data in the first k blocks of a stream, and the blocks before the first
\* that is not valid.
Covered(k, stream) == MapThenSumSet(LAMBDA i : stream[2 * i - 1], 1 .. k)

ValidBlocks(stream, size) ==
  Max({k \in 0 .. Len(stream) \div 2 :
         Covered(k, stream) <= size /\ \A i \in 1 .. k : stream[2 * i - 1] > 0})

BlockAt(j, stream) ==
  CHOOSE k \in 1 .. Len(stream) \div 2 : j \in Covered(k - 1, stream) + 1 .. Covered(k, stream)

MCRestored(algo, stream, size) ==
  IF algo = Rle
    THEN [j \in 1 .. Covered(ValidBlocks(stream, size), stream) |-> stream[2 * BlockAt(j, stream)]]
    ELSE SubSeq(stream, SizeBytes + 1, Min({Len(stream), SizeBytes + size}))

MCAccepts(algo, stream, size) ==
  IF algo = Rle
    THEN Len(stream) = 2 * ValidBlocks(stream, size) /\ Covered(Len(stream) \div 2, stream) = size
    ELSE /\ IsPrefix(ToBytes(size, SizeBytes), stream)
         /\ Len(stream) >= SizeBytes + size
         /\ size = 0 => Len(stream) = SizeBytes

\* Before the stream has ended, RLE's wants more unless a block is not valid;
\* the other one stops at the size.
MCVerdict(algo, stream, size, ended) ==
  IF MCAccepts(algo, stream, size) /\ (ended \/ algo = Huffman) THEN "accepted"
  ELSE IF \/ ended
          \/ algo = Rle /\ ValidBlocks(stream, size) < Len(stream) \div 2
          \/ algo = Huffman /\ Len(stream) >= SizeBytes /\ ~IsPrefix(ToBytes(size, SizeBytes), stream)
    THEN "rejected"
  ELSE "more"
=============================================================================
