--------------------------- MODULE HuffmanDecompress ---------------------------
(***************************************************************************)
(* HuffmanCompressor::decompress of src/core/huffman.cpp with its          *)
(* BitReader, for any stream of bytes.                                     *)
(*                                                                         *)
(* The table is read and its sum compared with the announced size.  A      *)
(* table of one entry is the whole archive; otherwise the tree is rebuilt  *)
(* from the table and followed bit by bit from its root to a leaf, once    *)
(* for every byte of the output.  What follows the last code's bits is     *)
(* never looked at.                                                        *)
(***************************************************************************)
EXTENDS HuffmanFormat

VARIABLES
  stream,       \* what the stream `in` holds after the header
  expected,     \* expected_size, from the header
  at,           \* bytes of the stream read so far
  uniqueCount,  \* unique_count
  entriesRead,  \* table entries read so far
  table,        \* frequencies
  sum,          \* sum_frequencies
  heap,         \* the nodes in `heap`, in the end the tree
  path,         \* the bits that lead from the root to `current`
  readerByte,   \* reader.current_byte
  readerCount,  \* reader.bit_count
  decoded,      \* decompressed_count, or expected_size - remaining
  outBuf,       \* out_buf
  out,          \* what the sink has accepted
  sink,         \* "good" until a write fails
  stage         \* "idle"; "counting", "reading", "filling", "building", "decoding"
                \* while the call runs; then "accepted" (a size) or "rejected" (nullopt)

tableVars == <<uniqueCount, entriesRead, table, sum>>
treeVars == <<heap, path, readerByte, readerCount>>
sinkVars == <<decoded, outBuf, out, sink>>

decompressVars == <<stream, expected, at, tableVars, treeVars, sinkVars, stage>>

DecompressInit ==
  /\ stream = <<>>
  /\ expected = 0
  /\ at = 0
  /\ uniqueCount = 0
  /\ entriesRead = 0
  /\ table = [v \in Byte |-> 0]
  /\ sum = 0
  /\ heap = {}
  /\ path = <<>>
  /\ readerByte = 0
  /\ readerCount = 0
  /\ decoded = 0
  /\ outBuf = <<>>
  /\ out = <<>>
  /\ sink = "good"
  /\ stage = "idle"

\* The call: the stream to decode and the size its header announces.
StartDecompress(s, size) ==
  /\ stage = "idle"
  /\ stream' = s
  /\ expected' = size
  /\ stage' = "counting"
  /\ UNCHANGED <<at, tableVars, treeVars, sinkVars>>

-----------------------------------------------------------------------------
\* expected_size == 0: a table without entries and nothing after it.
DecodeEmpty ==
  /\ stage = "counting"
  /\ expected = 0
  /\ stage' = IF stream = ToBytes(0, CountBytes) THEN "accepted" ELSE "rejected"
  /\ UNCHANGED <<stream, expected, at, tableVars, treeVars, sinkVars>>

\* The next n bytes of the stream.
NextBytes(n) == SubSeq(stream, at + 1, at + n)

Truncated(n) == Len(stream) - at < n

AnnouncedCount == FromBytes(NextBytes(CountBytes))

CountIsValid == ~Truncated(CountBytes) /\ AnnouncedCount \in 1 .. MaxByte + 1

ReadCount ==
  /\ stage = "counting"
  /\ expected # 0
  /\ CountIsValid
  /\ uniqueCount' = AnnouncedCount
  /\ at' = at + CountBytes
  /\ stage' = "reading"
  /\ UNCHANGED <<stream, expected, entriesRead, table, sum, treeVars, sinkVars>>

RejectCount ==
  /\ stage = "counting"
  /\ expected # 0
  /\ ~CountIsValid
  /\ stage' = "rejected"
  /\ UNCHANGED <<stream, expected, at, tableVars, treeVars, sinkVars>>

\* Mutant: the sum is kept in a wider integer.
WideSum(frequency) == sum + frequency

\* The sum is on uint64_t.
SumWith(frequency) == (sum + frequency) % SizeMod

\* A value's later entry replaces an earlier one, but both are added to the sum.
ReadEntry ==
  /\ stage = "reading"
  /\ entriesRead < uniqueCount
  /\ ~Truncated(1 + FrequencyBytes)
  /\ LET frequency == FromBytes(Tail(NextBytes(1 + FrequencyBytes)))
     IN /\ table' = [table EXCEPT ![stream[at + 1]] = frequency]
        /\ sum' = SumWith(frequency)
  /\ entriesRead' = entriesRead + 1
  /\ at' = at + 1 + FrequencyBytes
  /\ UNCHANGED <<stream, expected, uniqueCount, treeVars, sinkVars, stage>>

RejectTruncatedTable ==
  /\ stage = "reading"
  /\ entriesRead < uniqueCount
  /\ Truncated(1 + FrequencyBytes)
  /\ stage' = "rejected"
  /\ UNCHANGED <<stream, expected, at, tableVars, treeVars, sinkVars>>

SumMatches == sum = expected

\* The table is complete: what follows depends on the number of its entries.
CheckSum ==
  /\ stage = "reading"
  /\ entriesRead = uniqueCount
  /\ IF SumMatches
       THEN stage' = IF uniqueCount = 1 THEN "filling" ELSE "building"
       ELSE stage' = "rejected"
  /\ heap' = IF stage' = "building" THEN MakeHeap(table) ELSE heap
  /\ UNCHANGED <<stream, expected, at, tableVars, path, readerByte, readerCount, sinkVars>>

-----------------------------------------------------------------------------
\* out.write puts all bytes into the sink, or some and fails.
Written(bytes) == out' = out \o bytes /\ UNCHANGED sink

WriteFails(bytes) ==
  /\ \E k \in 0 .. Len(bytes) : out' = out \o SubSeq(bytes, 1, k)
  /\ sink' = "failed"
  /\ stage' = "rejected"

SingleChar == IF Occurring(table) = {} THEN 0 ELSE Min(Occurring(table))

\* The next copies of the only value.
Chunk == [i \in 1 .. Min({expected - decoded, BufferSize}) |-> SingleChar]

Fill ==
  /\ stage = "filling"
  /\ decoded < expected
  /\ Written(Chunk)
  /\ decoded' = decoded + Len(Chunk)
  /\ UNCHANGED <<stream, expected, at, tableVars, treeVars, outBuf, stage>>

FillFails ==
  /\ stage = "filling"
  /\ decoded < expected
  /\ WriteFails(Chunk)
  /\ UNCHANGED <<stream, expected, at, tableVars, treeVars, decoded, outBuf>>

FinishFilling ==
  /\ stage = "filling"
  /\ decoded = expected
  /\ stage' = "accepted"
  /\ UNCHANGED <<stream, expected, at, tableVars, treeVars, sinkVars>>

-----------------------------------------------------------------------------
\* Mutant: the loop leaves two nodes.
MergeHeapWhileThree ==
  /\ stage = "building"
  /\ Cardinality(heap) > 2
  /\ heap' \in MergeRound(heap)
  /\ UNCHANGED <<stream, expected, at, tableVars, path, readerByte, readerCount,
                 sinkVars, stage>>

MergeHeap ==
  /\ stage = "building"
  /\ Cardinality(heap) > 1
  /\ heap' \in MergeRound(heap)
  /\ UNCHANGED <<stream, expected, at, tableVars, path, readerByte, readerCount,
                 sinkVars, stage>>

\* A table whose frequencies are all zero has no tree.
FinishTree ==
  /\ stage = "building"
  /\ Cardinality(heap) <= 1
  /\ stage' = IF heap = {} THEN "rejected" ELSE "decoding"
  /\ UNCHANGED <<stream, expected, at, tableVars, treeVars, sinkVars>>

Codes == Root(heap).codes

AtLeaf == \E v \in DOMAIN Codes : Codes[v] = path

Walking == stage = "decoding" /\ decoded < expected /\ ~AtLeaf

\* Mutant: the shifted byte is not masked.
BitOfUnmasked(byte, n) == byte \div Power(2)[n]

\* Bit number n of a byte, counted from the least significant one.
BitOf(byte, n) == (byte \div Power(2)[n]) % 2

\* read_bit, from the byte in hand or else from the next byte of the stream.
ReadBit ==
  /\ Walking
  /\ readerCount > 0 \/ ~Truncated(1)
  /\ IF readerCount > 0
       THEN /\ path' = Append(path, BitOf(readerByte, readerCount - 1))
            /\ readerCount' = readerCount - 1
            /\ UNCHANGED <<at, readerByte>>
       ELSE /\ path' = Append(path, BitOf(stream[at + 1], BitsPerByte - 1))
            /\ readerCount' = BitsPerByte - 1
            /\ readerByte' = stream[at + 1]
            /\ at' = at + 1
  /\ UNCHANGED <<stream, expected, tableVars, heap, sinkVars, stage>>

RejectTruncatedBits ==
  /\ Walking
  /\ readerCount = 0
  /\ Truncated(1)
  /\ stage' = "rejected"
  /\ UNCHANGED <<stream, expected, at, tableVars, treeVars, sinkVars>>

Symbol == CHOOSE v \in DOMAIN Codes : Codes[v] = path

Pushed == Append(outBuf, Symbol)

AtSymbol == stage = "decoding" /\ decoded < expected /\ AtLeaf

\* Mutant: out_buf is not cleared.
EmitKeepsBuffer ==
  /\ AtSymbol
  /\ decoded' = decoded + 1
  /\ path' = <<>>
  /\ IF Len(Pushed) >= BufferSize THEN Written(Pushed) ELSE UNCHANGED <<out, sink>>
  /\ outBuf' = Pushed
  /\ UNCHANGED <<stream, expected, at, tableVars, heap, readerByte, readerCount, stage>>

Emit ==
  /\ AtSymbol
  /\ decoded' = decoded + 1
  /\ path' = <<>>
  /\ IF Len(Pushed) >= BufferSize
       THEN Written(Pushed) /\ outBuf' = <<>>
       ELSE outBuf' = Pushed /\ UNCHANGED <<out, sink>>
  /\ UNCHANGED <<stream, expected, at, tableVars, heap, readerByte, readerCount, stage>>

EmitFails ==
  /\ AtSymbol
  /\ decoded' = decoded + 1
  /\ Len(Pushed) >= BufferSize
  /\ WriteFails(Pushed)
  /\ outBuf' = <<>>
  /\ UNCHANGED <<stream, expected, at, tableVars, treeVars>>

\* Mutant: the bytes still in out_buf are not flushed.
FinishWithoutFlush ==
  /\ stage = "decoding"
  /\ decoded = expected
  /\ stage' = "accepted"
  /\ UNCHANGED <<stream, expected, at, tableVars, treeVars, sinkVars>>

FinishDecoding ==
  /\ stage = "decoding"
  /\ decoded = expected
  /\ Written(outBuf)
  /\ outBuf' = <<>>
  /\ stage' = "accepted"
  /\ UNCHANGED <<stream, expected, at, tableVars, treeVars, decoded>>

FinishFails ==
  /\ stage = "decoding"
  /\ decoded = expected
  /\ outBuf # <<>>
  /\ WriteFails(outBuf)
  /\ outBuf' = <<>>
  /\ UNCHANGED <<stream, expected, at, tableVars, treeVars, decoded>>

DecompressNext ==
  \/ DecodeEmpty
  \/ ReadCount
  \/ RejectCount
  \/ ReadEntry
  \/ RejectTruncatedTable
  \/ CheckSum
  \/ Fill
  \/ FillFails
  \/ FinishFilling
  \/ MergeHeap
  \/ FinishTree
  \/ ReadBit
  \/ RejectTruncatedBits
  \/ Emit
  \/ EmitFails
  \/ FinishDecoding
  \/ FinishFails

-----------------------------------------------------------------------------
DecompressTypeOK ==
  /\ stream \in Seq(Byte)
  /\ expected \in Size
  /\ at \in 0 .. Len(stream)
  /\ uniqueCount \in 0 .. MaxByte + 1
  /\ entriesRead \in 0 .. uniqueCount
  /\ table \in Frequencies
  /\ sum \in Size
  /\ \A node \in heap : NodeTypeOK(node)
  /\ path \in Seq(Bit)
  /\ readerByte \in Byte
  /\ readerCount \in 0 .. BitsPerByte - 1
  /\ decoded \in 0 .. expected
  /\ outBuf \in Seq(Byte)
  /\ out \in Seq(Byte)
  /\ sink \in {"good", "failed"}
  /\ stage \in {"idle", "counting", "reading", "filling", "building", "decoding",
                "accepted", "rejected"}
=============================================================================
