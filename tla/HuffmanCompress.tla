---------------------------- MODULE HuffmanCompress ----------------------------
(***************************************************************************)
(* HuffmanCompressor::compress of src/core/huffman.cpp with its BitWriter. *)
(*                                                                         *)
(* A first pass over the input counts its bytes and writes the frequency   *)
(* table; an input with at most one value needs nothing else.  Otherwise   *)
(* the tree is built and a second pass writes the bytes' codes bit by bit, *)
(* packed into bytes from the most significant bit down.                   *)
(*                                                                         *)
(* The table's puts are not checked one by one: a failure leaves `out` bad *)
(* and is noticed at the first bit, or at the end if there is none.        *)
(***************************************************************************)
EXTENDS HuffmanFormat

CONSTANT Inputs  \* the byte sequences that may be compressed

ASSUME InputsAssumption ==
  /\ Inputs \subseteq Seq(Byte)
  /\ \A x \in Inputs : Len(x) < SizeMod

VARIABLES
  input,        \* what the stream `in` holds
  frequencies,  \* frequencies
  nodes,        \* the nodes in `heap`, in the end the tree
  pos,          \* bytes the second pass has read
  code,         \* bits of the current byte's code still to be written
  writerByte,   \* writer.current_byte
  writerCount,  \* writer.bit_count
  payload,      \* what has been put into `out`
  outGood,      \* out.good()
  compressed    \* "counting", "building", "encoding", then "ok" or "failed"

writerVars == <<code, writerByte, writerCount, payload, outGood>>

compressVars == <<input, frequencies, nodes, pos, writerVars, compressed>>

CompressInit ==
  /\ input \in Inputs
  /\ frequencies = [v \in Byte |-> 0]
  /\ nodes = {}
  /\ pos = 0
  /\ code = <<>>
  /\ writerByte = 0
  /\ writerCount = 0
  /\ payload = <<>>
  /\ outGood = TRUE
  /\ compressed = "counting"

-----------------------------------------------------------------------------
Count(x) == [v \in Byte |-> Cardinality({i \in DOMAIN x : x[i] = v}) % SizeMod]

\* The sequence of puts that writes the table; from one that fails on, `out`
\* takes nothing more.
PutTable ==
  \/ payload' = TableBytes(frequencies') /\ outGood' = TRUE
  \/ /\ \E k \in 0 .. Len(TableBytes(frequencies')) - 1 :
          payload' = SubSeq(TableBytes(frequencies'), 1, k)
     /\ outGood' = FALSE

CountAndWriteTable ==
  /\ compressed = "counting"
  /\ frequencies' = Count(input)
  /\ PutTable
  /\ IF Cardinality(Occurring(frequencies')) <= 1
       THEN /\ compressed' = IF outGood' THEN "ok" ELSE "failed"
            /\ UNCHANGED nodes
       ELSE /\ compressed' = "building"
            /\ nodes' = MakeHeap(frequencies')
  /\ UNCHANGED <<input, pos, code, writerByte, writerCount>>

MergeNodes ==
  /\ compressed = "building"
  /\ Cardinality(nodes) > 1
  /\ nodes' \in MergeRound(nodes)
  /\ UNCHANGED <<input, frequencies, pos, writerVars, compressed>>

\* in.seekg(0) for the second pass, which may fail.
Rewind ==
  /\ compressed = "building"
  /\ IsTree(nodes)
  /\ compressed' \in {"encoding", "failed"}
  /\ UNCHANGED <<input, frequencies, nodes, pos, writerVars>>

-----------------------------------------------------------------------------
TakeByte ==
  /\ compressed = "encoding"
  /\ code = <<>>
  /\ pos < Len(input)
  /\ pos' = pos + 1
  /\ code' = Root(nodes).codes[input[pos + 1]]
  /\ UNCHANGED <<input, frequencies, nodes, writerByte, writerCount, payload,
                 outGood, compressed>>

Put(byte) ==
  \/ outGood /\ payload' = Append(payload, byte) /\ UNCHANGED outGood
  \/ outGood' = FALSE /\ UNCHANGED payload

\* current_byte << 1 | bit, on a uint8_t.
Shifted(bit) == (2 * writerByte + bit) % (MaxByte + 1)

\* write_bit, and the check of its result.
WriteBit ==
  /\ compressed = "encoding"
  /\ code # <<>>
  /\ code' = Tail(code)
  /\ IF writerCount + 1 = BitsPerByte
       THEN Put(Shifted(Head(code))) /\ writerByte' = 0 /\ writerCount' = 0
       ELSE /\ writerByte' = Shifted(Head(code))
            /\ writerCount' = writerCount + 1
            /\ UNCHANGED <<payload, outGood>>
  /\ compressed' = IF outGood' THEN "encoding" ELSE "failed"
  /\ UNCHANGED <<input, frequencies, nodes, pos>>

\* current_byte << (8 - bit_count), on a uint8_t.
LastByte == (writerByte * Power(2)[BitsPerByte - writerCount]) % (MaxByte + 1)

\* Mutant: a byte is written also when no bits are waiting.
FlushAlways ==
  /\ compressed = "encoding"
  /\ code = <<>>
  /\ pos = Len(input)
  /\ Put(LastByte)
  /\ compressed' = IF outGood' THEN "ok" ELSE "failed"
  /\ UNCHANGED <<input, frequencies, nodes, pos, code, writerByte, writerCount>>

\* flush: the bits of an unfinished byte are followed by zeros.
FlushBits ==
  /\ compressed = "encoding"
  /\ code = <<>>
  /\ pos = Len(input)
  /\ IF writerCount > 0
       THEN Put(LastByte) /\ writerByte' = 0 /\ writerCount' = 0
       ELSE UNCHANGED <<payload, outGood, writerByte, writerCount>>
  /\ compressed' = IF outGood' THEN "ok" ELSE "failed"
  /\ UNCHANGED <<input, frequencies, nodes, pos, code>>

CompressNext ==
  \/ CountAndWriteTable
  \/ MergeNodes
  \/ Rewind
  \/ TakeByte
  \/ WriteBit
  \/ FlushBits

-----------------------------------------------------------------------------
CompressTypeOK ==
  /\ input \in Inputs
  /\ frequencies \in Frequencies
  /\ \A node \in nodes : NodeTypeOK(node)
  /\ pos \in 0 .. Len(input)
  /\ code \in Seq(Bit)
  /\ writerByte \in Byte
  /\ writerCount \in 0 .. BitsPerByte - 1
  /\ payload \in Seq(Byte)
  /\ outGood \in BOOLEAN
  /\ compressed \in {"counting", "building", "encoding", "ok", "failed"}
=============================================================================
