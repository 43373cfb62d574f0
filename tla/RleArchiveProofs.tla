--------------------------- MODULE RleArchiveProofs ---------------------------
(***************************************************************************)
(* Proofs about RleArchive, for every alphabet size, buffer size, set of   *)
(* inputs and set of tails that the assumptions allow.                     *)
(***************************************************************************)
EXTENDS RleArchiveInv, SequenceTheorems, FiniteSetTheorems, TLAPS

-----------------------------------------------------------------------------
(***************************************************************************)
(* Type correctness.                                                       *)
(***************************************************************************)
\* An input is a sequence of bytes, far shorter than uint64_t can count.
LEMMA InputType == TypeOK => input \in Seq(Byte) /\ Len(input) + MaxByte < SizeMod
BY InputsAssumption DEF TypeOK, CompressTypeOK

\* A read moves forward and not past the end.
LEMMA ReadToType ==
  ASSUME NEW n \in Nat, NEW k \in 0 .. n
  PROVE  ReadTo(k, n) \in k .. n
BY ByteStreamAssumption DEF ReadTo

\* write_block appends two bytes.
LEMMA WriteBlockType ==
  ASSUME TypeOK, WriteBlock
  PROVE  payload' \in Seq(Byte) /\ cuts' \in Seq(Nat)
<1>1. payload \in Seq(Byte) /\ <<runLen, runVal>> \in Seq(Byte)
  BY DEF TypeOK, CompressTypeOK
<1>2. payload' \in Seq(Byte)
  BY <1>1, ConcatProperties DEF WriteBlock
<1>3. pos \in Nat /\ cuts \in Seq(Nat)
  BY InputType DEF TypeOK, CompressTypeOK
<1>4. cuts' \in Seq(Nat)
  BY <1>3, AppendProperties DEF WriteBlock
<1>. QED
  BY <1>2, <1>4

\* Every step of the encoder keeps its variables in their types.
LEMMA CompressType ==
  ASSUME TypeOK, CompressNext
  PROVE  CompressTypeOK'
<1>. USE DEF Byte
<1>1. /\ input \in Seq(Byte) /\ MaxByte \in Nat /\ MaxByte > 0
      /\ CompressTypeOK
  BY InputType, ByteStreamAssumption DEF TypeOK
<1>2. CASE FillBuffer
  <2>1. filled' \in filled .. Len(input)
    BY <1>1, <1>2, ReadToType DEF FillBuffer, CompressTypeOK
  <2>. QED
    BY <1>1, <1>2, <2>1 DEF FillBuffer, CompressTypeOK
<1>3. CASE StartRun
  BY <1>1, <1>3 DEF StartRun, AtByte, CompressTypeOK
<1>4. CASE ExtendRun
  BY <1>1, <1>4 DEF ExtendRun, AtByte, RunFull, CompressTypeOK
<1>5. CASE CloseRun
  BY <1>1, <1>5, WriteBlockType DEF CloseRun, AtByte, CompressTypeOK
<1>6. CASE FinishCompress
  <2>1. payload' \in Seq(Byte) /\ cuts' \in Seq(Nat)
    <3>1. CASE hasRun /\ runLen > 0
      BY <1>6, <3>1, WriteBlockType DEF FinishCompress
    <3>2. CASE ~(hasRun /\ runLen > 0)
      BY <1>1, <1>6, <3>2 DEF FinishCompress, CompressTypeOK
    <3>. QED
      BY <3>1, <3>2
  <2>2. /\ UNCHANGED <<input, filled, pos, hasRun, runVal, runLen>>
        /\ compressed' = "ok"
    BY <1>6 DEF FinishCompress
  <2>. QED
    BY <1>1, <2>1, <2>2 DEF CompressTypeOK
<1>7. CASE WriteBlockFails
  <2>1. payload' \in Seq(Byte)
    <3>1. payload \in Seq(Byte) /\ Append(payload, runLen) \in Seq(Byte)
      BY <1>1, AppendProperties DEF CompressTypeOK
    <3>. QED
      BY <3>1, <1>7 DEF WriteBlockFails
  <2>2. /\ UNCHANGED <<input, filled, pos, hasRun, runVal, runLen, cuts>>
        /\ compressed' = "failed"
    BY <1>7 DEF WriteBlockFails
  <2>. QED
    BY <1>1, <2>1, <2>2 DEF CompressTypeOK
<1>. QED
  BY <1>2, <1>3, <1>4, <1>5, <1>6, <1>7 DEF CompressNext

\* What the type invariant says of the bounds of the decoder's counters.
LEMMA DecoderType ==
  TypeOK => /\ stream \in Seq(Byte) /\ Len(stream) \in Nat
            /\ outBuf \in Seq(Byte) /\ out \in Seq(Byte)
            /\ fetched \in Nat /\ at \in Nat /\ at <= fetched
            /\ fetched <= Len(stream)
            /\ count \in Nat /\ copies \in Nat /\ total \in Nat /\ expected \in Nat
BY DEF TypeOK, DecompressTypeOK, Byte, Size

\* What is pushed into outBuf, and what flush_out_buf writes, are bytes.
LEMMA FlushToType ==
  ASSUME TypeOK, NEW bytes \in Seq(Byte), FlushTo(bytes)
  PROVE  out' \in Seq(Byte) /\ outBuf' \in Seq(Byte) /\ sink' = sink
<1>1. out \o bytes \in Seq(Byte)
  BY DecoderType, ConcatProperties
<1>. QED
  BY <1>1 DEF FlushTo

\* A failed flush leaves bytes and a verdict behind.
LEMMA FlushFailsType ==
  ASSUME TypeOK, NEW bytes \in Seq(Byte), FlushFails(bytes)
  PROVE  /\ out' \in Seq(Byte) /\ outBuf' \in Seq(Byte)
         /\ sink' = "failed" /\ verdict' = "rejected"
<1>1. PICK k \in 0 .. Len(bytes) : out' = out \o SubSeq(bytes, 1, k)
  BY DEF FlushFails
<1>2. SubSeq(bytes, 1, k) \in Seq(Byte)
  BY SubSeqProperties
<1>3. out' \in Seq(Byte)
  BY <1>1, <1>2, DecoderType, ConcatProperties
<1>. QED
  BY <1>3 DEF FlushFails

\* What TypeOK lacks to be inductive: the inner loop runs only after a value has
\* been read, and nothing is fetched before the call.
CursorInv == (copies > 0 => at > 0) /\ (verdict = "idle" => fetched = 0 /\ at = 0)

\* Pushing a byte keeps out_buf a sequence of bytes.
LEMMA PushedType ==
  ASSUME TypeOK, CursorInv, copies > 0
  PROVE  /\ stream[at] \in Byte
         /\ Pushed \in Seq(Byte)
         /\ Len(Pushed) = Len(outBuf) + 1
<1>1. at \in 1 .. Len(stream) /\ stream \in Seq(Byte) /\ outBuf \in Seq(Byte)
  BY DecoderType DEF CursorInv
<1>2. stream[at] \in Byte
  BY <1>1, ElementOfSeq
<1>. QED
  BY <1>1, <1>2, AppendProperties DEF Pushed

\* The inner loop's counters stay in their types.
LEMMA CountCopyType ==
  ASSUME TypeOK, copies > 0, CountCopy
  PROVE  /\ copies' \in Byte /\ copies' = copies - 1
         /\ total' \in Size /\ hasCount' \in BOOLEAN /\ count' \in Byte
<1>1. copies' \in Byte /\ copies' = copies - 1 /\ count' \in Byte
  BY ByteStreamAssumption DEF TypeOK, DecompressTypeOK, Byte, CountCopy
<1>2. (total + count) % SizeMod \in Size
  BY ByteStreamAssumption DEF TypeOK, DecompressTypeOK, Byte, Size
<1>3. total' \in Size /\ hasCount' \in BOOLEAN
  BY <1>2 DEF TypeOK, DecompressTypeOK, CountCopy
<1>. QED
  BY <1>1, <1>3

\* Every step of the decoder keeps its variables in their types.
LEMMA DecompressType ==
  ASSUME TypeOK, CursorInv, DecompressNext
  PROVE  DecompressTypeOK' /\ CursorInv'
<1>. USE DEF cursorVars, countVars, sinkVars, CursorInv
<1>1. DecompressTypeOK /\ MaxByte \in Nat /\ MaxByte > 0
  BY ByteStreamAssumption DEF TypeOK
<1>2. CASE DecodeEmpty
  BY <1>1, <1>2 DEF DecodeEmpty, DecompressTypeOK
<1>3. CASE FetchBuffer
  <2>1. fetched' \in fetched .. Len(stream)
    BY <1>1, <1>3, ReadToType DEF FetchBuffer, DecompressTypeOK
  <2>. QED
    BY <1>1, <1>3, <2>1 DEF FetchBuffer, InLoop, DecompressTypeOK
<1>4. CASE TakeCount
  <2>1. at + 1 \in 1 .. Len(stream) /\ stream \in Seq(Byte)
    BY <1>4, DecoderType DEF TakeCount, AtStreamByte
  <2>2. stream[at + 1] \in Byte
    BY <2>1, ElementOfSeq
  <2>3. at' \in 1 .. fetched /\ count' \in Byte
    BY <1>1, <1>4, <2>2 DEF TakeCount, AtStreamByte, DecompressTypeOK
  <2>4. hasCount' \in BOOLEAN
    <3>1. CASE count' = 0
      BY <1>1, <1>4, <3>1 DEF TakeCount, DecompressTypeOK
    <3>2. CASE count' # 0
      BY <1>4, <3>2 DEF TakeCount
    <3>. QED
      BY <3>1, <3>2
  <2>5. verdict' \in {"idle", "running", "accepted", "rejected"}
    BY <1>1, <1>4 DEF TakeCount, DecompressTypeOK
  <2>. QED
    BY <1>1, <1>4, <2>3, <2>4, <2>5 DEF TakeCount, DecompressTypeOK
<1>5. CASE TakeValue
  <2>1. /\ copies' \in Byte
        /\ verdict' \in {"idle", "running", "accepted", "rejected"}
        /\ at' \in 1 .. fetched
    BY <1>1, <1>5 DEF TakeValue, AtStreamByte, DecompressTypeOK
  <2>. QED
    BY <1>1, <1>5, <2>1 DEF TakeValue, DecompressTypeOK
<1>6. CASE PushCopy
  <2>1. out' \in Seq(Byte) /\ outBuf' \in Seq(Byte) /\ sink' = sink
    BY <1>1, <1>6, PushedType, FlushToType DEF PushCopy, DecompressTypeOK
  <2>2. /\ copies' \in Byte /\ copies' = copies - 1
        /\ total' \in Size /\ hasCount' \in BOOLEAN /\ count' \in Byte
    BY <1>6, CountCopyType DEF PushCopy
  <2>3. UNCHANGED <<stream, expected, fetched, at, verdict>> /\ copies > 0
    BY <1>6 DEF PushCopy
  <2>. QED
    BY <1>1, <2>1, <2>2, <2>3 DEF DecompressTypeOK, Byte
<1>7. CASE PushCopyFails
  <2>1. out' \in Seq(Byte) /\ outBuf' \in Seq(Byte) /\ sink' = "failed"
        /\ verdict' = "rejected"
    BY <1>7, PushedType, FlushFailsType DEF PushCopyFails
  <2>2. UNCHANGED <<stream, expected, fetched, at, hasCount, count, copies, total>>
    BY <1>7 DEF PushCopyFails
  <2>. QED
    BY <1>1, <2>1, <2>2 DEF DecompressTypeOK
<1>8. CASE RejectDangling
  BY <1>1, <1>8 DEF RejectDangling, DecompressTypeOK
<1>9. CASE FinishDecompress
  <2>1. out' \in Seq(Byte) /\ outBuf' \in Seq(Byte) /\ sink' = sink
    BY <1>9, DecoderType, FlushToType DEF FinishDecompress
  <2>2. verdict' \in {"accepted", "rejected"}
    BY <1>9 DEF FinishDecompress, SizeVerdict
  <2>3. UNCHANGED <<stream, expected, fetched, at, hasCount, count, copies, total>>
    BY <1>9 DEF FinishDecompress
  <2>. QED
    BY <1>1, <2>1, <2>2, <2>3 DEF DecompressTypeOK
<1>10. CASE FinishFails
  <2>1. out' \in Seq(Byte) /\ outBuf' \in Seq(Byte) /\ sink' = "failed"
        /\ verdict' = "rejected"
    BY <1>10, DecoderType, FlushFailsType DEF FinishFails
  <2>2. UNCHANGED <<stream, expected, fetched, at, hasCount, count, copies, total>>
    BY <1>10 DEF FinishFails
  <2>. QED
    BY <1>1, <2>1, <2>2 DEF DecompressTypeOK
<1>. QED
  BY <1>2, <1>3, <1>4, <1>5, <1>6, <1>7, <1>8, <1>9, <1>10 DEF DecompressNext

\* Whatever happens to the archive, what is decoded is a sequence of bytes.
LEMMA StoreType ==
  ASSUME TypeOK, CursorInv, Store
  PROVE  TypeOK' /\ CursorInv'
<1>. USE DEF countVars, sinkVars, StartDecompress
<1>1. payload \in Seq(Byte) /\ input \in Seq(Byte) /\ Len(input) \in Size
  <2>1. payload \in Seq(Byte) /\ input \in Seq(Byte) /\ Len(input) + MaxByte < SizeMod
    BY InputType DEF TypeOK, CompressTypeOK
  <2>. QED
    BY <2>1, ByteStreamAssumption DEF Size
<1>2. CompressTypeOK'
  BY DEF Store, TypeOK, CompressTypeOK, compressVars
<1>3. /\ UNCHANGED <<fetched, at, hasCount, count, copies, total, outBuf, out, sink>>
      /\ verdict = "idle" /\ verdict' = "running"
  BY DEF Store, StoreIntact, StoreTruncated, StoreExtended, StoreResized, StoreAltered
<1>4. stream' \in Seq(Byte) /\ expected' \in Size
  <2>1. CASE StoreIntact
    BY <1>1, <2>1 DEF StoreIntact
  <2>2. CASE StoreTruncated
    <3>1. PICK n \in 0 .. Len(payload) - 1 : StartDecompress(SubSeq(payload, 1, n), Len(input))
      BY <2>2 DEF StoreTruncated
    <3>2. SubSeq(payload, 1, n) \in Seq(Byte)
      BY <1>1, SubSeqProperties
    <3>. QED
      BY <1>1, <3>1, <3>2
  <2>3. CASE StoreExtended
    <3>1. PICK tail \in Tails : StartDecompress(payload \o tail, Len(input))
      BY <2>3 DEF StoreExtended
    <3>2. tail \in Seq(Byte)
      BY TailsAssumption
    <3>3. payload \o tail \in Seq(Byte)
      BY <1>1, <3>2, ConcatProperties
    <3>. QED
      BY <1>1, <3>1, <3>3
  <2>4. CASE StoreResized
    BY <1>1, <2>4 DEF StoreResized
  <2>5. CASE StoreAltered
    <3>1. PICK i \in 1 .. Len(payload), b \in Byte :
            StartDecompress([payload EXCEPT ![i] = b], Len(input))
      BY <2>5 DEF StoreAltered
    <3>2. [payload EXCEPT ![i] = b] \in Seq(Byte)
      BY <1>1, ExceptSeq
    <3>. QED
      BY <1>1, <3>1, <3>2
  <2>. QED
    BY <2>1, <2>2, <2>3, <2>4, <2>5 DEF Store
<1>5. damage' \in {"none", "truncated", "extended", "resized", "altered"}
  BY DEF Store, StoreIntact, StoreTruncated, StoreExtended, StoreResized, StoreAltered, TypeOK
<1>6. DecompressTypeOK'
  BY <1>3, <1>4 DEF DecompressTypeOK, TypeOK, CursorInv
<1>. QED
  BY <1>2, <1>3, <1>5, <1>6 DEF TypeOK, CursorInv

\* The types hold initially.
LEMMA InitType == Init => TypeOK /\ CursorInv
<1>. SUFFICES ASSUME Init PROVE TypeOK /\ CursorInv
  OBVIOUS
<1>1. MaxByte \in Nat /\ SizeMod \in Nat \ {0} /\ Inputs \subseteq Seq(Byte)
  BY ByteStreamAssumption, InputsAssumption
<1>2. CompressTypeOK
  <2>1. input \in Inputs /\ Len(input) \in Nat
    BY <1>1 DEF Init, CompressInit
  <2>2. filled \in 0 .. Len(input) /\ pos \in 0 .. filled
    BY <2>1 DEF Init, CompressInit
  <2>3. runVal \in Byte /\ runLen \in Byte
    BY <1>1 DEF Init, CompressInit, Byte
  <2>4. payload \in Seq(Byte) /\ cuts \in Seq(Nat)
    BY EmptySeq DEF Init, CompressInit
  <2>5. hasRun \in BOOLEAN /\ compressed \in {"running", "ok", "failed"}
    BY DEF Init, CompressInit
  <2>. QED
    BY <2>1, <2>2, <2>3, <2>4, <2>5 DEF CompressTypeOK
<1>3. DecompressTypeOK
  <2>1. stream \in Seq(Byte) /\ Len(stream) = 0 /\ outBuf \in Seq(Byte) /\ out \in Seq(Byte)
    BY EmptySeq DEF Init, DecompressInit
  <2>2. expected \in Size /\ total \in Size /\ count \in Byte /\ copies \in Byte
    BY <1>1 DEF Init, DecompressInit, Byte, Size
  <2>3. fetched \in 0 .. Len(stream) /\ at \in 0 .. fetched
    BY <2>1 DEF Init, DecompressInit
  <2>4. /\ hasCount \in BOOLEAN /\ sink \in {"good", "failed"}
        /\ verdict \in {"idle", "running", "accepted", "rejected"}
    BY DEF Init, DecompressInit
  <2>. QED
    BY <2>1, <2>2, <2>3, <2>4 DEF DecompressTypeOK
<1>4. CursorInv
  BY DEF Init, DecompressInit, CursorInv
<1>. QED
  BY <1>2, <1>3, <1>4 DEF Init, TypeOK

\* Every step keeps the types.
LEMMA NextType == TypeOK /\ CursorInv /\ [Next]_vars => TypeOK' /\ CursorInv'
<1>. SUFFICES ASSUME TypeOK, CursorInv, [Next]_vars PROVE TypeOK' /\ CursorInv'
  OBVIOUS
<1>1. CASE Compress
  <2>1. CompressTypeOK' /\ UNCHANGED <<decompressVars, damage>>
    BY <1>1, CompressType DEF Compress
  <2>. QED
    BY <2>1 DEF TypeOK, CursorInv, DecompressTypeOK, decompressVars
<1>2. CASE Store
  BY <1>2, StoreType
<1>3. CASE Decompress
  <2>1. DecompressTypeOK' /\ CursorInv' /\ UNCHANGED <<compressVars, damage>>
    BY <1>3, DecompressType DEF Decompress
  <2>. QED
    BY <2>1 DEF TypeOK, CompressTypeOK, compressVars
<1>4. CASE UNCHANGED vars
  BY <1>4 DEF vars, compressVars, decompressVars, TypeOK, CompressTypeOK, DecompressTypeOK,
     CursorInv
<1>. QED
  BY <1>1, <1>2, <1>3, <1>4 DEF Next

\* Every variable of both halves keeps its type: in particular the decoder never
\* reads past what it fetched, and its counters stay within their widths, for
\* any stream it is given (rle.cpp:62-136).
THEOREM TypeCorrect == Spec => []TypeOK
<1>1. Spec => [](TypeOK /\ CursorInv)
  BY InitType, NextType, PTL DEF Spec
<1>. QED
  BY <1>1, PTL

-----------------------------------------------------------------------------
(***************************************************************************)
(* Compression: the payload tiles the input.                               *)
(***************************************************************************)
\* The elements of a sequence two were appended to.
LEMMA PairAppended ==
  ASSUME NEW s \in Seq(Byte), NEW a \in Byte, NEW b \in Byte
  PROVE  /\ Len(s \o <<a, b>>) = Len(s) + 2
         /\ \A i \in 1 .. Len(s) : (s \o <<a, b>>)[i] = s[i]
         /\ (s \o <<a, b>>)[Len(s) + 1] = a
         /\ (s \o <<a, b>>)[Len(s) + 2] = b
<1>1. <<a, b>> \in Seq(Byte) /\ Len(<<a, b>>) = 2 /\ <<a, b>>[1] = a /\ <<a, b>>[2] = b
  OBVIOUS
<1>2. /\ Len(s) \in Nat
      /\ Len(s \o <<a, b>>) = Len(s) + 2
      /\ \A i \in 1 .. Len(s) + 2 :
           (s \o <<a, b>>)[i] = IF i <= Len(s) THEN s[i] ELSE <<a, b>>[i - Len(s)]
  BY <1>1, ConcatProperties, LenProperties
<1>. QED
  BY <1>1, <1>2

TilesInv == BlocksInv /\ RunInv

\* The run that is written becomes the last block.
LEMMA WriteBlockTiles ==
  ASSUME TypeOK, TilesInv, compressed = "running", hasRun, WriteBlock,
         input' = input, compressed' # "failed"
  PROVE  /\ BlocksInv'
         /\ Blocks' = Blocks + 1
         /\ Cut(Blocks)' = pos
<1>0. PICK n \in Nat : n = Blocks
  BY InputType DEF TypeOK, CompressTypeOK, Blocks
<1>1. /\ payload \in Seq(Byte) /\ runLen \in Byte /\ runVal \in Byte
      /\ cuts \in Seq(Nat) /\ n = Len(cuts) /\ pos \in Nat
      /\ runLen \in 1 .. MaxByte /\ MaxByte \in Nat
  BY <1>0, InputType, ByteStreamAssumption
     DEF TypeOK, CompressTypeOK, TilesInv, RunInv, Blocks, Byte
<1>2. /\ Len(payload) = 2 * n
      /\ \A k \in 1 .. n : BlockIsRun(k)
      /\ \A j, k \in 0 .. n : j < k => Cut(j) < Cut(k)
      /\ Cut(n) + runLen = pos
      /\ \A p \in Cut(n) + 1 .. pos : input[p] = runVal
  BY <1>0 DEF TilesInv, BlocksInv, RunInv
<1>3. /\ Len(payload') = 2 * (n + 1)
      /\ \A i \in 1 .. 2 * n : payload'[i] = payload[i]
      /\ payload'[2 * n + 1] = runLen
      /\ payload'[2 * n + 2] = runVal
  <2>. DEFINE s == payload \o <<runLen, runVal>>
  <2>1. /\ Len(s) = Len(payload) + 2
        /\ \A i \in 1 .. Len(payload) : s[i] = payload[i]
        /\ s[Len(payload) + 1] = runLen
        /\ s[Len(payload) + 2] = runVal
    BY <1>1, PairAppended
  <2>2. payload' = s
    BY DEF WriteBlock
  <2>3. 2 * n \in Nat /\ 2 * (n + 1) = 2 * n + 2
    BY <1>1
  <2>. HIDE DEF s
  <2>. QED
    BY <1>2, <2>1, <2>2, <2>3
<1>4. /\ Blocks' = n + 1
      /\ \A k \in 0 .. n : Cut(k)' = Cut(k)
      /\ Cut(n + 1)' = pos
  BY <1>1, AppendProperties DEF WriteBlock, Blocks, Cut
<1>5. \A k \in 0 .. n : Cut(k) \in Nat /\ Cut(k) <= Cut(n)
  <2>1. \A k \in 0 .. n : Cut(k) \in Nat
    BY <1>1, ElementOfSeq DEF Cut, Blocks
  <2>. QED
    BY <1>1, <1>2, <2>1
<1>6. ASSUME NEW k \in 1 .. n + 1 PROVE BlockIsRun(k)'
  <2>1. CASE k = n + 1
    <3>1. 2 * k - 1 = 2 * n + 1 /\ 2 * k = 2 * n + 2 /\ k - 1 = n
      BY <1>1, <2>1
    <3>2. Cut(k)' = pos /\ Cut(k - 1)' = Cut(n) /\ payload'[2 * k - 1] = runLen
          /\ payload'[2 * k] = runVal
      BY <1>1, <1>3, <1>4, <2>1, <3>1
    <3>. QED
      BY <1>1, <1>2, <3>2 DEF BlockIsRun
  <2>2. CASE k \in 1 .. n
    <3>1. BlockIsRun(k)
      BY <1>2, <2>2
    <3>2. k - 1 \in 0 .. n /\ 2 * k - 1 \in 1 .. 2 * n /\ 2 * k \in 1 .. 2 * n
      BY <1>1, <2>2
    <3>3. Cut(k)' = Cut(k) /\ Cut(k - 1)' = Cut(k - 1)
          /\ payload'[2 * k - 1] = payload[2 * k - 1] /\ payload'[2 * k] = payload[2 * k]
      BY <1>3, <1>4, <2>2, <3>2
    <3>. QED
      BY <3>1, <3>3 DEF BlockIsRun
  <2>. QED
    BY <1>1, <2>1, <2>2
<1>7. \A j, k \in 0 .. n + 1 : j < k => Cut(j)' < Cut(k)'
  <2>. SUFFICES ASSUME NEW j \in 0 .. n + 1, NEW k \in 0 .. n + 1, j < k
                PROVE  Cut(j)' < Cut(k)'
    OBVIOUS
  <2>1. j \in 0 .. n /\ Cut(j)' = Cut(j) /\ Cut(j) \in Nat /\ Cut(n) \in Nat
        /\ Cut(j) <= Cut(n)
    BY <1>1, <1>4, <1>5
  <2>2. CASE k = n + 1
    <3>1. Cut(k)' = pos
      BY <1>4, <2>2
    <3>. QED
      BY <1>1, <1>2, <2>1, <3>1
  <2>3. CASE k \in 0 .. n
    BY <1>2, <1>4, <2>1, <2>3
  <2>. QED
    BY <2>2, <2>3
<1>. QED
  BY <1>0, <1>1, <1>3, <1>4, <1>6, <1>7 DEF BlocksInv

\* Actions that write no block leave the tiling alone.
LEMMA NoBlockTiles ==
  ASSUME TilesInv, UNCHANGED <<payload, cuts, input>>, compressed # "failed"
  PROVE  BlocksInv' /\ Blocks' = Blocks /\ Cut(Blocks)' = Cut(Blocks)
BY DEF TilesInv, BlocksInv, BlockIsRun, Cut, Blocks

\* Every step of the encoder keeps the payload a tiling of the input.
LEMMA CompressTiles ==
  ASSUME TypeOK, TilesInv, CompressNext
  PROVE  TilesInv'
<1>1. /\ MaxByte \in Nat /\ pos \in Nat /\ runLen \in 0 .. MaxByte
      /\ Blocks \in Nat /\ Cut(Blocks) \in Nat
  <2>1. /\ MaxByte \in Nat /\ pos \in Nat /\ runLen \in 0 .. MaxByte
        /\ cuts \in Seq(Nat)
    BY InputType, ByteStreamAssumption DEF TypeOK, CompressTypeOK, Byte
  <2>2. Blocks \in Nat
    BY <2>1 DEF Blocks
  <2>3. Cut(Blocks) \in Nat
    BY <2>1, <2>2, ElementOfSeq DEF Blocks, Cut
  <2>. QED
    BY <2>1, <2>2, <2>3
<1>2. CASE FillBuffer
  <2>1. BlocksInv' /\ Cut(Blocks)' = Cut(Blocks) /\ Blocks' = Blocks
    BY <1>2, NoBlockTiles DEF FillBuffer
  <2>. QED
    BY <1>2, <2>1 DEF FillBuffer, TilesInv, RunInv
<1>3. CASE StartRun
  <2>1. BlocksInv' /\ Cut(Blocks)' = Cut(Blocks) /\ Blocks' = Blocks
    BY <1>3, NoBlockTiles DEF StartRun, AtByte
  <2>2. pos = 0 /\ Blocks = 0 /\ Cut(Blocks) = 0
    BY <1>3 DEF StartRun, AtByte, TilesInv, RunInv, Cut
  <2>3. compressed' = "running" /\ hasRun' /\ runLen' = 1 /\ pos' = 1
        /\ runVal' = input'[1]
    BY <1>3, <2>2 DEF StartRun, AtByte
  <2>. QED
    BY <2>1, <2>2, <2>3 DEF TilesInv, RunInv
<1>4. CASE ExtendRun
  <2>1. BlocksInv' /\ Cut(Blocks)' = Cut(Blocks) /\ Blocks' = Blocks
    BY <1>4, NoBlockTiles DEF ExtendRun, AtByte
  <2>2. compressed' = "running" /\ hasRun' /\ runVal' = runVal /\ input' = input
        /\ pos' = pos + 1 /\ input[pos + 1] = runVal
    BY <1>4 DEF ExtendRun, AtByte
  <2>3. runLen' = runLen + 1
    BY <1>1, <1>4 DEF ExtendRun, RunFull
  <2>4. runLen >= 1 /\ Cut(Blocks) + runLen = pos
        /\ \A p \in Cut(Blocks) + 1 .. pos : input[p] = runVal
    BY <1>4 DEF ExtendRun, AtByte, TilesInv, RunInv
  <2>5. \A p \in Cut(Blocks) + 1 .. pos + 1 : input[p] = runVal
    BY <1>1, <2>2, <2>4
  <2>6. RunInv'
    BY <1>1, <2>1, <2>2, <2>3, <2>4, <2>5 DEF RunInv
  <2>. QED
    BY <2>1, <2>6 DEF TilesInv
<1>5. CASE CloseRun
  <2>1. BlocksInv' /\ Cut(Blocks)' = pos
    BY <1>5, WriteBlockTiles DEF CloseRun, AtByte, MustClose
  <2>2. compressed' = "running" /\ hasRun' /\ runLen' = 1 /\ pos' = pos + 1
        /\ runVal' = input'[pos + 1]
    BY <1>5 DEF CloseRun, AtByte, MustClose
  <2>3. RunInv'
    BY <1>1, <2>1, <2>2 DEF RunInv
  <2>. QED
    BY <2>1, <2>3 DEF TilesInv
<1>6. CASE FinishCompress
  <2>1. compressed = "running" /\ pos = Len(input) /\ input' = input /\ compressed' = "ok"
    BY <1>6 DEF FinishCompress, AtEnd
  <2>2. BlocksInv' /\ Cut(Blocks)' = Len(input)
    <3>1. CASE hasRun
      <4>1. runLen > 0
        BY <1>1, <2>1, <3>1 DEF TilesInv, RunInv
      <4>2. WriteBlock
        BY <1>6, <3>1, <4>1 DEF FinishCompress
      <4>. QED
        BY <2>1, <3>1, <4>2, WriteBlockTiles
    <3>2. CASE ~hasRun
      <4>1. UNCHANGED <<payload, cuts>>
        BY <1>6, <3>2 DEF FinishCompress
      <4>2. pos = 0 /\ Blocks = 0 /\ Cut(Blocks) = 0
        BY <2>1, <3>2 DEF TilesInv, RunInv, Cut
      <4>. QED
        BY <2>1, <4>1, <4>2, NoBlockTiles
    <3>. QED
      BY <3>1, <3>2
  <2>. QED
    BY <2>1, <2>2 DEF TilesInv, RunInv
<1>7. CASE WriteBlockFails
  BY <1>7 DEF WriteBlockFails, TilesInv, BlocksInv, RunInv
<1>. QED
  BY <1>2, <1>3, <1>4, <1>5, <1>6, <1>7 DEF CompressNext

\* What write_block changes of the tiling.
LEMMA BlockAdded ==
  ASSUME TypeOK, WriteBlock
  PROVE  \E n \in Nat : /\ Blocks = n /\ Blocks' = n + 1
                        /\ \A k \in 0 .. n : Cut(k)' = Cut(k)
                        /\ Cut(n + 1)' = pos
<1>1. cuts \in Seq(Nat) /\ pos \in Nat
  BY InputType DEF TypeOK, CompressTypeOK
<1>2. PICK n \in Nat : n = Len(cuts)
  BY <1>1
<1>3. /\ Len(cuts') = n + 1 /\ cuts'[n + 1] = pos
      /\ \A k \in 1 .. n : cuts'[k] = cuts[k]
  BY <1>1, <1>2, AppendProperties DEF WriteBlock
<1>4. (\A k \in 0 .. n : Cut(k)' = Cut(k)) /\ Cut(n + 1)' = pos
  BY <1>3 DEF Cut
<1>. QED
  BY <1>2, <1>3, <1>4 DEF Blocks

CompressInv == TilesInv /\ LongestInv

\* A run is closed only when it must be, and with it the block it becomes.
LEMMA CompressKeepsLongest ==
  ASSUME TypeOK, CompressInv, CompressNext
  PROVE  LongestInv'
<1>1. LongestInv /\ TilesInv /\ input' = input
  BY DEF CompressInv, CompressNext, FillBuffer, StartRun, ExtendRun, CloseRun, FinishCompress,
     WriteBlockFails
<1>2. CASE UNCHANGED cuts /\ compressed # "failed"
  BY <1>1, <1>2 DEF LongestInv, Blocks, Cut
<1>3. ASSUME WriteBlock, compressed = "running", hasRun,
             pos = Len(input) \/ input[pos + 1] # runVal \/ RunFull
      PROVE  LongestInv'
  <2>1. runLen \in Nat /\ runLen >= 1 /\ Cut(Blocks) + runLen = pos /\ input[pos] = runVal
    <3>1. /\ runLen >= 1 /\ Cut(Blocks) + runLen = pos
          /\ \A p \in Cut(Blocks) + 1 .. pos : input[p] = runVal
      BY <1>1, <1>3 DEF TilesInv, RunInv
    <3>2. cuts \in Seq(Nat) /\ pos \in Nat /\ runLen \in Nat
      BY InputType, ByteStreamAssumption DEF TypeOK, CompressTypeOK, Byte
    <3>3. Cut(Blocks) \in Nat
      BY <3>2, ElementOfSeq DEF Cut, Blocks
    <3>4. pos \in Cut(Blocks) + 1 .. pos
      BY <3>1, <3>2, <3>3
    <3>. QED
      BY <3>1, <3>2, <3>4
  <2>3. PICK n \in Nat : /\ Blocks = n /\ Blocks' = n + 1
                         /\ \A k \in 0 .. n : Cut(k)' = Cut(k)
                         /\ Cut(n + 1)' = pos
    BY <1>3, BlockAdded
  <2>. SUFFICES ASSUME NEW k \in 1 .. n + 1
                PROVE  \/ Cut(k)' = Len(input')
                       \/ input'[Cut(k)' + 1] # input'[Cut(k)']
                       \/ Cut(k)' = Cut(k - 1)' + MaxByte
    BY <2>3 DEF LongestInv
  <2>4. CASE k = n + 1
    <3>1. k - 1 = n /\ n \in 0 .. n
      BY <2>4
    <3>3. Cut(k)' = pos /\ Cut(k - 1)' = Cut(Blocks)
      BY <2>3, <2>4, <3>1
    <3>2. pos = Len(input) \/ input[pos + 1] # input[pos] \/ pos = Cut(Blocks) + MaxByte
      BY <1>3, <2>1 DEF RunFull
    <3>. QED
      BY <1>1, <3>2, <3>3
  <2>5. CASE k \in 1 .. n
    <3>1. k \in 0 .. n /\ k - 1 \in 0 .. n
      BY <2>3, <2>5
    <3>2. Cut(k)' = Cut(k) /\ Cut(k - 1)' = Cut(k - 1)
      BY <2>3, <3>1
    <3>. QED
      BY <1>1, <1>3, <2>3, <2>5, <3>2 DEF LongestInv
  <2>. QED
    BY <2>3, <2>4, <2>5
<1>4. CASE CloseRun
  BY <1>3, <1>4 DEF CloseRun, AtByte, MustClose
<1>5. CASE FinishCompress
  BY <1>2, <1>3, <1>5 DEF FinishCompress, AtEnd
<1>. QED
  BY <1>2, <1>4, <1>5 DEF CompressNext, FillBuffer, StartRun, ExtendRun, WriteBlockFails,
     LongestInv, AtByte
\* What the decoder may rely on once the payload is complete.
LEMMA Tiling ==
  ASSUME TypeOK, CompressInv, compressed = "ok"
  PROVE  /\ Blocks \in Nat
         /\ Len(payload) = 2 * Blocks
         /\ Cut(0) = 0
         /\ Cut(Blocks) = Len(input)
         /\ \A k \in 0 .. Blocks : Cut(k) \in 0 .. Len(input)
         /\ \A k \in 0 .. Blocks - 1 : Cut(k) < Len(input)
         /\ \A k \in 1 .. Blocks : BlockIsRun(k)
<1>1. cuts \in Seq(Nat) /\ Blocks \in Nat /\ Len(input) \in Nat
  BY InputType DEF TypeOK, CompressTypeOK, Blocks
<1>2. \A k \in 0 .. Blocks : Cut(k) \in Nat
  BY <1>1, ElementOfSeq DEF Cut, Blocks
<1>3. /\ Len(payload) = 2 * Blocks
      /\ Cut(Blocks) = Len(input)
      /\ \A k \in 1 .. Blocks : BlockIsRun(k)
      /\ \A j, k \in 0 .. Blocks : j < k => Cut(j) < Cut(k)
  BY DEF CompressInv, TilesInv, BlocksInv, RunInv
<1>4. \A k \in 0 .. Blocks - 1 : Cut(k) < Len(input)
  BY <1>1, <1>3
<1>5. \A k \in 0 .. Blocks : Cut(k) \in 0 .. Len(input)
  BY <1>1, <1>2, <1>3, <1>4
<1>. QED
  BY <1>1, <1>3, <1>4, <1>5 DEF Cut

-----------------------------------------------------------------------------
(***************************************************************************)
(* Decompression.                                                          *)
(***************************************************************************)
DecodeInv ==
  /\ SizeInv
  /\ PositionInv
  /\ RestoredInv
  /\ AcceptedIsOriginal
  /\ RejectedForCause

\* The invariant, grouped by the half of the program it is about.
LEMMA IInvParts == IInv <=> TypeOK /\ CompressInv /\ StreamInv /\ DecodeInv
BY DEF IInv, CompressInv, TilesInv, DecodeInv

\* What has been restored is a sequence of bytes.
LEMMA RestoredType ==
  TypeOK => /\ Restored \in Seq(Byte)
            /\ Len(out) \in Nat /\ Len(outBuf) \in Nat
            /\ Len(Restored) = Len(out) + Len(outBuf)
BY DecoderType, ConcatProperties, LenProperties DEF Restored

\* Before the decompressor is called nothing has been restored.
LEMMA IdleDecode ==
  ASSUME TypeOK, DecompressInit, damage = "none"
  PROVE  DecodeInv
<1>1. Restored = <<>> /\ Len(out) = 0 /\ Len(outBuf) = 0 /\ Len(Restored) = 0
  BY EmptySeq DEF DecompressInit, Restored
<1>2. input \in Seq(Byte) /\ Len(input) \in Nat
  BY InputType
<1>3. RestoredInv
  BY <1>1, <1>2 DEF RestoredInv
<1>4. SizeInv
  BY <1>1, ByteStreamAssumption DEF SizeInv, WithinDeclaredSize, DecompressInit
<1>. QED
  BY <1>3, <1>4 DEF DecodeInv, PositionInv, AcceptedIsOriginal, RejectedForCause, DecompressInit

\* The encoder's steps keep the whole invariant: the decoder has not started.
LEMMA CompressStep ==
  ASSUME IInv, Compress
  PROVE  IInv'
<1>1. TypeOK /\ CompressInv /\ StreamInv
  BY IInvParts
<1>2. verdict = "idle"
  <2>1. compressed = "running"
    BY DEF Compress, CompressNext, FillBuffer, StartRun, ExtendRun, CloseRun, FinishCompress,
       WriteBlockFails, AtByte, AtEnd
  <2>. QED
    BY <1>1, <2>1 DEF StreamInv
<1>3. TypeOK'
  <2>1. CursorInv
    BY <1>1, <1>2 DEF StreamInv, DecompressInit, CursorInv
  <2>. QED
    BY <1>1, <2>1, NextType DEF Next
<1>4. CompressInv'
  BY <1>1, CompressTiles, CompressKeepsLongest DEF Compress, CompressInv
<1>5. UNCHANGED <<input, decompressVars, damage>>
  BY DEF Compress, CompressNext, FillBuffer, StartRun, ExtendRun, CloseRun, FinishCompress,
     WriteBlockFails
<1>6. StreamInv'
  BY <1>1, <1>2, <1>5 DEF decompressVars, StreamInv, DecompressInit
<1>7. DecodeInv'
  <2>1. DecodeInv
    BY IInvParts
  <2>2. SizeInv' /\ RestoredInv' /\ AcceptedIsOriginal' /\ RejectedForCause'
    BY <1>5, <2>1 DEF decompressVars, DecodeInv, SizeInv, WithinDeclaredSize, RestoredInv,
       Restored, AcceptedIsOriginal, RejectedForCause
  <2>3. PositionInv'
    BY <1>2, <1>5 DEF decompressVars, PositionInv
  <2>. QED
    BY <2>2, <2>3 DEF DecodeInv
<1>8. TypeOK' /\ CompressInv' /\ StreamInv' /\ DecodeInv' => IInv'
  BY DEF IInv, CompressInv, TilesInv, DecodeInv
<1>. QED
  BY <1>3, <1>4, <1>6, <1>7, <1>8

\* The decoder starts from what the damage left of the payload.
LEMMA StoreStep ==
  ASSUME IInv, Store
  PROVE  IInv'
<1>. USE DEF countVars, sinkVars, StartDecompress
<1>1. /\ TypeOK /\ CompressInv /\ StreamInv
      /\ UNCHANGED compressVars /\ compressed = "ok"
      /\ payload \in Seq(Byte) /\ Len(payload) \in Nat
      /\ input \in Seq(Byte) /\ Len(input) \in Nat
  BY IInvParts, InputType DEF Store, TypeOK, CompressTypeOK
<1>2. /\ UNCHANGED <<fetched, at, hasCount, count, copies, total, outBuf, out, sink>>
      /\ verdict = "idle" /\ verdict' = "running"
  BY DEF Store, StoreIntact, StoreTruncated, StoreExtended, StoreResized, StoreAltered
<1>3. DecompressInit /\ damage = "none"
  BY <1>1, <1>2 DEF StreamInv
<1>4. TypeOK'
  BY <1>1, <1>3, NextType DEF Next, DecompressInit, CursorInv
<1>5. CompressInv'
  BY <1>1 DEF compressVars, CompressInv, TilesInv, BlocksInv, RunInv, LongestInv,
     BlockIsRun, Cut, Blocks
<1>6. StreamInv'
  <2>1. CASE StoreIntact
    BY <1>1, <1>2, <1>3, <2>1 DEF StoreIntact, StreamInv, compressVars
  <2>2. CASE StoreTruncated
    <3>1. PICK n \in 0 .. Len(payload) - 1 : StartDecompress(SubSeq(payload, 1, n), Len(input))
      BY <2>2 DEF StoreTruncated
    <3>2. stream' = SubSeq(payload, 1, n) /\ expected' = Len(input) /\ damage' = "truncated"
      BY <2>2, <3>1 DEF StoreTruncated
    <3>3. Len(SubSeq(payload, 1, n)) = n
          /\ \A i \in 1 .. n : SubSeq(payload, 1, n)[i] = payload[i]
      BY <1>1, SubSeqProperties
    <3>. QED
      BY <1>1, <1>2, <3>2, <3>3 DEF StreamInv, compressVars
  <2>3. CASE StoreExtended
    <3>1. PICK tail \in Tails : StartDecompress(payload \o tail, Len(input))
      BY <2>3 DEF StoreExtended
    <3>2. stream' = payload \o tail /\ expected' = Len(input) /\ damage' = "extended"
      BY <2>3, <3>1 DEF StoreExtended
    <3>3. tail \in Seq(Byte) /\ Len(tail) \in Nat \ {0}
      BY TailsAssumption, EmptySeq
    <3>4. Len(payload \o tail) > Len(payload)
          /\ \A i \in 1 .. Len(payload) : (payload \o tail)[i] = payload[i]
      BY <1>1, <3>3, ConcatProperties
    <3>. QED
      BY <1>1, <1>2, <3>2, <3>4 DEF StreamInv, compressVars
  <2>4. CASE StoreResized
    BY <1>1, <1>2, <2>4 DEF StoreResized, StreamInv, compressVars
  <2>5. CASE StoreAltered
    BY <1>1, <1>2, <2>5 DEF StoreAltered, StreamInv, compressVars
  <2>. QED
    BY <2>1, <2>2, <2>3, <2>4, <2>5 DEF Store
<1>7. Restored' = Restored /\ input' = input /\ Len(Restored) = 0
      /\ Len(out) = 0 /\ Len(outBuf) = 0
  BY <1>1, <1>2, <1>3, EmptySeq DEF Restored, DecompressInit, compressVars
<1>8. RestoredInv'
  BY <1>1, <1>7 DEF RestoredInv
<1>9. SizeInv'
  <2>1. expected' \in Nat /\ BufferSize > 0
    BY <1>4, ByteStreamAssumption DEF TypeOK, DecompressTypeOK, Size
  <2>. QED
    BY <1>1, <1>2, <1>3, <1>7, <2>1 DEF SizeInv, WithinDeclaredSize, DecompressInit
<1>10. PositionInv'
  <2>1. BeforeBlock(0)' /\ 0 \in 0 .. Blocks'
    <3>1. 0 \in 0 .. Blocks
      BY <1>1, Tiling
    <3>. QED
      BY <1>1, <1>2, <1>3, <3>1 DEF BeforeBlock, Cut, Blocks, DecompressInit, compressVars
  <2>. QED
    BY <2>1 DEF PositionInv
<1>11. AcceptedIsOriginal' /\ RejectedForCause'
  BY <1>2 DEF AcceptedIsOriginal, RejectedForCause
<1>. QED
  BY <1>4, <1>5, <1>6, <1>8, <1>9, <1>10, <1>11 DEF IInv, CompressInv, TilesInv

-----------------------------------------------------------------------------
\* The facts every step of the decoder starts from.
LEMMA DecodeContext ==
  ASSUME IInv, verdict = "running"
  PROVE  /\ TypeOK /\ CompressInv /\ StreamInv /\ DecodeInv
         /\ compressed = "ok"
         /\ Blocks \in Nat /\ Len(payload) = 2 * Blocks /\ Len(payload) \in Nat
         /\ Len(input) \in Nat /\ Len(input) + MaxByte < SizeMod
         /\ MaxByte \in Nat /\ SizeMod \in Nat /\ BufferSize \in Nat \ {0}
         /\ stream \in Seq(Byte) /\ Len(stream) \in Nat
         /\ at \in Nat /\ fetched \in Nat /\ at <= fetched /\ fetched <= Len(stream)
         /\ count \in 0 .. MaxByte /\ copies \in 0 .. MaxByte
         /\ total \in Nat /\ expected \in Nat
         /\ Len(out) \in Nat /\ Len(outBuf) \in Nat
         /\ Len(Restored) = Len(out) + Len(outBuf)
<1>1. TypeOK /\ CompressInv /\ StreamInv /\ DecodeInv /\ compressed = "ok"
  BY IInvParts DEF StreamInv
<1>2. Blocks \in Nat /\ Len(payload) = 2 * Blocks
  BY <1>1, Tiling
<1>3. count \in 0 .. MaxByte /\ copies \in 0 .. MaxByte
  BY <1>1 DEF TypeOK, DecompressTypeOK, Byte
<1>. QED
  BY <1>1, <1>2, <1>3, InputType, DecoderType, RestoredType, ByteStreamAssumption

\* The decoder's steps leave both the archive and the call's arguments alone.
LEMMA StreamStep ==
  ASSUME IInv, Decompress
  PROVE  /\ verdict = "running" /\ verdict' # "idle"
         /\ UNCHANGED <<compressVars, damage, stream, expected>>
         /\ CompressInv' /\ StreamInv' /\ TypeOK'
<1>1. verdict = "running"
  BY DEF Decompress, DecompressNext, DecodeEmpty, FetchBuffer, TakeCount, TakeValue, PushCopy,
     PushCopyFails, RejectDangling, FinishDecompress, FinishFails, AtStreamByte, AtStreamEnd,
     InLoop
<1>2. UNCHANGED <<compressVars, damage, stream, expected>>
  BY DEF Decompress, DecompressNext, DecodeEmpty, FetchBuffer, TakeCount, TakeValue, PushCopy,
     PushCopyFails, RejectDangling, FinishDecompress, FinishFails, cursorVars
<1>3. verdict' # "idle"
  BY <1>1 DEF Decompress, DecompressNext, DecodeEmpty, FetchBuffer, TakeCount, TakeValue,
     PushCopy, PushCopyFails, RejectDangling, FinishDecompress, FinishFails, FlushFails,
     SizeVerdict
<1>4. TypeOK /\ CompressInv /\ StreamInv /\ DecodeInv
  BY IInvParts
<1>5. CompressInv'
  BY <1>2, <1>4 DEF compressVars, CompressInv, TilesInv, BlocksInv, RunInv, LongestInv,
     BlockIsRun, Cut, Blocks
<1>6. StreamInv'
  BY <1>1, <1>2, <1>3, <1>4 DEF compressVars, StreamInv
<1>7. TypeOK'
  <2>1. CursorInv
    BY <1>1, <1>4 DEF CursorInv, DecodeInv, SizeInv
  <2>. QED
    BY <1>4, <2>1, NextType DEF Next
<1>. QED
  BY <1>1, <1>2, <1>3, <1>5, <1>6, <1>7

\* A decoder that stands before or within a block and still has input is at one
\* of the payload's blocks, unless bytes follow the payload.
LEMMA AtBlock ==
  ASSUME IInv, AtStreamByte, damage # "altered"
  PROVE  \E b \in 0 .. Blocks :
           /\ WithinBlock(b) \/ BeforeBlock(b)
           /\ b < Blocks \/ damage = "extended"
           /\ b < Blocks =>
                /\ stream[2 * b + 1] = payload[2 * b + 1]
                /\ BlockIsRun(b + 1)
                /\ payload[2 * b + 1] \in 1 .. MaxByte
                /\ Cut(b + 1) = Cut(b) + payload[2 * b + 1]
                /\ Cut(b + 1) \in 0 .. Len(input)
<1>1. verdict = "running" /\ copies = 0 /\ at < fetched
  BY DEF AtStreamByte, InLoop
<1>2. /\ TypeOK /\ CompressInv /\ StreamInv /\ PositionInv /\ compressed = "ok"
      /\ Blocks \in Nat /\ Len(payload) = 2 * Blocks
      /\ Len(stream) \in Nat /\ at \in Nat /\ at < Len(stream)
  <2>1. /\ TypeOK /\ CompressInv /\ StreamInv /\ DecodeInv /\ compressed = "ok"
        /\ Blocks \in Nat /\ Len(payload) = 2 * Blocks
    BY <1>1, DecodeContext
  <2>2. Len(stream) \in Nat /\ at \in Nat /\ fetched \in Nat /\ fetched <= Len(stream)
    BY <1>1, DecodeContext
  <2>3. at < Len(stream)
    BY ONLY <1>1, <2>2
  <2>. QED
    BY <2>1, <2>2, <2>3 DEF DecodeInv
<1>3. PICK b \in 0 .. Blocks : WithinBlock(b) \/ BeforeBlock(b)
  <2>1. PICK b \in 0 .. Blocks : BeforeBlock(b) \/ WithinBlock(b) \/ CopyingBlock(b)
    BY <1>1, <1>2 DEF PositionInv
  <2>2. ~CopyingBlock(b)
    BY <1>1 DEF CopyingBlock
  <2>. QED
    BY <2>1, <2>2
<1>4. at = 2 * b \/ at = 2 * b + 1
  BY <1>3 DEF WithinBlock, BeforeBlock
<1>5. b \in Nat /\ 2 * b < Len(stream)
  BY <1>2, <1>4
<1>6. b < Blocks \/ damage = "extended"
  <2>1. CASE damage \in {"none", "resized"}
    BY <1>1, <1>2, <1>5, <2>1 DEF StreamInv
  <2>2. CASE damage = "truncated"
    BY <1>1, <1>2, <1>5, <2>2 DEF StreamInv
  <2>. QED
    BY <1>2, <2>1, <2>2 DEF TypeOK
<1>7. ASSUME b < Blocks
      PROVE  /\ stream[2 * b + 1] = payload[2 * b + 1]
             /\ BlockIsRun(b + 1)
             /\ payload[2 * b + 1] \in 1 .. MaxByte
             /\ Cut(b + 1) = Cut(b) + payload[2 * b + 1]
             /\ Cut(b + 1) \in 0 .. Len(input)
  <2>1. 2 * b + 1 \in 1 .. Len(stream) /\ 2 * b + 1 <= Len(payload)
    BY <1>2, <1>5, <1>7
  <2>2. stream[2 * b + 1] = payload[2 * b + 1]
    BY <1>1, <1>2, <2>1 DEF StreamInv
  <2>3. b + 1 \in 1 .. Blocks
    BY <1>2, <1>5, <1>7
  <2>4. BlockIsRun(b + 1) /\ Cut(b + 1) \in 0 .. Len(input)
    BY <1>2, <2>3, Tiling
  <2>5. 2 * (b + 1) - 1 = 2 * b + 1 /\ b + 1 - 1 = b
    BY <1>5
  <2>6. payload[2 * b + 1] \in 1 .. MaxByte /\ Cut(b + 1) = Cut(b) + payload[2 * b + 1]
    BY <2>4, <2>5 DEF BlockIsRun
  <2>. QED
    BY <2>2, <2>4, <2>6
<1>. QED
  BY <1>3, <1>6, <1>7

\* A step that outputs nothing and gives no verdict has only its position to account for.
LEMMA SilentStep ==
  ASSUME IInv, Decompress, UNCHANGED <<out, outBuf, total>>, verdict' = "running"
  PROVE  /\ RestoredInv' /\ AcceptedIsOriginal' /\ RejectedForCause' /\ WithinDeclaredSize'
         /\ Restored' = Restored
<1>1. verdict = "running" /\ UNCHANGED <<compressVars, damage, expected>> /\ DecodeInv
  BY StreamStep, IInvParts
<1>2. Restored' = Restored /\ input' = input
  BY <1>1 DEF Restored, compressVars
<1>3. RestoredInv'
  BY <1>1, <1>2 DEF DecodeInv, RestoredInv
<1>4. WithinDeclaredSize'
  BY <1>1 DEF DecodeInv, SizeInv, WithinDeclaredSize
<1>. QED
  BY <1>2, <1>3, <1>4 DEF AcceptedIsOriginal, RejectedForCause

\* A step that outputs nothing and rejects the archive has a cause to account for.
LEMMA RejectStep ==
  ASSUME IInv, Decompress, UNCHANGED <<out, outBuf, sink>>, verdict' = "rejected",
         damage # "none"
  PROVE  DecodeInv'
<1>1. verdict = "running" /\ UNCHANGED <<compressVars, damage, expected>> /\ DecodeInv
  BY StreamStep, IInvParts
<1>2. Restored' = Restored /\ input' = input
  BY <1>1 DEF Restored, compressVars
<1>3. RestoredInv'
  BY <1>1, <1>2 DEF DecodeInv, RestoredInv
<1>4. SizeInv'
  BY <1>1 DEF DecodeInv, SizeInv, WithinDeclaredSize
<1>. QED
  BY <1>1, <1>3, <1>4 DEF DecodeInv, PositionInv, AcceptedIsOriginal, RejectedForCause

\* Reading a block of the stream moves nothing the invariant mentions.
LEMMA FetchBufferStep ==
  ASSUME IInv, Decompress, FetchBuffer
  PROVE  DecodeInv'
<1>1. /\ verdict = "running" /\ UNCHANGED <<compressVars, damage, stream, expected>>
      /\ DecodeInv
  BY StreamStep, IInvParts
<1>2. UNCHANGED <<at, hasCount, count, copies, total, outBuf, out, verdict>>
  BY DEF FetchBuffer, countVars, sinkVars
<1>3. RestoredInv' /\ AcceptedIsOriginal' /\ RejectedForCause' /\ WithinDeclaredSize'
      /\ Restored' = Restored
  BY <1>1, <1>2, SilentStep
<1>4. SizeInv'
  BY <1>1, <1>2, <1>3 DEF DecodeInv, SizeInv, compressVars
<1>5. PositionInv'
  BY <1>1, <1>2 DEF DecodeInv, PositionInv, BeforeBlock, WithinBlock, CopyingBlock, Cut, Blocks,
     compressVars
<1>. QED
  BY <1>3, <1>4, <1>5 DEF DecodeInv

\* A block's length is read: the decoder is within the block.
LEMMA TakeCountStep ==
  ASSUME IInv, Decompress, TakeCount
  PROVE  DecodeInv'
<1>1. /\ verdict = "running" /\ UNCHANGED <<compressVars, damage, stream, expected>>
      /\ AtStreamByte /\ ~hasCount /\ copies = 0
      /\ UNCHANGED <<total, copies, outBuf, out, sink>>
      /\ at' = at + 1 /\ count' = stream[at + 1]
  BY StreamStep DEF TakeCount, sinkVars, AtStreamByte, InLoop
<1>2. CASE count' = 0
  <2>1. verdict' = "rejected"
    BY <1>2 DEF TakeCount
  <2>2. damage # "none"
    <3>. SUFFICES ASSUME damage = "none" PROVE FALSE
      OBVIOUS
    <3>1. PICK b \in 0 .. Blocks :
            /\ WithinBlock(b) \/ BeforeBlock(b)
            /\ stream[2 * b + 1] = payload[2 * b + 1]
            /\ payload[2 * b + 1] \in 1 .. MaxByte
      BY <1>1, AtBlock
    <3>2. at = 2 * b
      BY <1>1, <3>1 DEF WithinBlock, BeforeBlock
    <3>3. stream[at + 1] \in 1 .. MaxByte
      BY <3>1, <3>2
    <3>. QED
      BY <1>1, <1>2, <3>3, ByteStreamAssumption
  <2>. QED
    BY <1>1, <2>1, <2>2, RejectStep
<1>3. CASE count' # 0
  <2>1. hasCount' /\ verdict' = "running" /\ count' \in Nat
    <3>1. count' \in Nat
      <4>1. TypeOK'
        BY StreamStep
      <4>. QED
        BY <4>1, ByteStreamAssumption DEF TypeOK, DecompressTypeOK, Byte
    <3>. QED
      BY <1>1, <1>3, <3>1 DEF TakeCount
  <2>2. RestoredInv' /\ AcceptedIsOriginal' /\ RejectedForCause' /\ WithinDeclaredSize'
        /\ Restored' = Restored
    BY <1>1, <2>1, SilentStep
  <2>3. SizeInv'
    <3>1. SizeInv /\ total \in Nat
      BY <1>1, DecodeContext DEF DecodeInv
    <3>2. total <= expected /\ total <= Len(input) /\ Len(Restored) = total
      BY <1>1, <3>1 DEF SizeInv
    <3>. QED
      BY <1>1, <1>3, <2>1, <2>2, <3>2 DEF SizeInv, compressVars
  <2>4. ASSUME damage' # "altered" PROVE \E b \in 0 .. Blocks' : WithinBlock(b)'
    <3>1. PICK b \in 0 .. Blocks : WithinBlock(b) \/ BeforeBlock(b)
      BY <1>1, <2>4, AtBlock
    <3>2. at = 2 * b /\ total = Cut(b)
      BY <1>1, <3>1 DEF WithinBlock, BeforeBlock
    <3>3. Blocks' = Blocks /\ Cut(b)' = Cut(b)
      BY <1>1 DEF Blocks, Cut, compressVars
    <3>4. WithinBlock(b)'
      BY <1>1, <2>1, <3>2, <3>3 DEF WithinBlock
    <3>. QED
      BY <3>3, <3>4
  <2>5. PositionInv'
    BY <2>4 DEF PositionInv
  <2>. QED
    BY <2>2, <2>3, <2>5 DEF DecodeInv
<1>. QED
  BY <1>2, <1>3

\* The bound the decoder checks cannot be passed by a wrap of total + count.
LEMMA FitsExactly ==
  ASSUME IInv, AtStreamByte, hasCount
  PROVE  /\ Fits <=> total + count <= expected
         /\ (total + count) % SizeMod = total + count
<1>1. verdict = "running"
  BY DEF AtStreamByte, InLoop
<1>2. /\ Len(input) \in Nat /\ Len(input) + MaxByte < SizeMod /\ SizeMod \in Nat
      /\ MaxByte \in Nat /\ count \in 0 .. MaxByte /\ total \in Nat
      /\ total <= Len(input)
  BY <1>1, DecodeContext DEF DecodeInv, SizeInv
<1>3. total + count \in 0 .. SizeMod - 1
  BY <1>2
<1>4. (total + count) % SizeMod = total + count
  BY <1>2, <1>3
<1>. QED
  BY <1>4 DEF Fits

\* A block's value is read: it can be copied as often as its length says.
LEMMA TakeValueStep ==
  ASSUME IInv, Decompress, TakeValue
  PROVE  DecodeInv'
<1>1. /\ verdict = "running" /\ UNCHANGED <<compressVars, damage, stream, expected>>
      /\ AtStreamByte /\ hasCount /\ copies = 0
      /\ UNCHANGED <<total, hasCount, count, outBuf, out, sink>>
      /\ at' = at + 1
  BY StreamStep DEF TakeValue, sinkVars, AtStreamByte, InLoop
<1>2. /\ Len(input) \in Nat /\ total \in Nat /\ expected \in Nat /\ at \in Nat
      /\ Blocks \in Nat /\ MaxByte \in Nat /\ count \in 0 .. MaxByte /\ count > 0
      /\ total <= expected /\ total <= Len(input) /\ Len(Restored) = total
      /\ damage # "resized" => expected = Len(input)
  <2>1. /\ SizeInv /\ StreamInv
        /\ Len(input) \in Nat /\ total \in Nat /\ expected \in Nat /\ at \in Nat
        /\ Blocks \in Nat /\ MaxByte \in Nat /\ count \in 0 .. MaxByte
    BY <1>1, DecodeContext DEF DecodeInv
  <2>2. count > 0 /\ total <= expected /\ total <= Len(input) /\ Len(Restored) = total
    BY <1>1, <2>1 DEF SizeInv
  <2>3. damage # "resized" => expected = Len(input)
    BY <1>1, <2>1 DEF StreamInv
  <2>. QED
    BY <2>1, <2>2, <2>3
<1>3. ASSUME damage # "altered", damage # "extended" \/ Fits
      PROVE  \E b \in 0 .. Blocks - 1 :
               /\ at = 2 * b + 1
               /\ total = Cut(b)
               /\ count = payload[2 * b + 1]
               /\ total + count \in 0 .. Len(input)
  <2>1. PICK b \in 0 .. Blocks :
          /\ WithinBlock(b) \/ BeforeBlock(b)
          /\ b < Blocks \/ damage = "extended"
          /\ b < Blocks =>
               /\ stream[2 * b + 1] = payload[2 * b + 1]
               /\ Cut(b + 1) = Cut(b) + payload[2 * b + 1]
               /\ Cut(b + 1) \in 0 .. Len(input)
    BY <1>1, <1>3, AtBlock
  <2>2. at = 2 * b + 1 /\ total = Cut(b) /\ count = stream[2 * b + 1]
    BY <1>1, <2>1 DEF WithinBlock, BeforeBlock
  <2>3. b < Blocks
    <3>. SUFFICES ASSUME b = Blocks PROVE FALSE
      BY <1>2
    <3>1. total = Len(input)
      BY <1>1, <2>2, DecodeContext, Tiling
    <3>2. damage = "extended" /\ Fits
      BY <1>2, <1>3, <2>1
    <3>. QED
      BY <1>1, <1>2, <3>1, <3>2, FitsExactly
  <2>. QED
    BY <1>2, <2>1, <2>2, <2>3
<1>4. CASE Fits
  <2>1. copies' = count /\ verdict' = "running"
    BY <1>1, <1>4 DEF TakeValue
  <2>2. total + count <= expected
    BY <1>1, <1>4, FitsExactly
  <2>3. total + count <= Len(input)
    BY <1>2, <1>3, <1>4, <2>2
  <2>4. RestoredInv' /\ AcceptedIsOriginal' /\ RejectedForCause' /\ WithinDeclaredSize'
        /\ Restored' = Restored
    BY <1>1, <2>1, SilentStep
  <2>5. SizeInv'
    BY <1>1, <1>2, <2>1, <2>2, <2>3, <2>4 DEF SizeInv, compressVars
  <2>6. ASSUME damage' # "altered" PROVE \E b \in 0 .. Blocks' : CopyingBlock(b)'
    <3>1. PICK b \in 0 .. Blocks - 1 :
            at = 2 * b + 1 /\ total = Cut(b) /\ count = payload[2 * b + 1]
      BY <1>1, <1>3, <1>4, <2>6
    <3>2. PICK c \in 1 .. Blocks : c = b + 1
      BY <1>2
    <3>3. at' = 2 * c /\ 2 * c - 1 = 2 * b + 1 /\ c - 1 = b
      BY <1>1, <1>2, <3>1, <3>2
    <3>4. Blocks' = Blocks /\ Cut(c - 1)' = Cut(c - 1)
      BY <1>1 DEF Blocks, Cut, compressVars
    <3>5. CopyingBlock(c)'
      BY <1>1, <1>2, <2>1, <3>1, <3>2, <3>3, <3>4 DEF CopyingBlock, compressVars
    <3>. QED
      BY <1>2, <3>4, <3>5
  <2>7. PositionInv'
    BY <2>6 DEF PositionInv
  <2>. QED
    BY <2>4, <2>5, <2>7 DEF DecodeInv
<1>5. CASE ~Fits
  <2>1. verdict' = "rejected"
    BY <1>5 DEF TakeValue
  <2>2. damage # "none"
    <3>. SUFFICES ASSUME damage = "none" PROVE FALSE
      OBVIOUS
    <3>1. total + count <= Len(input)
      BY <1>2, <1>3
    <3>. QED
      BY <1>1, <1>2, <1>5, <3>1, FitsExactly
  <2>. QED
    BY <1>1, <2>1, <2>2, RejectStep
<1>. QED
  BY <1>4, <1>5

\* The elements of out_buf after a push.
LEMMA PushedProperties ==
  ASSUME NEW s \in Seq(Byte), NEW t \in Seq(Byte), NEW v \in Byte
  PROVE  /\ s \o Append(t, v) \in Seq(Byte)
         /\ Len(s \o t) \in Nat
         /\ Len(s \o Append(t, v)) = Len(s \o t) + 1
         /\ \A i \in 1 .. Len(s \o t) : (s \o Append(t, v))[i] = (s \o t)[i]
         /\ (s \o Append(t, v))[Len(s \o t) + 1] = v
<1>1. /\ s \o t \in Seq(Byte) /\ <<v>> \in Seq(Byte)
      /\ Append(t, v) = t \o <<v>>
      /\ s \o Append(t, v) = (s \o t) \o <<v>>
  BY ConcatProperties, ConcatAssociative, AppendIsConcat
<1>2. (s \o t) \o <<v>> = Append(s \o t, v)
  BY <1>1, AppendIsConcat
<1>. QED
  BY <1>1, <1>2, AppendProperties, LenProperties

\* While a value is being copied the decoder stands at the end of a block, and the
\* block's part of the input has that value throughout.
LEMMA Copying ==
  ASSUME IInv, verdict = "running", copies > 0
  PROVE  /\ total \in Nat /\ count \in Nat /\ copies \in Nat /\ expected \in Nat
         /\ Len(input) \in Nat /\ Len(Restored) \in Nat
         /\ at > 0 /\ hasCount /\ count > 0 /\ copies <= count
         /\ total + count <= expected /\ total + count <= Len(input)
         /\ Len(Restored) = total + (count - copies)
         /\ damage # "altered" =>
              \E b \in 1 .. Blocks :
                /\ CopyingBlock(b)
                /\ Cut(b) = total + count
                /\ \A p \in total + 1 .. total + count : input[p] = stream[at]
<1>1. /\ DecodeInv /\ StreamInv /\ CompressInv /\ TypeOK /\ compressed = "ok"
  BY DecodeContext
<1>2. /\ total \in Nat /\ count \in Nat /\ copies \in Nat /\ expected \in Nat /\ at \in Nat
      /\ Len(input) \in Nat /\ Blocks \in Nat /\ Len(Restored) \in Nat
      /\ at <= Len(stream) /\ Len(stream) \in Nat
  <2>1. Blocks \in Nat
    BY <1>1, Tiling
  <2>2. Len(input) \in Nat
    BY <1>1, InputType
  <2>3. Len(Restored) \in Nat
    BY <1>1, RestoredType
  <2>4. /\ total \in Nat /\ count \in Nat /\ copies \in Nat /\ expected \in Nat /\ at \in Nat
        /\ fetched \in Nat /\ at <= fetched /\ fetched <= Len(stream) /\ Len(stream) \in Nat
    BY <1>1, DecoderType
  <2>5. at <= Len(stream)
    BY <2>4
  <2>. QED
    BY <2>1, <2>2, <2>3, <2>4, <2>5
<1>3. /\ at > 0 /\ hasCount /\ count > 0 /\ copies <= count
      /\ total + count <= expected /\ total + count <= Len(input)
      /\ Len(Restored) = total + (count - copies)
  <2>1. SizeInv
    BY <1>1 DEF DecodeInv
  <2>2. at > 0 /\ hasCount /\ copies <= count /\ total + count <= expected
        /\ total + count <= Len(input)
    BY <2>1 DEF SizeInv
  <2>3. Len(Restored) = total + (count - copies)
    BY <2>1 DEF SizeInv
  <2>. QED
    BY <1>2, <2>2, <2>3
<1>4. ASSUME damage # "altered"
      PROVE  \E b \in 1 .. Blocks :
               /\ CopyingBlock(b)
               /\ Cut(b) = total + count
               /\ \A p \in total + 1 .. total + count : input[p] = stream[at]
  <2>1. PICK b \in 0 .. Blocks : CopyingBlock(b)
    BY <1>1, <1>4 DEF DecodeInv, PositionInv, BeforeBlock, WithinBlock
  <2>2. b \in 1 .. Blocks /\ at = 2 * b /\ count = payload[2 * b - 1] /\ total = Cut(b - 1)
    BY <1>2, <2>1 DEF CopyingBlock
  <2>3. BlockIsRun(b) /\ Len(payload) = 2 * Blocks
    BY <1>1, <2>2, Tiling
  <2>4. Cut(b) = total + count
    BY <2>2, <2>3 DEF BlockIsRun
  <2>5. at \in 1 .. Len(stream) /\ at <= Len(payload)
    BY <1>2, <1>3, <2>2, <2>3
  <2>6. stream[at] = payload[2 * b]
    BY <1>1, <1>4, <2>2, <2>5 DEF StreamInv
  <2>7. \A p \in total + 1 .. total + count : input[p] = stream[at]
    BY <2>2, <2>3, <2>4, <2>6 DEF BlockIsRun
  <2>. QED
    BY <2>1, <2>2, <2>4, <2>7
<1>. QED
  BY <1>2, <1>3, <1>4

\* Pushing one more copy keeps within the announced size and the original.
LEMMA PushFits ==
  ASSUME IInv, verdict = "running", copies > 0
  PROVE  /\ Pushed \in Seq(Byte) /\ out \in Seq(Byte)
         /\ Len(out \o Pushed) = Len(Restored) + 1
         /\ Len(out \o Pushed) <= expected
         /\ damage # "altered" =>
              /\ Len(out \o Pushed) <= Len(input)
              /\ \A i \in 1 .. Len(out \o Pushed) : (out \o Pushed)[i] = input[i]
<1>1. TypeOK /\ CursorInv /\ DecodeInv
  BY IInvParts DEF DecodeInv, SizeInv, CursorInv
<1>2. /\ stream[at] \in Byte /\ Pushed \in Seq(Byte)
      /\ out \in Seq(Byte) /\ outBuf \in Seq(Byte)
  BY <1>1, PushedType, DecoderType
<1>3. /\ Len(out \o Pushed) = Len(Restored) + 1
      /\ \A i \in 1 .. Len(Restored) : (out \o Pushed)[i] = Restored[i]
      /\ (out \o Pushed)[Len(Restored) + 1] = stream[at]
  <2>1. PICK v \in Byte : v = stream[at]
    BY <1>2
  <2>2. /\ Len(out \o Append(outBuf, v)) = Len(out \o outBuf) + 1
        /\ \A i \in 1 .. Len(out \o outBuf) : (out \o Append(outBuf, v))[i] = (out \o outBuf)[i]
        /\ (out \o Append(outBuf, v))[Len(out \o outBuf) + 1] = v
    <3>1. out \in Seq(Byte) /\ outBuf \in Seq(Byte)
      BY <1>2
    <3>. QED
      BY ONLY <3>1, PushedProperties, v \in Byte
  <2>. QED
    BY <2>1, <2>2 DEF Restored, Pushed
<1>4. /\ total \in Nat /\ count \in Nat /\ copies \in Nat /\ expected \in Nat
      /\ Len(input) \in Nat /\ Len(Restored) \in Nat /\ copies <= count
      /\ total + count <= expected /\ total + count <= Len(input)
      /\ Len(Restored) = total + (count - copies)
  BY Copying
<1>5. Len(Restored) + 1 <= expected /\ Len(Restored) + 1 <= Len(input)
      /\ Len(Restored) + 1 \in total + 1 .. total + count
  BY <1>4
<1>6. ASSUME damage # "altered"
      PROVE  \A i \in 1 .. Len(Restored) + 1 : (out \o Pushed)[i] = input[i]
  <2>1. \A i \in 1 .. Len(Restored) : Restored[i] = input[i]
    BY <1>1, <1>6 DEF DecodeInv, RestoredInv
  <2>2. input[Len(Restored) + 1] = stream[at]
    BY <1>5, <1>6, Copying
  <2>3. \A i \in 1 .. Len(Restored) + 1 : i \in 1 .. Len(Restored) \/ i = Len(Restored) + 1
    BY <1>4
  <2>. QED
    BY <1>3, <2>1, <2>2, <2>3
<1>. QED
  BY <1>2, <1>3, <1>5, <1>6

\* One copy of the value restores one more byte of the input.
LEMMA PushCopyStep ==
  ASSUME IInv, Decompress, PushCopy
  PROVE  DecodeInv'
<1>1. /\ verdict = "running" /\ verdict' = "running" /\ copies > 0
      /\ UNCHANGED <<compressVars, damage, stream, expected, at, count>>
      /\ TypeOK' /\ TypeOK
  BY StreamStep, IInvParts DEF PushCopy, CountCopy, cursorVars
<1>2. /\ total \in Nat /\ count \in Nat /\ copies \in Nat /\ expected \in Nat
      /\ Len(input) \in Nat /\ Len(Restored) \in Nat
      /\ at > 0 /\ hasCount /\ count > 0 /\ copies <= count
      /\ total + count <= expected /\ total + count <= Len(input)
      /\ Len(Restored) = total + (count - copies)
  BY <1>1, Copying
<1>3. (total + count) % SizeMod = total + count
  <2>1. Len(input) + MaxByte < SizeMod /\ MaxByte \in Nat /\ SizeMod \in Nat
    BY <1>1, DecodeContext
  <2>2. /\ total \in Nat /\ count \in Nat /\ Len(input) \in Nat
        /\ total + count <= Len(input)
    BY <1>2
  <2>3. total + count \in 0 .. SizeMod - 1
    BY ONLY <2>1, <2>2
  <2>. QED
    BY <2>3, ByteStreamAssumption
<1>4. /\ copies' = copies - 1
      /\ copies = 1 => total' = total + count /\ ~hasCount'
      /\ copies # 1 => total' = total /\ hasCount' = hasCount
  BY <1>1, <1>3 DEF PushCopy, CountCopy
<1>5. Pushed \in Seq(Byte) /\ Len(Pushed) \in Nat
  BY <1>1, PushFits, LenProperties
<1>6. Restored' = out \o Pushed /\ Len(outBuf') < BufferSize
  <2>1. CASE Len(Pushed) >= BufferSize
    <3>1. out' = out \o Pushed /\ outBuf' = <<>>
      BY <2>1 DEF PushCopy, FlushTo
    <3>2. out' \in Seq(Byte)
      BY <1>1 DEF TypeOK, DecompressTypeOK
    <3>. QED
      BY <3>1, <3>2, ConcatEmptySeq, EmptySeq, ByteStreamAssumption DEF Restored
  <2>2. CASE ~(Len(Pushed) >= BufferSize)
    <3>1. out' = out /\ outBuf' = Pushed
      BY <2>2 DEF PushCopy
    <3>. QED
      BY <1>5, <2>2, <3>1, ByteStreamAssumption DEF Restored
  <2>. QED
    BY <2>1, <2>2
<1>7. UNCHANGED <<expected, at, count>> /\ input' = input
  BY <1>1 DEF compressVars
<1>8. RestoredInv'
  BY <1>1, <1>6, <1>7, PushFits DEF RestoredInv
<1>9. SizeInv'
  <2>1. Len(Restored') = Len(Restored) + 1 /\ Len(Restored') <= expected
    BY <1>1, <1>6, PushFits
  <2>2. WithinDeclaredSize'
    <3>1. out' \in Seq(Byte) /\ outBuf' \in Seq(Byte)
      BY <1>1 DEF TypeOK, DecompressTypeOK
    <3>2. Len(out') + Len(outBuf') = Len(Restored')
      BY <3>1, ConcatProperties DEF Restored
    <3>. QED
      BY <1>1, <1>6, <1>7, <2>1, <3>2 DEF WithinDeclaredSize
  <2>3. CASE copies = 1
    <3>1. copies' = 0 /\ total' = total + count /\ ~hasCount'
      BY <1>4, <2>3
    <3>2. Len(Restored') = total'
      BY <1>2, <2>1, <2>3, <3>1
    <3>. QED
      BY <1>2, <1>7, <2>2, <3>1, <3>2 DEF SizeInv
  <2>4. CASE copies # 1
    <3>1. copies' = copies - 1 /\ copies' > 0 /\ total' = total /\ hasCount' = hasCount
      BY <1>1, <1>2, <1>4, <2>4
    <3>2. Len(Restored') = total + (count - copies')
      BY <1>2, <2>1, <3>1
    <3>3. total <= expected /\ total <= Len(input) /\ copies' <= count
      BY <1>2, <3>1
    <3>. QED
      BY <1>2, <1>7, <2>2, <3>1, <3>2, <3>3 DEF SizeInv
  <2>. QED
    BY <2>3, <2>4
<1>10. PositionInv'
  <2>. SUFFICES ASSUME damage # "altered"
                PROVE  \E b \in 0 .. Blocks' : BeforeBlock(b)' \/ CopyingBlock(b)'
    BY <1>1 DEF PositionInv
  <2>1. PICK b \in 1 .. Blocks : CopyingBlock(b) /\ Cut(b) = total + count
    BY <1>1, Copying
  <2>2. Blocks' = Blocks /\ Cut(b)' = Cut(b) /\ Cut(b - 1)' = Cut(b - 1)
    BY <1>1 DEF Blocks, Cut, compressVars
  <2>3. b \in 0 .. Blocks
    OBVIOUS
  <2>4. CASE copies = 1
    <3>1. BeforeBlock(b)'
      BY <1>1, <1>4, <2>1, <2>2, <2>4 DEF BeforeBlock, CopyingBlock
    <3>. QED
      BY <2>2, <2>3, <3>1
  <2>5. CASE copies # 1
    <3>1. CopyingBlock(b)'
      BY <1>1, <1>2, <1>4, <2>1, <2>2, <2>5 DEF CopyingBlock, compressVars
    <3>. QED
      BY <2>2, <2>3, <3>1
  <2>. QED
    BY <2>4, <2>5
<1>. QED
  BY <1>1, <1>8, <1>9, <1>10 DEF DecodeInv, AcceptedIsOriginal, RejectedForCause

\* What a failed flush leaves in the sink: a part of what it was given.
LEMMA FlushFailsPrefix ==
  ASSUME TypeOK, NEW bytes \in Seq(Byte), FlushFails(bytes)
  PROVE  /\ Len(out') + Len(outBuf') <= Len(out \o bytes)
         /\ Len(outBuf') = 0
         /\ Len(Restored') \in Nat
         /\ Len(Restored') <= Len(out \o bytes)
         /\ \A i \in 1 .. Len(Restored') : Restored'[i] = (out \o bytes)[i]
<1>1. PICK k \in 0 .. Len(bytes) : out' = out \o SubSeq(bytes, 1, k)
  BY DEF FlushFails
<1>2. PICK part \in Seq(Byte) :
        /\ part = SubSeq(bytes, 1, k)
        /\ Len(part) = k
        /\ \A i \in 1 .. k : part[i] = bytes[i]
  <2>1. Len(bytes) \in Nat /\ k \in Nat /\ \A i \in 1 .. k : bytes[i] \in Byte
    BY LenProperties, ElementOfSeq
  <2>2. /\ SubSeq(bytes, 1, k) \in Seq(Byte)
        /\ Len(SubSeq(bytes, 1, k)) = IF 1 <= k THEN k - 1 + 1 ELSE 0
        /\ \A i \in 1 .. k - 1 + 1 : SubSeq(bytes, 1, k)[i] = bytes[1 + i - 1]
    BY <2>1, SubSeqProperties
  <2>3. Len(SubSeq(bytes, 1, k)) = k /\ k - 1 + 1 = k /\ \A i \in 1 .. k : 1 + i - 1 = i
    BY <2>1, <2>2
  <2>4. \A i \in 1 .. k : SubSeq(bytes, 1, k)[i] = bytes[i]
    BY <2>2, <2>3
  <2>. QED
    BY <2>2, <2>3, <2>4
<1>3. out \in Seq(Byte) /\ Len(out) \in Nat /\ Len(bytes) \in Nat /\ k \in Nat /\ k <= Len(bytes)
  BY DecoderType, LenProperties
<1>4. /\ Len(out \o part) = Len(out) + k
      /\ \A i \in 1 .. Len(out) + k :
           (out \o part)[i] = IF i <= Len(out) THEN out[i] ELSE part[i - Len(out)]
      /\ out \o part \in Seq(Byte)
  <2>1. part \in Seq(Byte) /\ out \in Seq(Byte) /\ Len(part) = k
    BY <1>2, <1>3
  <2>. QED
    BY ONLY <2>1, ConcatProperties
<1>5. /\ Len(out \o bytes) = Len(out) + Len(bytes)
      /\ \A i \in 1 .. Len(out) + Len(bytes) :
           (out \o bytes)[i] = IF i <= Len(out) THEN out[i] ELSE bytes[i - Len(out)]
  BY <1>3, ConcatProperties
<1>6. \A i \in 1 .. Len(out) + k : (out \o part)[i] = (out \o bytes)[i]
  BY <1>2, <1>3, <1>4, <1>5
<1>7. Restored' = out \o part /\ out' = out \o part /\ outBuf' = <<>>
  BY <1>1, <1>2, <1>4, ConcatEmptySeq DEF FlushFails, Restored
<1>8. Len(outBuf') = 0 /\ Len(out') = Len(out) + k /\ Len(Restored') = Len(out) + k
  BY <1>4, <1>7, EmptySeq
<1>. QED
  BY <1>3, <1>5, <1>6, <1>7, <1>8

\* A failed write rejects the archive and leaves a prefix of the input behind.
LEMMA FlushFailsStep ==
  ASSUME IInv, Decompress, NEW bytes \in Seq(Byte), FlushFails(bytes),
         Len(out \o bytes) <= expected,
         damage # "altered" =>
           /\ Len(out \o bytes) <= Len(input)
           /\ \A i \in 1 .. Len(out \o bytes) : (out \o bytes)[i] = input[i]
  PROVE  DecodeInv'
<1>1. /\ UNCHANGED <<compressVars, damage, expected>>
      /\ sink' = "failed" /\ verdict' = "rejected" /\ TypeOK
  BY StreamStep, IInvParts DEF FlushFails
<1>2. /\ Len(out') + Len(outBuf') <= Len(out \o bytes)
      /\ Len(outBuf') = 0
      /\ Len(Restored') \in Nat
      /\ Len(Restored') <= Len(out \o bytes)
      /\ \A i \in 1 .. Len(Restored') : Restored'[i] = (out \o bytes)[i]
  BY <1>1, FlushFailsPrefix
<1>3. /\ Len(out \o bytes) \in Nat /\ expected \in Nat /\ Len(input) \in Nat
      /\ Len(out') \in Nat /\ Len(outBuf') \in Nat
  <2>1. out \o bytes \in Seq(Byte) /\ expected \in Nat /\ Len(input) \in Nat
    BY <1>1, DecoderType, InputType, ConcatProperties
  <2>2. out' \in Seq(Byte) /\ outBuf' \in Seq(Byte)
    BY <1>1, FlushFailsType
  <2>. QED
    BY <2>1, <2>2, LenProperties
<1>4. WithinDeclaredSize'
  <2>1. Len(out') + Len(outBuf') <= expected'
    BY <1>1, <1>2, <1>3
  <2>2. Len(outBuf') < BufferSize
    BY <1>2, ByteStreamAssumption
  <2>. QED
    BY <1>1, <2>1, <2>2 DEF WithinDeclaredSize
<1>5. RestoredInv'
  <2>. SUFFICES ASSUME damage # "altered"
                PROVE  /\ Len(Restored') <= Len(input)
                       /\ \A p \in 1 .. Len(Restored') : Restored'[p] = input[p]
    BY <1>1 DEF RestoredInv, compressVars
  <2>1. Len(Restored') <= Len(input)
    BY <1>2, <1>3
  <2>2. ASSUME NEW p \in 1 .. Len(Restored') PROVE Restored'[p] = input[p]
    <3>1. p \in 1 .. Len(out \o bytes)
      BY <1>2, <1>3
    <3>2. Restored'[p] = (out \o bytes)[p]
      BY <1>2
    <3>. QED
      BY <3>1, <3>2
  <2>. QED
    BY <2>1, <2>2
<1>. QED
  BY <1>1, <1>4, <1>5
     DEF DecodeInv, SizeInv, PositionInv, AcceptedIsOriginal, RejectedForCause

\* The flush after a copy fails.
LEMMA PushCopyFailsStep ==
  ASSUME IInv, Decompress, PushCopyFails
  PROVE  DecodeInv'
<1>1. verdict = "running" /\ copies > 0 /\ FlushFails(Pushed)
  BY DEF PushCopyFails
<1>. QED
  BY <1>1, PushFits, FlushFailsStep

\* A length without its value is only met in a damaged archive.
LEMMA RejectDanglingStep ==
  ASSUME IInv, Decompress, RejectDangling
  PROVE  DecodeInv'
<1>1. /\ verdict = "running" /\ copies = 0 /\ hasCount /\ at = Len(stream)
      /\ verdict' = "rejected" /\ UNCHANGED <<out, outBuf, sink>>
  BY DEF RejectDangling, AtStreamEnd, InLoop, sinkVars
<1>2. damage # "none"
  <2>. SUFFICES ASSUME damage = "none" PROVE FALSE
    OBVIOUS
  <2>1. PICK b \in 0 .. Blocks : WithinBlock(b)
    BY <1>1, DecodeContext DEF DecodeInv, PositionInv, BeforeBlock, CopyingBlock
  <2>2. at = 2 * b + 1
    BY <2>1 DEF WithinBlock
  <2>3. Len(stream) = 2 * Blocks /\ Blocks \in Nat
    BY <1>1, DecodeContext DEF StreamInv
  <2>4. b \in Nat
    BY <2>3
  <2>5. 2 * b + 1 # 2 * Blocks
    BY <2>3, <2>4
  <2>. QED
    BY <1>1, <2>2, <2>3, <2>5
<1>. QED
  BY <1>1, <1>2, RejectStep

\* An empty input has no blocks, and only an empty input has none.
LEMMA EmptyTiling ==
  ASSUME TypeOK, CompressInv, compressed = "ok"
  PROVE  payload = <<>> <=> Len(input) = 0
<1>1. /\ Blocks \in Nat /\ Len(payload) = 2 * Blocks /\ Cut(Blocks) = Len(input) /\ Cut(0) = 0
      /\ \A k \in 0 .. Blocks - 1 : Cut(k) < Len(input)
      /\ Len(input) \in Nat /\ payload \in Seq(Byte)
  BY Tiling, InputType DEF TypeOK, CompressTypeOK
<1>2. Blocks = 0 <=> Len(input) = 0
  <2>1. CASE Blocks = 0
    BY <1>1, <2>1
  <2>2. CASE Blocks # 0
    BY <1>1, <2>2
  <2>. QED
    BY <2>1, <2>2
<1>3. payload = <<>> <=> Len(payload) = 0
  BY <1>1, EmptySeq
<1>. QED
  BY <1>1, <1>2, <1>3

\* The empty archive is the archive of the empty input only.
LEMMA DecodeEmptyStep ==
  ASSUME IInv, Decompress, DecodeEmpty
  PROVE  DecodeInv'
<1>1. /\ verdict = "running" /\ expected = 0
      /\ UNCHANGED <<compressVars, damage, stream, expected, out, outBuf, sink>>
      /\ TypeOK /\ StreamInv /\ CompressInv /\ DecodeInv /\ compressed = "ok"
      /\ payload = <<>> <=> Len(input) = 0
      /\ Len(out) \in Nat /\ Len(outBuf) \in Nat
  BY StreamStep, DecodeContext, EmptyTiling DEF DecodeEmpty, sinkVars, cursorVars
<1>2. Len(out) = 0 /\ Len(outBuf) = 0
  BY <1>1 DEF DecodeInv, SizeInv, WithinDeclaredSize
<1>3. CASE stream = <<>>
  <2>1. verdict' = "accepted"
    BY <1>3 DEF DecodeEmpty
  <2>2. Len(stream) = 0 /\ Len(payload) \in Nat
    BY <1>1, <1>3, EmptySeq, LenProperties DEF TypeOK, CompressTypeOK
  <2>3. damage \in {"none", "altered"}
    <3>1. damage # "extended"
      BY <1>1, <2>2 DEF StreamInv
    <3>2. damage # "truncated"
      <4>. SUFFICES ASSUME damage = "truncated" PROVE FALSE
        OBVIOUS
      <4>1. payload = <<>> /\ Len(payload) > 0
        BY <1>1, <2>2 DEF StreamInv
      <4>. QED
        BY <4>1, EmptySeq
    <3>3. damage # "resized"
      BY <1>1, <1>3 DEF StreamInv
    <3>. QED
      BY <1>1, <3>1, <3>2, <3>3 DEF TypeOK
  <2>4. damage = "none" => out = input
    <3>. SUFFICES ASSUME damage = "none" PROVE out = input
      OBVIOUS
    <3>1. Len(input) = 0
      BY <1>1 DEF StreamInv
    <3>2. out \in Seq(Byte) /\ input \in Seq(Byte)
      BY <1>1, DecoderType, InputType
    <3>. QED
      BY <1>2, <3>1, <3>2, EmptySeq
  <2>5. RestoredInv'
    BY <1>1 DEF DecodeInv, RestoredInv, Restored, compressVars
  <2>6. SizeInv'
    BY <1>1, <1>2, <2>1 DEF DecodeInv, SizeInv, WithinDeclaredSize
  <2>7. AcceptedIsOriginal'
    BY <1>1, <2>3, <2>4 DEF AcceptedIsOriginal, compressVars
  <2>. QED
    BY <2>1, <2>5, <2>6, <2>7 DEF DecodeInv, PositionInv, RejectedForCause
<1>4. CASE stream # <<>>
  <2>1. verdict' = "rejected"
    BY <1>4 DEF DecodeEmpty
  <2>2. damage # "none"
    BY <1>1, <1>4 DEF StreamInv
  <2>. QED
    BY <1>1, <2>1, <2>2, RejectStep
<1>. QED
  BY <1>3, <1>4

\* At the end the totals tell a damaged archive from an intact one.
LEMMA FinishDecompressStep ==
  ASSUME IInv, Decompress, FinishDecompress
  PROVE  DecodeInv'
<1>1. /\ verdict = "running" /\ copies = 0 /\ ~hasCount /\ at = Len(stream)
      /\ out' = Restored /\ outBuf' = <<>> /\ sink' = sink /\ verdict' = SizeVerdict
      /\ UNCHANGED <<compressVars, damage, stream, expected>>
  BY StreamStep
     DEF FinishDecompress, AtStreamEnd, InLoop, FlushTo, Restored
<1>2. /\ TypeOK /\ StreamInv /\ CompressInv /\ DecodeInv /\ compressed = "ok"
      /\ total \in Nat /\ expected \in Nat /\ Len(input) \in Nat /\ input \in Seq(Byte)
      /\ Len(payload) = 2 * Blocks /\ Blocks \in Nat /\ Restored \in Seq(Byte)
      /\ Cut(Blocks) = Len(input) /\ \A k \in 0 .. Blocks - 1 : Cut(k) < Len(input)
  BY <1>1, DecodeContext, InputType, RestoredType, Tiling
<1>3. Len(Restored) = total /\ total <= expected
  BY <1>1, <1>2 DEF DecodeInv, SizeInv
<1>4. Restored' = Restored /\ Len(out') = total /\ Len(outBuf') = 0
  BY <1>1, <1>2, <1>3, ConcatEmptySeq, EmptySeq DEF Restored
<1>5. RestoredInv'
  BY <1>1, <1>2, <1>4 DEF DecodeInv, RestoredInv, compressVars
<1>6. SizeInv'
  BY <1>1, <1>2, <1>3, <1>4, ByteStreamAssumption DEF SizeInv, WithinDeclaredSize, SizeVerdict
<1>7. ASSUME damage # "altered"
      PROVE  \E b \in 0 .. Blocks :
               Len(stream) = 2 * b /\ total = Cut(b) /\ (b < Blocks => total < Len(input))
  <2>1. PICK b \in 0 .. Blocks : BeforeBlock(b)
    BY <1>1, <1>2, <1>7 DEF DecodeInv, PositionInv, WithinBlock, CopyingBlock
  <2>2. Len(stream) = 2 * b /\ total = Cut(b)
    BY <1>1, <2>1 DEF BeforeBlock
  <2>3. b < Blocks => total < Len(input)
    BY <1>2, <2>2
  <2>. QED
    BY <2>2, <2>3
<1>8. AcceptedIsOriginal'
  <2>. SUFFICES ASSUME total = expected, damage # "altered"
                PROVE  damage = "none" /\ out' = input
    BY <1>1 DEF AcceptedIsOriginal, SizeVerdict, compressVars
  <2>1. PICK b \in 0 .. Blocks :
          Len(stream) = 2 * b /\ total = Cut(b) /\ (b < Blocks => total < Len(input))
    BY <1>7
  <2>2. damage # "truncated"
    <3>. SUFFICES ASSUME damage = "truncated" PROVE FALSE
      OBVIOUS
    <3>1. Len(stream) < 2 * Blocks /\ expected = Len(input)
      BY <1>1, <1>2 DEF StreamInv
    <3>2. b < Blocks
      BY <1>2, <2>1, <3>1
    <3>3. total < Len(input) /\ total = Len(input)
      BY <2>1, <3>1, <3>2
    <3>. QED
      BY <1>2, <3>3
  <2>3. damage # "extended"
    <3>. SUFFICES ASSUME damage = "extended" PROVE FALSE
      OBVIOUS
    <3>1. Len(stream) > 2 * Blocks
      BY <1>1, <1>2 DEF StreamInv
    <3>. QED
      BY <1>2, <2>1, <3>1
  <2>4. damage # "resized"
    <3>. SUFFICES ASSUME damage = "resized" PROVE FALSE
      OBVIOUS
    <3>1. Len(stream) = 2 * Blocks /\ expected # Len(input)
      BY <1>1, <1>2 DEF StreamInv
    <3>2. b = Blocks
      BY <1>2, <2>1, <3>1
    <3>. QED
      BY <1>2, <2>1, <3>1, <3>2
  <2>5. damage = "none"
    BY <1>2, <2>2, <2>3, <2>4 DEF TypeOK
  <2>6. Len(Restored) = Len(input) /\ \A p \in 1 .. Len(Restored) : Restored[p] = input[p]
    BY <1>1, <1>2, <1>3, <2>5 DEF StreamInv, DecodeInv, RestoredInv
  <2>. QED
    BY <1>1, <1>2, <2>5, <2>6, SeqEqual
<1>9. RejectedForCause'
  <2>. SUFFICES ASSUME damage = "none" PROVE total = expected
    BY <1>1 DEF RejectedForCause, SizeVerdict
  <2>1. Len(stream) = 2 * Blocks /\ expected = Len(input)
    BY <1>1, <1>2 DEF StreamInv
  <2>2. PICK b \in 0 .. Blocks : Len(stream) = 2 * b /\ total = Cut(b)
    BY <1>7
  <2>3. b = Blocks
    BY <1>2, <2>1, <2>2
  <2>. QED
    BY <1>2, <2>1, <2>2, <2>3
<1>10. PositionInv'
  BY <1>1 DEF PositionInv, SizeVerdict
<1>. QED
  BY <1>5, <1>6, <1>8, <1>9, <1>10 DEF DecodeInv

\* The last flush fails.
LEMMA FinishFailsStep ==
  ASSUME IInv, Decompress, FinishFails
  PROVE  DecodeInv'
<1>1. verdict = "running" /\ copies = 0 /\ FlushFails(outBuf)
  BY DEF FinishFails, AtStreamEnd, InLoop
<1>2. /\ outBuf \in Seq(Byte) /\ DecodeInv /\ Len(Restored) \in Nat
      /\ total \in Nat /\ expected \in Nat
  BY <1>1, DecodeContext, DecoderType, RestoredType
<1>3. Len(out \o outBuf) <= expected
  BY <1>1, <1>2 DEF DecodeInv, SizeInv, Restored
<1>4. damage # "altered" =>
        /\ Len(out \o outBuf) <= Len(input)
        /\ \A i \in 1 .. Len(out \o outBuf) : (out \o outBuf)[i] = input[i]
  BY <1>2 DEF DecodeInv, RestoredInv, Restored
<1>. QED
  BY <1>1, <1>2, <1>3, <1>4, FlushFailsStep

-----------------------------------------------------------------------------
\* The decoder's steps keep the whole invariant.
LEMMA DecompressStep ==
  ASSUME IInv, Decompress
  PROVE  IInv'
<1>1. DecodeInv'
  BY DecodeEmptyStep, FetchBufferStep, TakeCountStep, TakeValueStep, PushCopyStep,
     PushCopyFailsStep, RejectDanglingStep, FinishDecompressStep, FinishFailsStep
     DEF Decompress, DecompressNext
<1>2. TypeOK' /\ CompressInv' /\ StreamInv'
  BY StreamStep
<1>. QED
  BY <1>1, <1>2 DEF IInv, CompressInv, TilesInv, DecodeInv

\* The invariant holds initially.
LEMMA InitSafe == Init => IInv
<1>. SUFFICES ASSUME Init PROVE IInv
  OBVIOUS
<1>1. TypeOK /\ DecompressInit /\ damage = "none"
  BY InitType DEF Init
<1>2. CompressInv
  BY EmptySeq DEF Init, CompressInit, CompressInv, TilesInv, BlocksInv, RunInv, LongestInv, Blocks
<1>3. StreamInv
  BY <1>1 DEF StreamInv, DecompressInit
<1>. QED
  BY <1>1, <1>2, <1>3, IdleDecode, IInvParts

\* Every step keeps the invariant.
LEMMA NextSafe == IInv /\ [Next]_vars => IInv'
<1>. SUFFICES ASSUME IInv, [Next]_vars PROVE IInv'
  OBVIOUS
<1>1. CASE UNCHANGED vars
  BY <1>1 DEF vars, compressVars, decompressVars, IInv, TypeOK, CompressTypeOK, DecompressTypeOK,
     BlocksInv, BlockIsRun, Cut, Blocks, RunInv, LongestInv, StreamInv, DecompressInit, SizeInv,
     WithinDeclaredSize, PositionInv, BeforeBlock, WithinBlock, CopyingBlock, RestoredInv,
     Restored, AcceptedIsOriginal, RejectedForCause
<1>. QED
  BY <1>1, CompressStep, StoreStep, DecompressStep DEF Next

\* The inductive invariant holds of every reachable state.
THEOREM Inductive == Spec => []IInv
BY InitSafe, NextSafe, PTL DEF Spec

\* A prefix, element by element.
LEMMA PrefixPointwise ==
  ASSUME NEW s \in Seq(Byte), NEW t \in Seq(Byte), Len(s) <= Len(t),
         \A i \in 1 .. Len(s) : s[i] = t[i]
  PROVE  IsPrefix(s, t)
<1>1. Len(s) \in Nat /\ \A i \in 1 .. Len(s) : s[i] \in Byte /\ t[i] \in Byte
  BY LenProperties, ElementOfSeq
<1>2. /\ SubSeq(s, 1, Len(s)) \in Seq(Byte) /\ SubSeq(t, 1, Len(s)) \in Seq(Byte)
      /\ Len(SubSeq(s, 1, Len(s))) = Len(s) /\ Len(SubSeq(t, 1, Len(s))) = Len(s)
  BY <1>1, SubSeqProperties
<1>3. \A i \in 1 .. Len(s) : SubSeq(s, 1, Len(s))[i] = s[i] /\ SubSeq(t, 1, Len(s))[i] = t[i]
  BY <1>1, SubSeqProperties
<1>4. SubSeq(s, 1, Len(s)) = SubSeq(t, 1, Len(s))
  BY <1>2, <1>3, SeqEqual
<1>. QED
  BY <1>4 DEF IsPrefix

\* OutputIsPrefix follows from what the invariant says byte by byte.
LEMMA RestoredIsPrefix == IInv => OutputIsPrefix
<1>. SUFFICES ASSUME IInv, damage # "altered" PROVE IsPrefix(out \o outBuf, input)
  BY DEF OutputIsPrefix
<1>1. Restored \in Seq(Byte) /\ input \in Seq(Byte)
  BY RestoredType, InputType DEF IInv
<1>2. Len(Restored) <= Len(input) /\ \A i \in 1 .. Len(Restored) : Restored[i] = input[i]
  BY DEF IInv, RestoredInv
<1>3. IsPrefix(Restored, input)
  BY <1>1, <1>2, PrefixPointwise
<1>. QED
  BY <1>3 DEF Restored

\* An accepted archive is undamaged, or damaged in a byte of its payload, and in
\* the first case the output is the input: for every alphabet, buffer size and input
\* the size checks of rle.cpp:105 and rle.cpp:131 and the dangling-length check of
\* rle.cpp:123 catch truncation, trailing bytes and a wrong size.
THEOREM AcceptedIsOriginalHolds == Spec => []AcceptedIsOriginal
<1>1. IInv => AcceptedIsOriginal
  BY DEF IInv
<1>. QED
  BY <1>1, Inductive, PTL

\* The decoder rejects nothing it could have restored (rle.cpp:62-136): with an
\* undamaged archive only the output stream can make it return nullopt.
THEOREM RejectedForCauseHolds == Spec => []RejectedForCause
<1>1. IInv => RejectedForCause
  BY DEF IInv
<1>. QED
  BY <1>1, Inductive, PTL

\* Nothing but the input's bytes, in order, is ever written (rle.cpp:84-90), unless
\* a payload byte was altered.
THEOREM OutputIsPrefixHolds == Spec => []OutputIsPrefix
BY RestoredIsPrefix, Inductive, PTL

\* The decoder never outputs more than the header announces and never buffers
\* a full block (rle.cpp:105-113), for any payload: the uint64 sum it compares
\* does not wrap.
THEOREM WithinDeclaredSizeHolds == Spec => []WithinDeclaredSize
<1>1. IInv => WithinDeclaredSize
  BY DEF IInv, SizeInv
<1>. QED
  BY <1>1, Inductive, PTL

-----------------------------------------------------------------------------
(***************************************************************************)
(* The payload is as short as RLE allows.                                  *)
(***************************************************************************)
\* However the input is cut, some block ends within each of the encoder's.
LEMMA EachBlockIsCut ==
  ASSUME IInv, compressed = "ok", NEW ends \in Tilings(input), NEW k \in 1 .. Blocks
  PROVE  \E e \in ends : Cut(k - 1) < e /\ e <= Cut(k)
<1>1. /\ Blocks \in Nat /\ Cut(k - 1) \in Nat /\ Cut(k) \in 1 .. Len(input) /\ Cut(k - 1) < Cut(k)
      /\ MaxByte \in Nat \ {0} /\ Len(input) \in Nat
  <2>1. TypeOK /\ CompressInv /\ BlocksInv
    BY IInvParts DEF IInv
  <2>2. Blocks \in Nat /\ k - 1 \in 0 .. Blocks /\ k \in 0 .. Blocks /\ k - 1 < k
    BY <2>1, Tiling
  <2>3. Cut(k - 1) < Cut(k)
    BY <2>1, <2>2 DEF BlocksInv
  <2>4. Cut(k - 1) \in 0 .. Len(input) /\ Cut(k) \in 0 .. Len(input)
    BY <2>1, <2>2, Tiling
  <2>. QED
    BY <2>1, <2>2, <2>3, <2>4, InputType, ByteStreamAssumption
<1>2. \/ Cut(k) = Len(input)
      \/ input[Cut(k) + 1] # input[Cut(k)]
      \/ Cut(k) = Cut(k - 1) + MaxByte
  BY DEF IInv, LongestInv
<1>3. \A i \in 1 .. Len(input) :
        \/ i \in ends
        \/ /\ i < Len(input)
           /\ input[i] = input[i + 1]
           /\ i > MaxByte - 1 => \E j \in i - MaxByte + 1 .. i - 1 : j \in ends
  BY DEF Tilings
<1>4. CASE Cut(k) \in ends
  BY <1>1, <1>4
<1>5. CASE Cut(k) \notin ends
  <2>1. Cut(k) = Cut(k - 1) + MaxByte /\ Cut(k) > MaxByte - 1
    BY <1>1, <1>2, <1>3, <1>5
  <2>2. PICK j \in Cut(k) - MaxByte + 1 .. Cut(k) - 1 : j \in ends
    BY <1>1, <1>3, <1>5, <2>1
  <2>3. Cut(k - 1) < j /\ j <= Cut(k)
    BY <1>1, <2>1, <2>2
  <2>. QED
    BY <2>2, <2>3
<1>. QED
  BY <1>4, <1>5

\* So every way to cut the input has at least as many blocks.
LEMMA NoFewerBlocks ==
  ASSUME IInv, compressed = "ok", NEW ends \in Tilings(input)
  PROVE  Cardinality(ends) \in Nat /\ Blocks <= Cardinality(ends)
<1>. DEFINE end == [k \in 1 .. Blocks |-> CHOOSE e \in ends : Cut(k - 1) < e /\ e <= Cut(k)]
<1>1. /\ Blocks \in Nat /\ Len(input) \in Nat
      /\ \A k \in 0 .. Blocks : Cut(k) \in Nat
      /\ \A j, k \in 0 .. Blocks : j < k => Cut(j) < Cut(k)
  <2>1. TypeOK /\ CompressInv /\ BlocksInv
    BY IInvParts DEF IInv
  <2>. QED
    BY <2>1, Tiling, InputType DEF BlocksInv
<1>2. \A k \in 1 .. Blocks : end[k] \in ends /\ Cut(k - 1) < end[k] /\ end[k] <= Cut(k)
  BY EachBlockIsCut
<1>3. ends \subseteq 1 .. Len(input) /\ end \in [1 .. Blocks -> ends]
  BY <1>2 DEF Tilings
<1>. HIDE DEF end
<1>4. ASSUME NEW j \in 1 .. Blocks, NEW k \in 1 .. Blocks, j < k
      PROVE  end[j] # end[k]
  <2>1. j \in 0 .. Blocks /\ k - 1 \in 0 .. Blocks /\ (j = k - 1 \/ j < k - 1)
    BY <1>1, <1>4
  <2>2. Cut(j) <= Cut(k - 1) /\ Cut(j) \in Nat /\ Cut(k - 1) \in Nat
    BY <1>1, <2>1
  <2>3. end[j] <= Cut(j) /\ Cut(k - 1) < end[k]
    BY <1>2
  <2>4. end[j] \in 1 .. Len(input) /\ end[k] \in 1 .. Len(input)
    BY <1>2, <1>3
  <2>5. end[j] \in Nat /\ end[k] \in Nat
    BY <1>1, <2>4
  <2>. QED
    BY <2>2, <2>3, <2>5
<1>5. end \in Injection(1 .. Blocks, ends)
  <2>1. \A j, k \in 1 .. Blocks : end[j] = end[k] => j = k
    <3>. TAKE j, k \in 1 .. Blocks
    <3>1. j \in Nat /\ k \in Nat /\ (j < k \/ k < j \/ j = k)
      BY <1>1
    <3>. QED
      BY <1>4, <3>1
  <2>. QED
    BY <1>3, <2>1 DEF Injection, IsInjective
<1>6. IsFiniteSet(ends)
  <2>1. IsFiniteSet(1 .. Len(input))
    BY <1>1, FS_Interval
  <2>. QED
    BY <1>3, <2>1, FS_Subset
<1>7. Cardinality(1 .. Blocks) <= Cardinality(ends)
  BY <1>5, <1>6, FS_Injection
<1>8. Cardinality(1 .. Blocks) = Blocks
  BY <1>1, FS_Interval
<1>. QED
  BY <1>6, <1>7, <1>8, FS_CardinalityType

\* RLE compression cuts runs only where it must, whatever blocks the input is
\* read in (rle.cpp:34-49): no sequence of (length, value) pairs that stands
\* for the input is shorter, for inputs and alphabets of any size.
THEOREM FewestBlocksHolds == Spec => []FewestBlocks
<1>1. IInv => FewestBlocks
  <2>. SUFFICES ASSUME IInv, compressed = "ok", NEW ends \in Tilings(input)
                PROVE  Len(payload) <= 2 * Cardinality(ends)
    BY DEF FewestBlocks
  <2>1. Len(payload) = 2 * Blocks /\ Blocks \in Nat
    BY IInvParts, Tiling
  <2>. QED
    BY <2>1, NoFewerBlocks
<1>. QED
  BY <1>1, Inductive, PTL

-----------------------------------------------------------------------------
(***************************************************************************)
(* Refinement of the contract.                                             *)
(***************************************************************************)
\* A sequence is a prefix of what is appended to it.
LEMMA ConcatIsPrefix ==
  ASSUME NEW s \in Seq(Byte), NEW t \in Seq(Byte)
  PROVE  IsPrefix(s, s \o t)
<1>1. /\ s \o t \in Seq(Byte) /\ Len(s) \in Nat /\ Len(t) \in Nat
      /\ Len(s \o t) = Len(s) + Len(t)
      /\ \A i \in 1 .. Len(s) + Len(t) : (s \o t)[i] = IF i <= Len(s) THEN s[i] ELSE t[i - Len(s)]
  BY ConcatProperties, LenProperties
<1>2. Len(s) <= Len(s \o t) /\ \A i \in 1 .. Len(s) : s[i] = (s \o t)[i]
  BY <1>1
<1>. QED
  BY <1>1, <1>2, PrefixPointwise

\* The decoder only appends to the sink.
LEMMA OutGrows ==
  ASSUME IInv, Decompress
  PROVE  \E bytes \in Seq(Byte) : out' = out \o bytes
<1>1. out \in Seq(Byte) /\ outBuf \in Seq(Byte)
  BY DecoderType DEF IInv
<1>2. CASE UNCHANGED out
  BY <1>1, <1>2, ConcatEmptySeq, EmptySeq
<1>3. ASSUME NEW bytes \in Seq(Byte), FlushFails(bytes)
      PROVE  \E part \in Seq(Byte) : out' = out \o part
  <2>1. PICK k \in 0 .. Len(bytes) : out' = out \o SubSeq(bytes, 1, k)
    BY <1>3 DEF FlushFails
  <2>2. SubSeq(bytes, 1, k) \in Seq(Byte)
    BY SubSeqProperties
  <2>. QED
    BY <2>1, <2>2
<1>4. CASE PushCopy
  <2>1. Pushed \in Seq(Byte)
    BY <1>4, PushFits DEF PushCopy
  <2>2. out' = out \/ out' = out \o Pushed
    BY <1>4 DEF PushCopy, FlushTo
  <2>. QED
    BY <1>2, <2>1, <2>2
<1>5. CASE PushCopyFails
  BY <1>3, <1>5, PushFits DEF PushCopyFails
<1>6. CASE FinishDecompress
  BY <1>1, <1>6 DEF FinishDecompress, FlushTo
<1>7. CASE FinishFails
  BY <1>1, <1>3, <1>7 DEF FinishFails
<1>. QED
  BY <1>2, <1>4, <1>5, <1>6, <1>7
     DEF Decompress, DecompressNext, DecodeEmpty, FetchBuffer, TakeCount, TakeValue,
         RejectDangling, sinkVars

\* Every step of the decoder is a step of the contract or none.
LEMMA DecompressImplements ==
  ASSUME IInv, IInv', Decompress
  PROVE  [Contract!ContractNext]_(Contract!contractVars)
<1>1. /\ verdict = "running" /\ verdict' \in {"running", "accepted", "rejected"}
      /\ UNCHANGED <<input, damage>>
  <2>1. verdict' \in {"idle", "running", "accepted", "rejected"}
    BY DEF IInv, TypeOK, DecompressTypeOK
  <2>. QED
    BY <2>1, StreamStep DEF compressVars
<1>2. /\ out \in Seq(Byte) /\ out' \in Seq(Byte) /\ input \in Seq(Byte)
      /\ outBuf' \in Seq(Byte) /\ sink' \in {"good", "failed"}
      /\ damage \in {"none", "truncated", "extended", "resized", "altered"}
  BY InputType DEF IInv, TypeOK, DecompressTypeOK
<1>3. IsPrefix(out, out')
  <2>1. PICK bytes \in Seq(Byte) : out' = out \o bytes
    BY OutGrows
  <2>. QED
    BY <1>2, <2>1, ConcatIsPrefix
<1>4. damage # "altered" => IsPrefix(out', input)
  <2>. SUFFICES ASSUME damage # "altered" PROVE IsPrefix(out', input)
    OBVIOUS
  <2>1. /\ Len(Restored') <= Len(input)
        /\ \A i \in 1 .. Len(Restored') : Restored'[i] = input[i]
    BY <1>1 DEF IInv, RestoredInv
  <2>2. /\ Len(out') \in Nat /\ Len(outBuf') \in Nat /\ Len(input) \in Nat
        /\ Len(Restored') = Len(out') + Len(outBuf')
        /\ \A i \in 1 .. Len(out') + Len(outBuf') :
             Restored'[i] = IF i <= Len(out') THEN out'[i] ELSE outBuf'[i - Len(out')]
    BY <1>2, ConcatProperties, LenProperties DEF Restored
  <2>3. Len(out') <= Len(input) /\ \A i \in 1 .. Len(out') : out'[i] = input[i]
    BY <2>1, <2>2
  <2>. QED
    BY <1>2, <2>3, PrefixPointwise
<1>5. Contract!Progress
  BY <1>1, <1>2, <1>3, <1>4
     DEF Contract!Progress, Contract!IsPrefix, Contract!Byte, IsPrefix, Byte
<1>6. CASE verdict' = "running"
  <2>1. UNCHANGED sink
    BY <1>1, <1>6 DEF Decompress, DecompressNext, DecodeEmpty, FetchBuffer, TakeCount, TakeValue,
       PushCopy, PushCopyFails, RejectDangling, FinishDecompress, FinishFails, FlushTo,
       FlushFails, sinkVars
  <2>2. Contract!Restore
    BY <1>1, <1>5, <1>6, <2>1 DEF Contract!Restore
  <2>. QED
    BY <2>2 DEF Contract!ContractNext
<1>7. CASE verdict' = "accepted"
  <2>1. UNCHANGED sink
    BY <1>1, <1>7 DEF Decompress, DecompressNext, DecodeEmpty, FetchBuffer, TakeCount, TakeValue,
       PushCopy, PushCopyFails, RejectDangling, FinishDecompress, FinishFails, FlushTo,
       FlushFails, sinkVars
  <2>2. damage = "altered" \/ (damage = "none" /\ out' = input)
    BY <1>1, <1>7 DEF IInv, AcceptedIsOriginal
  <2>3. Contract!Accept
    BY <1>1, <1>5, <1>7, <2>1, <2>2 DEF Contract!Accept
  <2>. QED
    BY <2>3 DEF Contract!ContractNext
<1>8. CASE verdict' = "rejected"
  <2>1. damage # "none" \/ sink' = "failed"
    BY <1>1, <1>8 DEF IInv, RejectedForCause
  <2>2. Contract!Reject
    BY <1>1, <1>2, <1>5, <1>8, <2>1 DEF Contract!Reject
  <2>. QED
    BY <2>2 DEF Contract!ContractNext
<1>. QED
  BY <1>1, <1>6, <1>7, <1>8

\* RLE compression and decompression (rle.cpp:8-136) implement the contract of
\* Compressor (compressor.hpp): whatever happens to the archive between the two
\* calls, the decompressor restores the source from an intact archive and only an
\* altered payload byte can pass unnoticed.
THEOREM RleImplementsContract == Spec => ImplementsContract
<1>1. Init => Contract!ContractInit
  BY DEF Init, CompressInit, DecompressInit, Contract!ContractInit
<1>2. IInv /\ IInv' /\ [Next]_vars => [Contract!ContractNext]_(Contract!contractVars)
  <2>. SUFFICES ASSUME IInv, IInv', [Next]_vars
                PROVE  [Contract!ContractNext]_(Contract!contractVars)
    OBVIOUS
  <2>1. CASE Compress
    <3>1. UNCHANGED <<input, damage, out, sink, verdict>>
      BY <2>1 DEF Compress, CompressNext, FillBuffer, StartRun, ExtendRun, CloseRun,
         FinishCompress, WriteBlockFails, decompressVars
    <3>. QED
      BY <3>1 DEF Contract!contractVars
  <2>2. CASE Store
    <3>1. verdict = "idle" /\ verdict' = "running" /\ UNCHANGED <<input, out, sink>>
      BY <2>2 DEF Store, StoreIntact, StoreTruncated, StoreExtended, StoreResized, StoreAltered,
         StartDecompress, sinkVars, compressVars
    <3>2. out = <<>>
      BY <3>1 DEF IInv, StreamInv, DecompressInit
    <3>3. damage' \in {"none", "truncated", "extended", "resized", "altered"}
      BY DEF IInv, TypeOK
    <3>4. Contract!Deliver
      BY <3>1, <3>2, <3>3 DEF Contract!Deliver, Contract!Damage
    <3>. QED
      BY <3>4 DEF Contract!ContractNext
  <2>3. CASE Decompress
    BY <2>3, DecompressImplements
  <2>4. CASE UNCHANGED vars
    BY <2>4 DEF vars, compressVars, decompressVars, Contract!contractVars
  <2>. QED
    BY <2>1, <2>2, <2>3, <2>4 DEF Next
<1>. QED
  BY <1>1, <1>2, Inductive, PTL DEF Spec, ImplementsContract, Contract!ContractSpec
-----------------------------------------------------------------------------
(***************************************************************************)
(* The loops end: every step of a call leaves less to do.                  *)
(***************************************************************************)
\* in.read delivers at least one byte before the end of the stream.
LEMMA ReadToGrows ==
  ASSUME NEW n \in Nat, NEW k \in 0 .. n, k < n
  PROVE  ReadTo(k, n) \in k + 1 .. n
BY ByteStreamAssumption DEF ReadTo

\* A byte processed is worth more than the copies it may ask for.
LEMMA ByteTaken ==
  ASSUME NEW n \in Nat, NEW i \in Nat, i < n
  PROVE  /\ (MaxByte + 1) * (n - (i + 1)) = (MaxByte + 1) * (n - i) - (MaxByte + 1)
         /\ (MaxByte + 1) * (n - (i + 1)) \in Nat
<1>1. MaxByte + 1 \in Nat /\ n - i \in Nat /\ n - (i + 1) \in Nat
  BY ByteStreamAssumption
<1>2. \A a \in Nat, b \in Int : a * (b - 1) = a * b - a
  OBVIOUS
<1>3. \A a, b \in Nat : a * b \in Nat
  OBVIOUS
<1>4. (MaxByte + 1) * ((n - i) - 1) = (MaxByte + 1) * (n - i) - (MaxByte + 1)
  BY <1>1, <1>2
<1>5. (n - i) - 1 = n - (i + 1)
  BY <1>1
<1>. QED
  BY <1>1, <1>3, <1>4, <1>5

\* What is left to do is a number.
WorkInv == EncoderWork \in Nat /\ DecoderWork \in Nat

LEMMA WorkIsNat == TypeOK => WorkInv
<1>. SUFFICES ASSUME TypeOK PROVE WorkInv
  BY DEF WorkInv
<1>1. Len(input) \in Nat /\ filled \in 0 .. Len(input) /\ pos \in 0 .. filled
  BY InputType DEF TypeOK, CompressTypeOK
<1>2. EncoderWork \in Nat
  BY <1>1 DEF EncoderWork
<1>3. \A a, b \in Nat : a * b \in Nat
  OBVIOUS
<1>4. (MaxByte + 1) * (Len(stream) - at) \in Nat
  <2>1. MaxByte + 1 \in Nat /\ Len(stream) - at \in Nat
    BY DecoderType, ByteStreamAssumption
  <2>. QED
    BY <1>3, <2>1
<1>5. Len(stream) - fetched \in Nat /\ copies \in Nat
  BY DecoderType
<1>6. DecoderWork \in Nat
  BY <1>4, <1>5 DEF DecoderWork
<1>. QED
  BY <1>2, <1>6 DEF WorkInv

\* Every step of the encoder reads, processes or returns.
LEMMA EncoderAdvances ==
  ASSUME TypeOK, CompressNext
  PROVE  EncoderWork' < EncoderWork
<1>. USE DEF EncoderWork
<1>1. Len(input) \in Nat /\ filled \in 0 .. Len(input) /\ pos \in 0 .. filled
  BY InputType DEF TypeOK, CompressTypeOK
<1>2. CASE FillBuffer
  <2>1. filled' \in filled + 1 .. Len(input)
    BY <1>1, <1>2, ReadToGrows DEF FillBuffer
  <2>2. UNCHANGED <<input, pos, compressed>>
    BY <1>2 DEF FillBuffer
  <2>. QED
    BY <1>1, <2>1, <2>2
<1>3. CASE StartRun
  BY <1>1, <1>3 DEF StartRun, AtByte
<1>4. CASE ExtendRun
  BY <1>1, <1>4 DEF ExtendRun, AtByte
<1>5. CASE CloseRun
  BY <1>1, <1>5 DEF CloseRun, AtByte
<1>6. CASE FinishCompress
  <2>1. compressed = "running" /\ compressed' = "ok" /\ UNCHANGED <<input, filled, pos>>
    BY <1>6 DEF FinishCompress, AtEnd
  <2>. QED
    BY <1>1, <2>1
<1>7. CASE WriteBlockFails
  <2>1. compressed = "running" /\ compressed' = "failed" /\ UNCHANGED <<input, filled, pos>>
    BY <1>7 DEF WriteBlockFails, AtByte, AtEnd
  <2>. QED
    BY <1>1, <2>1
<1>. QED
  BY <1>2, <1>3, <1>4, <1>5, <1>6, <1>7 DEF CompressNext

\* A step of the decoder that only returns leaves less to do.
LEMMA ReturnAdvances ==
  ASSUME TypeOK, verdict = "running", verdict' \in {"accepted", "rejected"},
         UNCHANGED <<cursorVars, copies>>
  PROVE  DecoderWork' < DecoderWork
<1>1. Len(stream) - fetched \in Nat /\ copies \in Nat
  BY DecoderType
<1>2. \A a, b \in Nat : a * b \in Nat
  OBVIOUS
<1>3. (MaxByte + 1) * (Len(stream) - at) \in Nat
  <2>1. MaxByte + 1 \in Nat /\ Len(stream) - at \in Nat
    BY DecoderType, ByteStreamAssumption
  <2>. QED
    BY <1>2, <2>1
<1>4. DecoderWork = (Len(stream) - fetched) + (MaxByte + 1) * (Len(stream) - at) + copies + 1
  BY DEF DecoderWork
<1>5. DecoderWork' = (Len(stream) - fetched) + (MaxByte + 1) * (Len(stream) - at) + copies
  BY <1>1, <1>3 DEF DecoderWork, cursorVars
<1>. QED
  BY <1>1, <1>3, <1>4, <1>5

\* A step of the decoder that takes a byte leaves less to do, whatever number of
\* copies the byte asks for.
LEMMA ByteAdvances ==
  ASSUME TypeOK, AtStreamByte, at' = at + 1, UNCHANGED <<stream, fetched>>,
         copies' \in 0 .. MaxByte, verdict' \in {"running", "rejected"}
  PROVE  DecoderWork' < DecoderWork
<1>1. /\ Len(stream) \in Nat /\ at \in Nat /\ at < Len(stream)
      /\ Len(stream) - fetched \in Nat /\ copies = 0 /\ verdict = "running"
  BY DecoderType DEF AtStreamByte, InLoop
<1>2. MaxByte \in Nat
  BY ByteStreamAssumption
<1>3. DecoderWork = (Len(stream) - fetched) + (MaxByte + 1) * (Len(stream) - at) + 0 + 1
  BY <1>1 DEF DecoderWork
<1>4. DecoderWork' = (Len(stream) - fetched) + (MaxByte + 1) * (Len(stream) - (at + 1))
                       + copies' + (IF verdict' = "running" THEN 1 ELSE 0)
  BY DEF DecoderWork
<1> DEFINE before == (MaxByte + 1) * (Len(stream) - at)
           after == (MaxByte + 1) * (Len(stream) - (at + 1))
<1>5. after = before - (MaxByte + 1) /\ after \in Nat
  BY <1>1, ByteTaken
<1>6. before \in Int
  BY <1>1, <1>2
<1>7. (IF verdict' = "running" THEN 1 ELSE 0) \in 0 .. 1
  OBVIOUS
<1>. HIDE DEF before, after
<1>8. (Len(stream) - fetched) + after + copies' + (IF verdict' = "running" THEN 1 ELSE 0)
        < (Len(stream) - fetched) + before + 0 + 1
  BY <1>1, <1>2, <1>5, <1>6, <1>7
<1>. QED
  BY <1>3, <1>4, <1>8 DEF before, after

\* Every step of the decoder reads, processes, pushes or returns.
LEMMA DecoderAdvances ==
  ASSUME TypeOK, DecompressNext
  PROVE  DecoderWork' < DecoderWork
<1>. USE DEF cursorVars, countVars, sinkVars
<1>1. CASE DecodeEmpty
  BY <1>1, ReturnAdvances DEF DecodeEmpty
<1>2. CASE FetchBuffer
  <2>1. fetched' \in fetched + 1 .. Len(stream)
    BY <1>2, DecoderType, ReadToGrows DEF FetchBuffer
  <2>2. UNCHANGED <<stream, at, copies, verdict>>
    BY <1>2 DEF FetchBuffer
  <2>3. Len(stream) \in Nat /\ fetched \in Nat /\ at \in Nat /\ at <= Len(stream) /\ copies \in Nat
    BY DecoderType
  <2>4. (MaxByte + 1) * (Len(stream) - at) \in Int
    BY <2>3, ByteStreamAssumption
  <2>. DEFINE rest == (MaxByte + 1) * (Len(stream) - at) + copies
                        + (IF verdict = "running" THEN 1 ELSE 0)
  <2>5. rest \in Int
    BY <2>3, <2>4
  <2>6. DecoderWork = (Len(stream) - fetched) + rest /\ DecoderWork' = (Len(stream) - fetched') + rest
    BY <2>1, <2>2, <2>3, <2>4 DEF DecoderWork
  <2>. HIDE DEF rest
  <2>. QED
    BY <2>1, <2>3, <2>5, <2>6
<1>3. CASE TakeCount
  <2>1. at' = at + 1 /\ UNCHANGED <<stream, fetched, copies>> /\ AtStreamByte
    BY <1>3 DEF TakeCount
  <2>2. copies' \in 0 .. MaxByte
    BY <2>1, ByteStreamAssumption DEF AtStreamByte, InLoop
  <2>3. verdict' \in {"running", "rejected"}
    BY <1>3 DEF TakeCount, AtStreamByte, InLoop
  <2>. QED
    BY <2>1, <2>2, <2>3, ByteAdvances
<1>4. CASE TakeValue
  <2>1. at' = at + 1 /\ UNCHANGED <<stream, fetched>> /\ AtStreamByte
    BY <1>4 DEF TakeValue
  <2>2. copies' \in 0 .. MaxByte
    BY <1>4 DEF TakeValue, TypeOK, DecompressTypeOK, Byte
  <2>3. verdict' \in {"running", "rejected"}
    BY <1>4 DEF TakeValue, AtStreamByte, InLoop
  <2>. QED
    BY <2>1, <2>2, <2>3, ByteAdvances
<1>5. CASE PushCopy
  <2>1. copies' = copies - 1 /\ copies > 0 /\ UNCHANGED <<stream, fetched, at, verdict>>
    BY <1>5 DEF PushCopy, CountCopy
  <2>2. Len(stream) \in Nat /\ fetched \in Nat /\ at \in Nat /\ copies \in Nat
    BY DecoderType
  <2>3. (MaxByte + 1) * (Len(stream) - at) \in Int
    BY <2>2, ByteStreamAssumption
  <2>. DEFINE rest == (Len(stream) - fetched) + (MaxByte + 1) * (Len(stream) - at)
  <2>4. rest \in Int
    BY <2>2, <2>3
  <2>5. /\ DecoderWork = rest + copies + (IF verdict = "running" THEN 1 ELSE 0)
        /\ DecoderWork' = rest + copies' + (IF verdict = "running" THEN 1 ELSE 0)
    BY <2>1 DEF DecoderWork
  <2>. HIDE DEF rest
  <2>. QED
    BY <2>1, <2>2, <2>4, <2>5
<1>6. CASE PushCopyFails
  BY <1>6, ReturnAdvances DEF PushCopyFails, FlushFails
<1>7. CASE RejectDangling
  BY <1>7, ReturnAdvances DEF RejectDangling, AtStreamEnd, InLoop
<1>8. CASE FinishDecompress
  BY <1>8, ReturnAdvances DEF FinishDecompress, SizeVerdict, AtStreamEnd, InLoop
<1>9. CASE FinishFails
  BY <1>9, ReturnAdvances DEF FinishFails, FlushFails, AtStreamEnd, InLoop
<1>. QED
  BY <1>1, <1>2, <1>3, <1>4, <1>5, <1>6, <1>7, <1>8, <1>9 DEF DecompressNext

\* One half runs while the other rests.
LEMMA HalvesAlternate ==
  IInv => /\ compressed = "running" => verdict = "idle"
          /\ verdict = "running" => compressed = "ok"
BY DEF IInv, StreamInv, TypeOK, DecompressTypeOK

\* Every step of a running call, of the encoder or of the decoder and for any
\* stream the decoder is given, leaves a smaller number of steps to take: no loop
\* of either goes round for ever (rle.cpp:24-49, 92-120).
THEOREM CallsAdvanceHolds == Spec => [][CallsAdvance]_vars
<1>1. ASSUME IInv, WorkInv, WorkInv', [Next]_vars, vars' # vars
      PROVE  CallsAdvance
  <2>1. TypeOK
    BY <1>1 DEF IInv
  <2>2. EncoderWork \in Nat /\ DecoderWork \in Nat /\ EncoderWork' \in Nat /\ DecoderWork' \in Nat
    BY <1>1 DEF WorkInv
  <2>3. CASE Compress
    <3>1. EncoderWork' < EncoderWork
      BY <2>1, <2>3, EncoderAdvances DEF Compress
    <3>2. verdict # "running"
      <4>1. compressed = "running"
        BY <2>3 DEF Compress, CompressNext, FillBuffer, StartRun, ExtendRun, CloseRun,
           FinishCompress, WriteBlockFails, AtByte, AtEnd
      <4>. QED
        BY <1>1, <4>1, HalvesAlternate
    <3>. QED
      BY <2>2, <3>1, <3>2 DEF CallsAdvance
  <2>4. CASE Store
    <3>1. compressed = "ok" /\ verdict = "idle"
      BY <2>4 DEF Store, StoreIntact, StoreTruncated, StoreExtended, StoreResized,
         StoreAltered, StartDecompress
    <3>. QED
      BY <3>1 DEF CallsAdvance
  <2>5. CASE Decompress
    <3>1. DecoderWork' < DecoderWork
      BY <2>1, <2>5, DecoderAdvances DEF Decompress
    <3>2. compressed # "running"
      <4>1. verdict = "running"
        BY <2>5 DEF Decompress, DecompressNext, DecodeEmpty, FetchBuffer, TakeCount, TakeValue,
           PushCopy, PushCopyFails, RejectDangling, FinishDecompress, FinishFails,
           AtStreamByte, AtStreamEnd, InLoop
      <4>. QED
        BY <1>1, <4>1, HalvesAlternate
    <3>. QED
      BY <2>2, <3>1, <3>2 DEF CallsAdvance
  <2>. QED
    BY <1>1, <2>3, <2>4, <2>5 DEF Next
<1>2. IInv /\ WorkInv /\ WorkInv' /\ [Next]_vars => [CallsAdvance]_vars
  BY <1>1
<1>3. IInv => WorkInv
  BY WorkIsNat DEF IInv
<1>. QED
  BY <1>2, <1>3, Inductive, PTL DEF Spec
=============================================================================
