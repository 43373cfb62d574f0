---------------------------- MODULE RleDecompress ----------------------------
(***************************************************************************)
(* RleCompressor::decompress of src/core/rle.cpp, for any stream of bytes. *)
(*                                                                         *)
(* The stream is read in blocks of BufferSize bytes.  A pair's first byte  *)
(* may be the last of one block and its second byte the first of the next, *)
(* so the decoder remembers in hasCount that a length is waiting for its   *)
(* value.  Decoded bytes are collected in outBuf and written to the sink   *)
(* when outBuf is full and once more at the end.                           *)
(***************************************************************************)
EXTENDS ByteStream

VARIABLES
  stream,      \* what the stream `in` holds after the header
  expected,    \* expected_size, from the header
  fetched,     \* bytes of the stream read into in_buf so far
  at,          \* bytes of the stream processed so far
  hasCount,    \* has_count
  count,       \* count
  copies,      \* copies of the value the inner loop has still to push
  total,       \* total_decompressed
  outBuf,      \* out_buf
  out,         \* what the sink has accepted
  sink,        \* "good" until a write fails
  verdict      \* "idle", "running", then "accepted" (a size) or "rejected" (nullopt)

decompressVars ==
  <<stream, expected, fetched, at, hasCount, count, copies, total, outBuf, out,
    sink, verdict>>

cursorVars == <<stream, expected, fetched, at>>
countVars == <<hasCount, count, copies, total>>
sinkVars == <<outBuf, out, sink>>

DecompressInit ==
  /\ stream = <<>>
  /\ expected = 0
  /\ fetched = 0
  /\ at = 0
  /\ hasCount = FALSE
  /\ count = 0
  /\ copies = 0
  /\ total = 0
  /\ outBuf = <<>>
  /\ out = <<>>
  /\ sink = "good"
  /\ verdict = "idle"

\* The call: the stream to decode and the size its header announces.
StartDecompress(s, size) ==
  /\ verdict = "idle"
  /\ stream' = s
  /\ expected' = size
  /\ verdict' = "running"
  /\ UNCHANGED <<fetched, at, countVars, sinkVars>>

-----------------------------------------------------------------------------
\* expected_size == 0: the stream must be at its end.
DecodeEmpty ==
  /\ verdict = "running"
  /\ expected = 0
  /\ verdict' = IF stream = <<>> THEN "accepted" ELSE "rejected"
  /\ UNCHANGED <<cursorVars, countVars, sinkVars>>

InLoop == verdict = "running" /\ expected # 0 /\ copies = 0

AtStreamByte == InLoop /\ at < fetched

FetchBuffer ==
  /\ InLoop
  /\ at = fetched
  /\ fetched < Len(stream)
  /\ fetched' = ReadTo(fetched, Len(stream))
  /\ UNCHANGED <<stream, expected, at, countVars, sinkVars, verdict>>

TakeCount ==
  /\ AtStreamByte
  /\ ~hasCount
  /\ at' = at + 1
  /\ count' = stream[at + 1]
  /\ IF count' = 0
       THEN verdict' = "rejected" /\ UNCHANGED hasCount
       ELSE hasCount' = TRUE /\ UNCHANGED verdict
  /\ UNCHANGED <<stream, expected, fetched, copies, total, sinkVars>>

\* The addition is on uint64_t.
Fits == (total + count) % SizeMod <= expected

\* The byte is a value: enter the inner loop, or stop before the output would
\* grow past the size the header announces.
TakeValue ==
  /\ AtStreamByte
  /\ hasCount
  /\ at' = at + 1
  /\ IF Fits
       THEN copies' = count /\ UNCHANGED verdict
       ELSE verdict' = "rejected" /\ UNCHANGED copies
  /\ UNCHANGED <<stream, expected, fetched, hasCount, count, total, sinkVars>>

Pushed == Append(outBuf, stream[at])

\* The inner loop's last iteration is followed by the update of the totals.
CountCopy ==
  /\ copies' = copies - 1
  /\ IF copies = 1
       THEN /\ total' = (total + count) % SizeMod
            /\ hasCount' = FALSE
       ELSE UNCHANGED <<total, hasCount>>
  /\ UNCHANGED count

\* flush_out_buf when every byte reaches the sink.
FlushTo(bytes) ==
  /\ out' = out \o bytes
  /\ outBuf' = <<>>
  /\ UNCHANGED sink

\* flush_out_buf when the sink takes only some of the bytes: return nullopt.
FlushFails(bytes) ==
  /\ \E k \in 0 .. Len(bytes) : out' = out \o SubSeq(bytes, 1, k)
  /\ outBuf' = <<>>
  /\ sink' = "failed"
  /\ verdict' = "rejected"

PushCopy ==
  /\ verdict = "running"
  /\ copies > 0
  /\ CountCopy
  /\ IF Len(Pushed) >= BufferSize
       THEN FlushTo(Pushed)
       ELSE outBuf' = Pushed /\ UNCHANGED <<out, sink>>
  /\ UNCHANGED <<cursorVars, verdict>>

PushCopyFails ==
  /\ verdict = "running"
  /\ copies > 0
  /\ Len(Pushed) >= BufferSize
  /\ FlushFails(Pushed)
  /\ UNCHANGED <<cursorVars, countVars>>

\* Mutant: the end of the stream is never noticed.
EndUnnoticed == FALSE

AtStreamEnd == InLoop /\ at = fetched /\ fetched = Len(stream)

\* Mutant: a length without its value is ignored.
DanglingIgnored ==
  /\ AtStreamEnd
  /\ hasCount
  /\ verdict' = IF total = expected THEN "accepted" ELSE "rejected"
  /\ UNCHANGED <<cursorVars, countVars, sinkVars>>

\* A length without its value.
RejectDangling ==
  /\ AtStreamEnd
  /\ hasCount
  /\ verdict' = "rejected"
  /\ UNCHANGED <<cursorVars, countVars, sinkVars>>

\* What the size check after the last flush returns.
SizeVerdict == IF total = expected THEN "accepted" ELSE "rejected"

FinishDecompress ==
  /\ AtStreamEnd
  /\ ~hasCount
  /\ FlushTo(outBuf)
  /\ verdict' = SizeVerdict
  /\ UNCHANGED <<cursorVars, countVars>>

FinishFails ==
  /\ AtStreamEnd
  /\ ~hasCount
  /\ outBuf # <<>>
  /\ FlushFails(outBuf)
  /\ UNCHANGED <<cursorVars, countVars>>

DecompressNext ==
  \/ DecodeEmpty
  \/ FetchBuffer
  \/ TakeCount
  \/ TakeValue
  \/ PushCopy
  \/ PushCopyFails
  \/ RejectDangling
  \/ FinishDecompress
  \/ FinishFails

-----------------------------------------------------------------------------
DecompressTypeOK ==
  /\ stream \in Seq(Byte)
  /\ expected \in Size
  /\ fetched \in 0 .. Len(stream)
  /\ at \in 0 .. fetched
  /\ hasCount \in BOOLEAN
  /\ count \in Byte
  /\ copies \in Byte
  /\ total \in Size
  /\ outBuf \in Seq(Byte)
  /\ out \in Seq(Byte)
  /\ sink \in {"good", "failed"}
  /\ verdict \in {"idle", "running", "accepted", "rejected"}
=============================================================================
