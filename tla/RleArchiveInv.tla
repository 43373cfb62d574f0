---------------------------- MODULE RleArchiveInv ----------------------------
(***************************************************************************)
(* The inductive invariant behind the safety of RleArchive: how the        *)
(* payload tiles the input and where in that tiling the decoder is.        *)
(***************************************************************************)
EXTENDS RleArchive

\* The input offset where block k ends.
Cut(k) == IF k = 0 THEN 0 ELSE cuts[k]

Blocks == Len(cuts)

\* Block k of the payload stands for the input between two cuts.
BlockIsRun(k) ==
  /\ payload[2 * k - 1] \in 1 .. MaxByte
  /\ Cut(k) = Cut(k - 1) + payload[2 * k - 1]
  /\ \A p \in Cut(k - 1) + 1 .. Cut(k) : input[p] = payload[2 * k]

BlocksInv ==
  compressed # "failed" =>
    /\ Len(payload) = 2 * Blocks
    /\ \A k \in 1 .. Blocks : BlockIsRun(k)
    /\ \A j, k \in 0 .. Blocks : j < k => Cut(j) < Cut(k)

\* A block ends only where the input does, where the next byte differs, or where
\* its length byte is used up.
LongestInv ==
  compressed # "failed" =>
    \A k \in 1 .. Blocks :
      \/ Cut(k) = Len(input)
      \/ input[Cut(k) + 1] # input[Cut(k)]
      \/ Cut(k) = Cut(k - 1) + MaxByte

\* The run in progress continues the tiling up to pos.
RunInv ==
  /\ compressed = "running" /\ hasRun =>
       /\ runLen >= 1
       /\ Cut(Blocks) + runLen = pos
       /\ \A p \in Cut(Blocks) + 1 .. pos : input[p] = runVal
  /\ compressed = "running" /\ ~hasRun => pos = 0 /\ Blocks = 0
  /\ compressed = "ok" => Cut(Blocks) = Len(input)

\* What each kind of damage leaves of the archive.
StreamInv ==
  /\ verdict = "idle" => DecompressInit /\ damage = "none"
  /\ verdict # "idle" =>
       /\ compressed = "ok"
       /\ damage \in {"none", "resized"} => stream = payload
       /\ damage # "resized" => expected = Len(input)
       /\ damage = "resized" => expected # Len(input)
       /\ damage = "truncated" => Len(stream) < Len(payload)
       /\ damage = "extended" => Len(stream) > Len(payload)
       /\ damage # "altered" =>
            \A i \in 1 .. Len(stream) : i <= Len(payload) => stream[i] = payload[i]

Restored == out \o outBuf

\* How much has been restored, whatever the stream holds.
SizeInv ==
  /\ verdict = "running" =>
       /\ total <= expected
       /\ total <= Len(input)
       /\ hasCount => count > 0
       /\ copies > 0 => /\ at > 0
                        /\ hasCount
                        /\ copies <= count
                        /\ total + count <= expected
                        /\ total + count <= Len(input)
       /\ Len(Restored) = total + (IF copies > 0 THEN count - copies ELSE 0)
  /\ WithinDeclaredSize

\* The decoder is before a block, within one, or copying the value of one.
BeforeBlock(b) ==
  copies = 0 /\ ~hasCount /\ at = 2 * b /\ total = Cut(b)

WithinBlock(b) ==
  copies = 0 /\ hasCount /\ at = 2 * b + 1 /\ count = stream[at] /\ total = Cut(b)

CopyingBlock(b) ==
  /\ copies > 0
  /\ b > 0
  /\ at = 2 * b
  /\ count = payload[2 * b - 1]
  /\ total = Cut(b - 1)

PositionInv ==
  verdict = "running" /\ damage # "altered" =>
    \E b \in 0 .. Blocks : BeforeBlock(b) \/ WithinBlock(b) \/ CopyingBlock(b)

\* OutputIsPrefix, byte by byte.
RestoredInv ==
  damage # "altered" =>
    /\ Len(Restored) <= Len(input)
    /\ \A p \in 1 .. Len(Restored) : Restored[p] = input[p]

\* Encoder and decoder agree on the tiling throughout (rle.cpp:8-136): every
\* step keeps this conjunction, and it contains or implies the safety properties
\* of RleArchive.
IInv ==
  /\ TypeOK
  /\ BlocksInv
  /\ RunInv
  /\ LongestInv
  /\ StreamInv
  /\ SizeInv
  /\ PositionInv
  /\ RestoredInv
  /\ AcceptedIsOriginal
  /\ RejectedForCause
-----------------------------------------------------------------------------
\* Bounds on the steps that are left: the bytes still to be read into a buffer,
\* those still to be processed, the copies still to be pushed, and the return.
EncoderWork ==
  (Len(input) - filled) + (Len(input) - pos) + (IF compressed = "running" THEN 1 ELSE 0)

DecoderWork ==
  (Len(stream) - fetched) + (MaxByte + 1) * (Len(stream) - at) + copies
    + (IF verdict = "running" THEN 1 ELSE 0)

\* No step of a running call leaves as much to do as there was: neither loop can
\* go round without having read, processed or pushed a byte (rle.cpp:24-49,
\* 92-120), so a call takes at most so many steps as its work bounds when it starts.
CallsAdvance ==
  /\ compressed = "running" => EncoderWork' \in 0 .. EncoderWork - 1
  /\ verdict = "running" => DecoderWork' \in 0 .. DecoderWork - 1
=============================================================================
