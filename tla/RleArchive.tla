------------------------------ MODULE RleArchive ------------------------------
(***************************************************************************)
(* An RLE archive's life: compress, store, decompress.                     *)
(*                                                                         *)
(* The two halves run in different processes, possibly at different times  *)
(* on different machines; what connects them is the payload and the size   *)
(* in the header.  Store chooses what becomes of those on the way.         *)
(***************************************************************************)
EXTENDS RleCompress, RleDecompress

CONSTANT Tails  \* the byte sequences that may follow an archive in its file

ASSUME TailsAssumption == Tails \subseteq Seq(Byte) \ {<<>>}

VARIABLE damage  \* what happened to the archive while it was stored

vars == <<compressVars, decompressVars, damage>>

Init == CompressInit /\ DecompressInit /\ damage = "none"

-----------------------------------------------------------------------------
\* run_trial records the size of the input in the header.
StoreIntact ==
  /\ StartDecompress(payload, Len(input))
  /\ UNCHANGED damage

StoreTruncated ==
  /\ \E n \in 0 .. Len(payload) - 1 :
       StartDecompress(SubSeq(payload, 1, n), Len(input))
  /\ damage' = "truncated"

StoreExtended ==
  /\ \E tail \in Tails : StartDecompress(payload \o tail, Len(input))
  /\ damage' = "extended"

StoreResized ==
  /\ \E size \in Size \ {Len(input)} : StartDecompress(payload, size)
  /\ damage' = "resized"

StoreAltered ==
  /\ \E i \in 1 .. Len(payload), b \in Byte :
       StartDecompress([payload EXCEPT ![i] = b], Len(input))
  /\ damage' = "altered"

Store ==
  /\ compressed = "ok"
  /\ \/ StoreIntact
     \/ StoreTruncated
     \/ StoreExtended
     \/ StoreResized
     \/ StoreAltered
  /\ UNCHANGED compressVars

Compress == CompressNext /\ UNCHANGED <<decompressVars, damage>>

Decompress == DecompressNext /\ UNCHANGED <<compressVars, damage>>

Next == Compress \/ Store \/ Decompress

Spec == Init /\ [][Next]_vars

\* Neither loop waits for anything: the process runs until it returns.
FairSpec == Spec /\ WF_vars(Compress) /\ WF_vars(Decompress)

-----------------------------------------------------------------------------
TypeOK ==
  /\ CompressTypeOK
  /\ DecompressTypeOK
  /\ damage \in {"none", "truncated", "extended", "resized", "altered"}

\* An archive is accepted only if it is intact, and then the output is the
\* input: truncation, trailing bytes and a wrong size never pass (rle.cpp:123-133).
\* Altered payload bytes are outside: the format has no checksum.
AcceptedIsOriginal ==
  verdict = "accepted" => damage = "altered" \/ (damage = "none" /\ out = input)

\* An intact archive is rejected only when the output stream failed.
RejectedForCause ==
  verdict = "rejected" => damage # "none" \/ sink = "failed"

\* Whatever was written before the verdict is a prefix of the original, also
\* when the archive turns out to be damaged (rle.cpp:84-90): the reader of a
\* pipe never sees a byte that is not the input's.
OutputIsPrefix == damage # "altered" => IsPrefix(out \o outBuf, input)

\* For any payload the decoder neither produces more than the header announces
\* (rle.cpp:105) nor holds more than a buffer of it (rle.cpp:111).
WithinDeclaredSize ==
  /\ Len(out) + Len(outBuf) <= expected
  /\ Len(outBuf) < BufferSize
  /\ verdict = "accepted" => Len(out) = expected

\* The sets of block ends with which an input can be cut into RLE blocks.
Tilings(x) ==
  {ends \in SUBSET (1 .. Len(x)) :
     \A i \in 1 .. Len(x) :
       \/ i \in ends
       \/ /\ i < Len(x)
          /\ x[i] = x[i + 1]
          /\ i > MaxByte - 1 => \E j \in i - MaxByte + 1 .. i - 1 : j \in ends}

\* No sequence of blocks that encodes the input is shorter than the payload:
\* runs are cut only where they must be (rle.cpp:34-49), whatever the blocks
\* the input was read in.
FewestBlocks ==
  compressed = "ok" =>
    \A ends \in Tilings(input) : Len(payload) <= 2 * Cardinality(ends)

\* Every call returns: a stored archive is accepted or rejected, unless it could
\* not be compressed.
EveryCallReturns ==
  /\ <>(compressed # "running")
  /\ verdict = "running" ~> verdict \in {"accepted", "rejected"}

Contract == INSTANCE ArchiveContract WITH
  Sources <- Inputs,
  Unnoticed <- {"altered"},
  source <- input,
  restored <- out,
  verdict <- IF verdict \in {"accepted", "rejected"} THEN verdict ELSE "pending"

\* Compressing, storing and decompressing with RLE is an archive in the sense of
\* the contract.
ImplementsContract == Contract!ContractSpec
=============================================================================
