---------------------------- MODULE HuffmanArchive ----------------------------
(***************************************************************************)
(* A Huffman archive's life: compress, store, decompress.                  *)
(*                                                                         *)
(* What connects the two halves is the payload and the size in the header. *)
(* The tree is not stored: both sides build it from the frequency table,   *)
(* and the archive can be read only if they build the same one.            *)
(***************************************************************************)
EXTENDS HuffmanCompress, HuffmanDecompress

CONSTANTS
  Tails,   \* the byte sequences that may follow an archive in its file
  Patches  \* the byte sequences that may overwrite a part of it

ASSUME DamageAssumption ==
  /\ Tails \subseteq Seq(Byte) \ {<<>>}
  /\ Patches \subseteq Seq(Byte) \ {<<>>}

VARIABLE damage  \* what happened to the archive while it was stored

vars == <<compressVars, decompressVars, damage>>

Init == CompressInit /\ DecompressInit /\ damage = "none"

-----------------------------------------------------------------------------
\* run_trial records the size of the input in the header.
StoreIntact ==
  /\ StartDecompress(payload, Len(input))
  /\ UNCHANGED damage

StoreTruncated ==
  /\ \E n \in 0 .. Len(payload) - 1 :
       StartDecompress(SubSeq(payload, 1, n), Len(input))
  /\ damage' = "truncated"

StoreExtended ==
  /\ \E tail \in Tails : StartDecompress(payload \o tail, Len(input))
  /\ damage' = "extended"

StoreResized ==
  /\ \E size \in Size \ {Len(input)} : StartDecompress(payload, size)
  /\ damage' = "resized"

\* Bytes of the payload that hold the frequency table.
TableLength == Len(TableBytes(frequencies))

\* A stretch of the payload is overwritten.
StoreAltered ==
  \E patch \in Patches : \E i \in 0 .. Len(payload) - Len(patch) :
    LET changed == [k \in DOMAIN payload |->
                      IF k - i \in DOMAIN patch THEN patch[k - i] ELSE payload[k]]
    IN /\ changed # payload
       /\ StartDecompress(changed, Len(input))
       /\ damage' = IF i < TableLength THEN "table altered" ELSE "bits altered"

Store ==
  /\ compressed = "ok"
  /\ \/ StoreIntact
     \/ StoreTruncated
     \/ StoreExtended
     \/ StoreResized
     \/ StoreAltered
  /\ UNCHANGED compressVars

Compress == CompressNext /\ UNCHANGED <<decompressVars, damage>>

Decompress == DecompressNext /\ UNCHANGED <<compressVars, damage>>

Next == Compress \/ Store \/ Decompress

Spec == Init /\ [][Next]_vars

\* No loop waits for anything: the process runs until it returns.
FairSpec == Spec /\ WF_vars(Compress) /\ WF_vars(Decompress)

-----------------------------------------------------------------------------
TypeOK ==
  /\ CompressTypeOK
  /\ DecompressTypeOK
  /\ damage \in {"none", "truncated", "extended", "resized", "table altered",
                 "bits altered"}

Altered == damage \in {"table altered", "bits altered"}

\* For any payload the decoder neither produces more than the header announces
\* nor holds more than a buffer of it (huffman.cpp:277, 309, 326).
WithinDeclaredSize ==
  /\ Len(out) + Len(outBuf) <= expected
  /\ Len(outBuf) < BufferSize
  /\ stage = "accepted" => Len(out) = expected

\* The decoder follows the tree the encoder took the codes from, although only
\* the frequencies travel (huffman.cpp:175, 289, huffman.hpp:33-44).
SameTree == ~Altered /\ stage = "decoding" => heap = nodes

\* For any table, also an altered one with repeated values or zero frequencies,
\* `current` is a node of the tree: the child a bit asks for is never null
\* (huffman.cpp:311-322).
CurrentIsNode ==
  stage = "decoding" => \E v \in DOMAIN Codes : IsPrefix(path, Codes[v])

\* Bits the codes of the input take; without a tree there are no codes.
CodeBits ==
  LET length(v) == IF IsTree(nodes) THEN Len(Root(nodes).codes[v]) ELSE 0
      upTo[k \in 0 .. Len(input)] == IF k = 0 THEN 0 ELSE upTo[k - 1] + length(input[k])
  IN  upTo[Len(input)]

\* The payload is the table and the codes' bits in as few bytes as hold them
\* (huffman.cpp:19-47, 153-196).
PayloadIsPacked ==
  compressed = "ok" =>
    Len(payload) = TableLength + (CodeBits + BitsPerByte - 1) \div BitsPerByte

\* Every call returns: a stored archive is accepted or rejected.
EveryCallReturns ==
  /\ <>(compressed \in {"ok", "failed"})
  /\ stage # "idle" ~> stage \in {"accepted", "rejected"}

Contract == INSTANCE ArchiveContract WITH
  Sources <- Inputs,
  Unnoticed <- {"altered", "extended"},
  source <- input,
  damage <- IF Altered THEN "altered" ELSE damage,
  restored <- out,
  verdict <- IF stage \in {"accepted", "rejected"} THEN stage ELSE "pending"

\* Compressing, storing and decompressing with Huffman codes is an archive in
\* the sense of the contract, one that does not notice bytes after its end.
ImplementsContract == Contract!ContractSpec

-----------------------------------------------------------------------------
\* CHANGELOG.md:39 announces "non-zero exits on ... table corruption": an
\* archive with an altered frequency table is not accepted, at least not with
\* another output than the input (huffman.cpp:241-262).
TableCorruptionIsRejected ==
  stage = "accepted" /\ out # input => damage # "table altered"
=============================================================================
