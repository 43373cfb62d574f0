--------------------------- MODULE ArchiveContract ---------------------------
(***************************************************************************)
(* What compressing a source, storing the archive and decompressing it     *)
(* promises, whatever the algorithm: Compressor::compress followed by      *)
(* Compressor::decompress (src/core/compressor.hpp).                       *)
(*                                                                         *)
(* Between the two calls the archive may be damaged.  The decompressor     *)
(* restores the source from left to right and then returns its verdict.    *)
(* It must recover the source from an intact archive unless its own output *)
(* fails, and must reject a damaged one unless the damage is among those   *)
(* the format does not notice (Unnoticed).                                 *)
(***************************************************************************)
EXTENDS ByteStream

CONSTANTS
  Sources,   \* the byte sequences that may be archived
  Unnoticed  \* the kinds of damage an archive may be accepted with

VARIABLES source, damage, restored, sink, verdict

contractVars == <<source, damage, restored, sink, verdict>>

Damage ==
  {"none",       \* the archive arrives as it was written
   "truncated",  \* its end is missing
   "extended",   \* bytes follow its end
   "resized",    \* the header announces another size
   "altered"}    \* a byte of the payload has another value

ContractInit ==
  /\ source \in Sources
  /\ damage = "none"
  /\ restored = <<>>
  /\ sink = "good"
  /\ verdict = "pending"

Deliver ==
  /\ verdict = "pending"
  /\ restored = <<>>
  /\ damage' \in Damage
  /\ UNCHANGED <<source, restored, sink, verdict>>

\* Only an altered byte can make the output differ from the source.
Progress ==
  /\ verdict = "pending"
  /\ restored' \in Seq(Byte)
  /\ IsPrefix(restored, restored')
  /\ damage # "altered" => IsPrefix(restored', source)
  /\ UNCHANGED <<source, damage>>

Restore == Progress /\ UNCHANGED <<sink, verdict>>

Accept ==
  /\ Progress
  /\ damage \in {"none"} \cup Unnoticed
  /\ damage # "altered" => restored' = source
  /\ verdict' = "accepted"
  /\ UNCHANGED sink

Reject ==
  /\ Progress
  /\ sink' \in {"good", "failed"}
  /\ damage # "none" \/ sink' = "failed"
  /\ verdict' = "rejected"

ContractNext == Deliver \/ Restore \/ Accept \/ Reject

ContractSpec == ContractInit /\ [][ContractNext]_contractVars
=============================================================================
