----------------------------- MODULE RleCompress -----------------------------
(***************************************************************************)
(* RleCompressor::compress of src/core/rle.cpp.                            *)
(*                                                                         *)
(* The input is read in blocks of BufferSize bytes; the run in progress is *)
(* carried from one block to the next and written to the payload as a      *)
(* (length, value) pair of bytes when it can grow no further.              *)
(*                                                                         *)
(* An archive is compressed once: the actions stop when `compressed` holds *)
(* the value the function returns.                                         *)
(***************************************************************************)
EXTENDS ByteStream

CONSTANT Inputs  \* the byte sequences that may be compressed

\* No file comes within MaxByte bytes of 2^64.
ASSUME InputsAssumption ==
  /\ Inputs \subseteq Seq(Byte)
  /\ \A x \in Inputs : Len(x) + MaxByte < SizeMod

VARIABLES
  input,       \* what the stream `in` holds
  filled,      \* bytes of the input read into `buffer` so far
  pos,         \* bytes of the input processed so far
  hasRun,      \* has_run
  runVal,      \* run_val
  runLen,      \* run_len, a uint8_t
  payload,     \* what has been put into `out`
  compressed,  \* "running", then what the function returns: "ok" or "failed"
  cuts         \* history variable: cuts[k] is the input offset where block k ends

compressVars ==
  <<input, filled, pos, hasRun, runVal, runLen, payload, compressed, cuts>>

CompressInit ==
  /\ input \in Inputs
  /\ filled = 0
  /\ pos = 0
  /\ hasRun = FALSE
  /\ runVal = 0
  /\ runLen = 0
  /\ payload = <<>>
  /\ compressed = "running"
  /\ cuts = <<>>

-----------------------------------------------------------------------------
\* in.read(buffer): the loop goes on while it delivers at least one byte.
FillBuffer ==
  /\ compressed = "running"
  /\ pos = filled
  /\ filled < Len(input)
  /\ filled' = ReadTo(filled, Len(input))
  /\ UNCHANGED <<input, pos, hasRun, runVal, runLen, payload, compressed, cuts>>

AtByte == compressed = "running" /\ pos < filled

StartRun ==
  /\ AtByte
  /\ ~hasRun
  /\ hasRun' = TRUE
  /\ runVal' = input[pos + 1]
  /\ runLen' = 1
  /\ pos' = pos + 1
  /\ UNCHANGED <<input, filled, payload, compressed, cuts>>

\* Mutant: the run is closed one byte before it is full.
RunFullEarly == runLen = MaxByte - 1

\* run_len == 255
RunFull == runLen = MaxByte

\* run_len++ on a uint8_t.
ExtendRun ==
  /\ AtByte
  /\ hasRun
  /\ input[pos + 1] = runVal
  /\ ~RunFull
  /\ runLen' = (runLen + 1) % (MaxByte + 1)
  /\ pos' = pos + 1
  /\ UNCHANGED <<input, filled, hasRun, runVal, payload, compressed, cuts>>

\* write_block succeeds.
WriteBlock ==
  /\ payload' = payload \o <<runLen, runVal>>
  /\ cuts' = Append(cuts, pos)

MustClose == hasRun /\ (input[pos + 1] # runVal \/ RunFull)

\* The byte does not fit the run: write the run and start one with the byte.
CloseRun ==
  /\ AtByte
  /\ MustClose
  /\ WriteBlock
  /\ runVal' = input[pos + 1]
  /\ runLen' = 1
  /\ pos' = pos + 1
  /\ UNCHANGED <<input, filled, hasRun, compressed>>

AtEnd == compressed = "running" /\ pos = filled /\ filled = Len(input)

\* Mutant: the run in progress at the end of the input is lost.
FinishWithoutLastRun ==
  /\ AtEnd
  /\ compressed' = "ok"
  /\ UNCHANGED <<input, filled, pos, hasRun, runVal, runLen, payload, cuts>>

\* The input is used up: write the last run, if there is one.
FinishCompress ==
  /\ AtEnd
  /\ IF hasRun /\ runLen > 0 THEN WriteBlock ELSE UNCHANGED <<payload, cuts>>
  /\ compressed' = "ok"
  /\ UNCHANGED <<input, filled, pos, hasRun, runVal, runLen>>

\* write_block finds `out` bad after either of its two puts: return false.
WriteBlockFails ==
  /\ \/ AtByte /\ MustClose
     \/ AtEnd /\ hasRun
  /\ payload' \in {payload, Append(payload, runLen)}
  /\ compressed' = "failed"
  /\ UNCHANGED <<input, filled, pos, hasRun, runVal, runLen, cuts>>

CompressNext ==
  \/ FillBuffer
  \/ StartRun
  \/ ExtendRun
  \/ CloseRun
  \/ FinishCompress
  \/ WriteBlockFails

-----------------------------------------------------------------------------
CompressTypeOK ==
  /\ input \in Inputs
  /\ filled \in 0 .. Len(input)
  /\ pos \in 0 .. filled
  /\ hasRun \in BOOLEAN
  /\ runVal \in Byte
  /\ runLen \in Byte
  /\ payload \in Seq(Byte)
  /\ compressed \in {"running", "ok", "failed"}
  /\ cuts \in Seq(Nat)
=============================================================================
