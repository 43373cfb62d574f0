--------------------------- MODULE DecompressCommand ---------------------------
(***************************************************************************)
(* handle_decompress of src/main.cpp: check the header, create the output, *)
(* decode into it, and remove it again if that fails.                      *)
(***************************************************************************)
EXTENDS CommandState

Decompressing(s) == job.command = "decompress" /\ step = s

OpenArchive ==
  /\ Decompressing("opening")
  /\ Readable(job.target)
  /\ taken' = Contents(job.target)
  /\ Goto("reading header")
  /\ UNCHANGED <<ioVars, job, trials, output, pending, historyVars>>

OpenArchiveFails ==
  /\ Decompressing("opening")
  /\ job.target # Dash
  /\ Exit("failed")
  /\ UNCHANGED <<ioVars, job, localVars, historyVars>>

\* Mutant: the output is created before the header is looked at.
ReadHeaderAfterCreating ==
  /\ Decompressing("reading header")
  /\ IF HeaderIsValid(taken) THEN Goto("creating") ELSE Exit("failed")
  /\ IF HeaderIsValid(taken) \/ Destination = Dash
       THEN UNCHANGED files
       ELSE Truncate(Destination)
  /\ UNCHANGED <<stdin, stdout, job, localVars, historyVars>>

ReadHeader ==
  /\ Decompressing("reading header")
  /\ IF HeaderIsValid(taken) THEN Goto("creating") ELSE Exit("failed")
  /\ UNCHANGED <<ioVars, job, localVars, historyVars>>

\* The stream behind the header.  If the output file is the input file,
\* creating it has emptied it: the rest of the read-ahead buffer is all there is.
Stream ==
  AfterHeader(
    IF job.target # Dash /\ Destination = job.target /\ Len(taken) > FileBuffer
      THEN SubSeq(taken, 1, FileBuffer)
      ELSE taken)

Decoded == Restored(AlgorithmId(taken), Stream, OriginalSize(taken))

\* Mutant: what decompress returns is not looked at.
AlwaysAccepted == TRUE

IsAccepted == Accepts(AlgorithmId(taken), Stream, OriginalSize(taken))

CreateOutput ==
  /\ Decompressing("creating")
  /\ Destination # Dash
  /\ Truncate(Destination)
  /\ Goto("decoding")
  /\ UNCHANGED <<stdin, stdout, job, localVars, historyVars>>

CreateOutputFails ==
  /\ Decompressing("creating")
  /\ Destination # Dash
  /\ Exit("failed")
  /\ UNCHANGED <<ioVars, job, localVars, historyVars>>

-----------------------------------------------------------------------------
\* Mutant: the last bytes do not reach the file stream.
DecodeWithoutTail ==
  /\ Decompressing("decoding")
  /\ output' = Decoded
  /\ \E k \in 0 .. Len(Decoded) :
       /\ Len(Decoded) - k < FileBuffer
       /\ ToFile(SubSeq(Decoded, 1, k))
  /\ Goto(IF IsAccepted THEN "reporting" ELSE "removing")
  /\ UNCHANGED <<stdin, stdout, job, taken, trials, pending, historyVars>>

\* decompress(in, out, size) into a file: the last bytes, fewer than a buffer
\* holds, may still be in the buffer when it returns.
DecodeToFile ==
  /\ Decompressing("decoding")
  /\ output' = Decoded
  /\ \E k \in 0 .. Len(Decoded) :
       /\ Len(Decoded) - k < FileBuffer
       /\ ToFile(SubSeq(Decoded, 1, k))
       /\ pending' = SubSeq(Decoded, k + 1, Len(Decoded))
  /\ Goto(IF IsAccepted THEN "reporting" ELSE "removing")
  /\ UNCHANGED <<stdin, stdout, job, taken, trials, historyVars>>

\* A write that reaches the file fails: decompress returns nullopt.
DecodeToFileFails ==
  /\ Decompressing("decoding")
  /\ Len(Decoded) >= FileBuffer
  /\ output' = Decoded
  /\ \E some \in Prefixes(Decoded) \ {Decoded} : ToFile(some)
  /\ Goto("removing")
  /\ UNCHANGED <<stdin, stdout, job, taken, trials, pending, historyVars>>

\* Into standard output, where the bytes of a damaged archive stay.
DecodeToStdout ==
  /\ Decompressing("creating")
  /\ Destination = Dash
  /\ output' = Decoded
  /\ PrintUnchecked(Decoded)
  /\ IF IsAccepted THEN Goto("reporting") ELSE Exit("failed")
  /\ UNCHANGED <<files, stdin, job, taken, trials, pending, before>>

DecodeToStdoutFails ==
  /\ Decompressing("creating")
  /\ Destination = Dash
  /\ output' = Decoded
  /\ \E some \in Prefixes(Decoded) \ {Decoded} : ToStdout(some)
  /\ Exit("failed")
  /\ UNCHANGED <<files, stdin, job, taken, trials, pending, historyVars>>

\* Mutant: the incomplete output is kept.
KeepOutput ==
  /\ Decompressing("removing")
  /\ Close
  /\ Exit("failed")
  /\ UNCHANGED <<stdin, stdout, job, taken, trials, output, before>>

\* close, then filesystem::remove.
RemoveOutput ==
  /\ Decompressing("removing")
  /\ files' = [path \in DOMAIN files \ {Destination} |-> files[path]]
  /\ pending' = <<>>
  /\ Exit("failed")
  /\ UNCHANGED <<stdin, stdout, job, taken, trials, output, historyVars>>

\* The error code of remove is not looked at.
RemoveOutputFails ==
  /\ Decompressing("removing")
  /\ ToFile(pending)
  /\ pending' = <<>>
  /\ lost' = TRUE
  /\ Exit("failed")
  /\ UNCHANGED <<stdin, stdout, job, taken, trials, output, before>>

\* The report precedes the end of the file stream's life.
ReportDecompressed ==
  /\ Decompressing("reporting")
  /\ Report
  /\ IF Destination = Dash THEN Exit("succeeded") ELSE Goto("closing")
  /\ UNCHANGED <<files, stdin, job, localVars, before>>

CloseOutput ==
  /\ Decompressing("closing")
  /\ Close
  /\ Exit("succeeded")
  /\ UNCHANGED <<stdin, stdout, job, taken, trials, output, before>>

DecompressNext ==
  \/ OpenArchive
  \/ OpenArchiveFails
  \/ ReadHeader
  \/ CreateOutput
  \/ CreateOutputFails
  \/ DecodeToFile
  \/ DecodeToFileFails
  \/ DecodeToStdout
  \/ DecodeToStdoutFails
  \/ RemoveOutput
  \/ RemoveOutputFails
  \/ ReportDecompressed
  \/ CloseOutput
=============================================================================
