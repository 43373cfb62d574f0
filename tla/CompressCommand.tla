---------------------------- MODULE CompressCommand ----------------------------
(***************************************************************************)
(* handle_compress of src/main.cpp: read everything, compress in memory    *)
(* with the algorithm asked for or with both, write the chosen archive.    *)
(***************************************************************************)
EXTENDS CommandState

Compressing(s) == job.command = "compress" /\ step = s

ReadData ==
  /\ Compressing("opening")
  /\ Readable(job.target)
  /\ taken' = Contents(job.target)
  /\ Goto("trying")
  /\ UNCHANGED <<ioVars, job, trials, output, pending, historyVars>>

\* No target, no regular file, or one that cannot be opened.
ReadDataFails ==
  /\ Compressing("opening")
  /\ job.target # Dash
  /\ Exit("failed")
  /\ UNCHANGED <<ioVars, job, localVars, historyVars>>

Requested ==
  IF job.algorithm = "rle" THEN {Rle}
  ELSE IF job.algorithm = "huffman" THEN {Huffman}
  ELSE Algorithms

\* Huffman has to be strictly smaller to be taken instead of RLE.
Selected(succeeded) ==
  IF /\ Huffman \in succeeded
     /\ \/ Rle \notin succeeded
        \/ Len(Archive(Huffman, taken)) < Len(Archive(Rle, taken))
    THEN Huffman
    ELSE Rle

\* run_trial for every algorithm asked for; one of them has to succeed.
Try ==
  /\ Compressing("trying")
  /\ job.algorithm # "unknown"
  /\ \E succeeded \in (SUBSET Requested) \ {{}} :
       /\ trials' = succeeded
       /\ output' = Archive(Selected(succeeded), taken)
  /\ Goto("creating")
  /\ UNCHANGED <<ioVars, job, taken, pending, historyVars>>

\* An unknown algorithm, or no trial succeeds.
TryFails ==
  /\ Compressing("trying")
  /\ Exit("failed")
  /\ UNCHANGED <<ioVars, job, localVars, historyVars>>

-----------------------------------------------------------------------------
\* Mutant: "-" is taken for a file's name.
CreateArchiveAnywhere ==
  /\ Compressing("creating")
  /\ Truncate(Destination)
  /\ Goto("writing")
  /\ UNCHANGED <<stdin, stdout, job, localVars, historyVars>>

CreateArchive ==
  /\ Compressing("creating")
  /\ Destination # Dash
  /\ Truncate(Destination)
  /\ Goto("writing")
  /\ UNCHANGED <<stdin, stdout, job, localVars, historyVars>>

CreateArchiveFails ==
  /\ Compressing("creating")
  /\ Destination # Dash
  /\ Exit("failed")
  /\ UNCHANGED <<ioVars, job, localVars, historyVars>>

PrintArchive ==
  /\ Compressing("creating")
  /\ Destination = Dash
  /\ PrintUnchecked(output)
  /\ Goto("reporting")
  /\ UNCHANGED <<files, stdin, job, localVars, before>>

\* out.write: what fits the buffer stays there, more goes to the file.
WriteArchive ==
  /\ Compressing("writing")
  /\ IF Len(output) < FileBuffer
       THEN pending' = output /\ UNCHANGED files
       ELSE ToFile(output) /\ UNCHANGED pending
  /\ Goto("closing")
  /\ UNCHANGED <<stdin, stdout, job, taken, trials, output, historyVars>>

\* Only a write that reaches the file can fail; what it wrote is left there.
WriteArchiveFails ==
  /\ Compressing("writing")
  /\ Len(output) >= FileBuffer
  /\ \E some \in Prefixes(output) \ {output} : ToFile(some)
  /\ Exit("failed")
  /\ UNCHANGED <<stdin, stdout, job, localVars, historyVars>>

CloseArchive ==
  /\ Compressing("closing")
  /\ Close
  /\ Goto("reporting")
  /\ UNCHANGED <<stdin, stdout, job, taken, trials, output, before>>

ReportCompressed ==
  /\ Compressing("reporting")
  /\ Report
  /\ Exit("succeeded")
  /\ UNCHANGED <<files, stdin, job, localVars, before>>

CompressNext ==
  \/ ReadData
  \/ ReadDataFails
  \/ Try
  \/ TryFails
  \/ CreateArchive
  \/ CreateArchiveFails
  \/ PrintArchive
  \/ WriteArchive
  \/ WriteArchiveFails
  \/ CloseArchive
  \/ ReportCompressed
=============================================================================
