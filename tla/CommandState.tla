----------------------------- MODULE CommandState -----------------------------
(***************************************************************************)
(* What the commands of src/main.cpp work on: the file system, the         *)
(* standard streams, and the local state of the one command that runs.     *)
(*                                                                         *)
(* A path is the sequence of the parts of its name: "notes.lac" is         *)
(* <<"notes", "lac">>, the empty string is <<>>.  Of the codecs a command  *)
(* sees what a call does: Payload is what compress writes, Restored what   *)
(* decompress writes before it returns, and Accepts whether it returns a   *)
(* size.  RleArchive and HuffmanArchive show what is assumed of them here. *)
(***************************************************************************)
EXTENDS LacHeader, TLC

CONSTANTS
  Sources,         \* the contents that may be compressed
  Payload(_, _),   \* Payload(algo, data)
  Accepts(_, _, _),    \* Accepts(algo, stream, size)
  Restored(_, _, _),   \* Restored(algo, stream, size)
  FileBuffer,      \* size of a file stream's buffer, of the standard library
  TextReport,      \* what a command prints on success
  JsonReport,      \* what it prints with --json
  NoValue          \* an option that was not given

Archive(algo, data) == WriteHeader(algo, Len(data)) \o Payload(algo, data)

\* The archives of the sources.
Archives == [data \in Sources |-> {Archive(algo, data) : algo \in Algorithms}]

ASSUME CommandAssumption ==
  /\ \A data \in Sources : data \in Seq(Byte) /\ Len(data) \in Size
  /\ FileBuffer \in Nat \ {0}
  /\ TextReport \in Seq(Byte) /\ JsonReport \in Seq(Byte)

\* An intact payload is restored, a truncated one is refused.
ASSUME CodecAssumption ==
  \A algo \in Algorithms, data \in Sources :
    /\ Accepts(algo, Payload(algo, data), Len(data))
    /\ Restored(algo, Payload(algo, data), Len(data)) = data
    /\ \A n \in 0 .. Len(Payload(algo, data)) - 1 :
         ~Accepts(algo, SubSeq(Payload(algo, data), 1, n), Len(data))

VARIABLES
  files,    \* the regular files: their contents by their paths
  stdin,    \* what the command can read from standard input
  stdout,   \* what it has written to standard output
  job,      \* its CliOptions
  step,     \* where it is; "idle" when no command runs
  taken,    \* the bytes it has read from its input
  trials,   \* the algorithms whose trial succeeded
  output,   \* the bytes it has still to write, or has written
  pending,  \* the bytes in its output file's buffer
  status,   \* "running", or how the last command ended; "none" before the first
  before,   \* history variable: the files when the command started
  lost      \* history variable: an output error nothing looked at

ioVars == <<files, stdin, stdout>>

localVars == <<taken, trials, output, pending>>

historyVars == <<before, lost>>

Dash == <<"-">>

\* input_path + ".lac", of compress.
CompressDestination ==
  IF job.output # NoValue THEN job.output
  ELSE IF job.target = Dash THEN Dash
  ELSE Append(job.target, "lac")

\* Mutant: the suffix to cut off is not looked for.
DestinationKeepsName ==
  IF job.output # NoValue THEN job.output ELSE job.target

\* input_path without ".lac", or with ".decompressed", of decompress.
DecompressDestination ==
  IF job.output # NoValue THEN job.output
  ELSE IF job.target = Dash THEN Dash
  ELSE IF Last(job.target) = "lac" THEN Front(job.target)
  ELSE Append(job.target, "decompressed")

Destination ==
  IF job.command = "compress" THEN CompressDestination ELSE DecompressDestination

Goto(s) == step' = s /\ UNCHANGED status

Exit(s) == step' = "idle" /\ status' = s

-----------------------------------------------------------------------------
\* The input can be opened: standard input, or a regular file.
Readable(path) == path = Dash \/ path \in DOMAIN files

Contents(path) == IF path = Dash THEN stdin ELSE files[path]

Set(path, bytes) ==
  files' = [other \in DOMAIN files \cup {path} |-> IF other = path THEN bytes ELSE files[other]]

\* Mutant: the file is opened for appending.
OpenAppending(path) ==
  path # <<>> /\ Set(path, IF path \in DOMAIN files THEN files[path] ELSE <<>>)

\* ofstream(path): the file is there and empty.
Truncate(path) == path # <<>> /\ Set(path, <<>>)

ToFile(bytes) == Set(Destination, files[Destination] \o bytes)

ToStdout(bytes) == stdout' = stdout \o bytes

\* Nothing checks whether standard output took the bytes.
PrintUnchecked(bytes) ==
  \/ ToStdout(bytes) /\ UNCHANGED lost
  \/ /\ \E some \in Prefixes(bytes) \ {bytes} : ToStdout(some)
     /\ lost' = TRUE

\* The file stream is closed: what its buffer holds is written, and nobody asks
\* whether it could be.
Close ==
  /\ \/ ToFile(pending) /\ UNCHANGED lost
     \/ /\ \E some \in Prefixes(pending) \ {pending} : ToFile(some)
        /\ lost' = TRUE
  /\ pending' = <<>>

\* What a command that succeeded prints.
Report ==
  IF job.json THEN PrintUnchecked(JsonReport)
  ELSE IF ~job.quiet /\ Destination # Dash THEN PrintUnchecked(TextReport)
  ELSE UNCHANGED <<stdout, lost>>
=============================================================================
