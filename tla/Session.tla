------------------------------- MODULE Session -------------------------------
(***************************************************************************)
(* A user's session: lacuna commands one after the other on the same file  *)
(* system, each of them ending by itself or killed at any point.  A        *)
(* command's standard input may be the standard output of the one before   *)
(* it, as in a pipe.                                                       *)
(***************************************************************************)
EXTENDS CompressCommand, DecompressCommand

CONSTANTS
  Jobs,          \* the CliOptions of the commands a user may give
  InitialFiles,  \* the files there may be in the beginning
  MaxCommands    \* bound: commands in a session

\* A regular file has a name, and not the one that stands for standard streams.
ASSUME SessionAssumption ==
  /\ \A options \in Jobs :
       /\ options.target \in Seq(STRING)
       /\ options.output = NoValue \/ options.output \in Seq(STRING)
       /\ options.algorithm \in {NoValue, "auto", "rle", "huffman", "unknown"}
  /\ \A stored \in InitialFiles : \A path \in DOMAIN stored :
       path # <<>> /\ path # Dash /\ stored[path] \in Seq(Byte)
  /\ MaxCommands \in Nat

VARIABLE commands  \* commands started so far

vars == <<ioVars, job, step, localVars, status, historyVars, commands>>

NoJob == [command |-> "none", target |-> <<>>, output |-> NoValue]

Init ==
  /\ files \in InitialFiles
  /\ stdin = <<>>
  /\ stdout = <<>>
  /\ job = NoJob
  /\ step = "idle"
  /\ taken = <<>>
  /\ trials = {}
  /\ output = <<>>
  /\ pending = <<>>
  /\ status = "none"
  /\ before = files
  /\ lost = FALSE
  /\ commands = 0

-----------------------------------------------------------------------------
\* main: standard input holds some file's contents or what the last command
\* printed.
Start ==
  /\ step = "idle"
  /\ commands < MaxCommands
  /\ job' \in Jobs
  /\ stdin' \in IF job'.target = Dash THEN Sources \cup {stdout} ELSE {<<>>}
  /\ stdout' = <<>>
  /\ taken' = <<>>
  /\ trials' = {}
  /\ output' = <<>>
  /\ pending' = <<>>
  /\ before' = files
  /\ lost' = FALSE
  /\ commands' = commands + 1
  /\ step' = "opening"
  /\ status' = "running"
  /\ UNCHANGED files

\* handle_info: nothing but standard output changes.
Inspect ==
  /\ job.command = "info" /\ step = "opening"
  /\ job.target \in DOMAIN files
  /\ taken' = files[job.target]
  /\ IF HeaderIsValid(taken')
       THEN /\ PrintUnchecked(IF job.json THEN JsonReport ELSE TextReport)
            /\ Exit("succeeded")
       ELSE Exit("failed") /\ UNCHANGED <<stdout, lost>>
  /\ UNCHANGED <<files, stdin, job, trials, output, pending, before>>

InspectFails ==
  /\ job.command = "info" /\ step = "opening"
  /\ Exit("failed")
  /\ UNCHANGED <<ioVars, job, localVars, historyVars>>

\* The command is killed; what its buffers held is gone.
Kill ==
  /\ step # "idle"
  /\ pending' = <<>>
  /\ Exit("killed")
  /\ UNCHANGED <<ioVars, job, taken, trials, output, historyVars>>

Command == (CompressNext \/ DecompressNext \/ Inspect \/ InspectFails) /\ UNCHANGED commands

Next == Start \/ Command \/ (Kill /\ UNCHANGED commands)

Spec == Init /\ [][Next]_vars

-----------------------------------------------------------------------------
TypeOK ==
  /\ \A path \in DOMAIN files : path # <<>> /\ path # Dash /\ files[path] \in Seq(Byte)
  /\ stdin \in Seq(Byte) /\ stdout \in Seq(Byte)
  /\ job \in Jobs \cup {NoJob}
  /\ step \in {"idle", "opening", "trying", "creating", "writing", "closing", "reporting",
               "reading header", "decoding", "removing"}
  /\ taken \in Seq(Byte) /\ output \in Seq(Byte)
  /\ trials \subseteq Algorithms
  /\ pending \in Seq(Byte) /\ Len(pending) < FileBuffer
  /\ status \in {"none", "running", "succeeded", "failed", "killed"}
  /\ lost \in BOOLEAN
  /\ commands \in 0 .. MaxCommands

\* A command of the kind has just ended with status s.
Ended(command, s) == step = "idle" /\ job.command = command /\ status = s

\* What the command's output is now.
Produced == IF Destination = Dash THEN stdout ELSE files[Destination]

\* A compress that reports success has left a whole archive of all it read, as
\* short as any it tried, whatever the destination held before and whatever
\* earlier commands left behind; exempt are the errors the code does not look at
\* (lost), and a standard output it also prints a report to (main.cpp:254-290).
CompressWritesWhole ==
  Ended("compress", "succeeded") /\ ~lost /\ (Destination = Dash => ~job.json) =>
    \E algo \in trials :
      /\ Produced = Archive(algo, taken)
      /\ \A other \in trials : Len(Produced) <= Len(Archive(other, taken))

\* A decompress of an archive that reports success has restored the source,
\* also when it came through a pipe or was overwritten while being read
\* (main.cpp:338-382).
DecompressRestores ==
  Ended("decompress", "succeeded") /\ ~lost /\ (Destination = Dash => ~job.json) =>
    \A data \in Sources : taken \in Archives[data] => Produced = data

\* What a killed compress, a full disk or a broken pipe left of an archive is
\* never taken for one (main.cpp:352, 400).
PartialArchiveRefused ==
  Ended("decompress", "succeeded") =>
    \A data \in Sources : \A archive \in Archives[data] :
      IsPrefix(taken, archive) => taken = archive

\* A decompress that fails leaves no part of an output behind: what is at the
\* destination was there before (main.cpp:400-408).
FailureLeavesNoOutput ==
  Ended("decompress", "failed") /\ ~lost /\ Destination \in DOMAIN files =>
    Destination \in DOMAIN before /\ files[Destination] = before[Destination]

\* A file without a valid header does not cost the user anything: the check
\* comes before the output is created (main.cpp:352-382).
InvalidHeaderTouchesNothing ==
  job.command = "decompress" /\ step # "opening" /\ ~HeaderIsValid(taken) =>
    files = before

\* Without -o no command, however it ends, changes the file it works on
\* (main.cpp:270, 364-368).
TargetSurvives ==
  job.output = NoValue /\ job.target \in DOMAIN before =>
    job.target \in DOMAIN files /\ files[job.target] = before[job.target]

-----------------------------------------------------------------------------
\* CHANGELOG.md:20: "Structured JSON Output: Flag --json across info, compress,
\* and benchmark for CI pipelines and AI agents"; the usage text says "Output
\* machine-readable JSON (info, benchmark, compress)" (main.cpp:64-65).
JsonOutputIsJson ==
  Ended("compress", "succeeded") /\ job.json /\ ~lost => stdout = JsonReport
=============================================================================
