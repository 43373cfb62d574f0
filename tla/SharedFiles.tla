----------------------------- MODULE SharedFiles -----------------------------
(***************************************************************************)
(* Several lacuna commands and an editor at once on the same files.  The   *)
(* atomic steps are what the operating system does for the streams of      *)
(* handle_compress and handle_decompress of src/main.cpp: open, create,    *)
(* read and write a piece at an offset of one's own, unlink.               *)
(*                                                                         *)
(* Names lead to inodes.  An inode lives on without a name as long as a    *)
(* command has it open.                                                    *)
(***************************************************************************)
EXTENDS LacHeader, Functions

CONSTANTS
  Process,             \* the commands that run
  Jobs,                \* what they may be told to do: functions on Process
  InitialFiles,        \* the files there may be: contents by their names
  Edits,               \* what the editor may store in a file
  Inode,
  NoInode,
  Payload(_, _),       \* Payload(algo, data): what compress writes
  Restored(_, _, _),   \* Restored(algo, stream, size): what decompress decodes
  Verdict(_, _, _, _), \* Verdict(algo, stream, size, ended): "more" if it reads on
  ReadAhead,           \* bytes a file stream reads at once
  OutBuffer,           \* bytes decompress collects before it writes: 65536 in the code
  Piece,               \* bytes the operating system writes at once
  MaxEdits             \* bound: files the editor changes

ASSUME SharedFilesAssumption ==
  /\ ReadAhead \in Nat \ {0} /\ OutBuffer \in Nat \ {0} /\ Piece \in Nat \ {0}
  /\ MaxEdits \in Nat
  /\ NoInode \notin Inode
  /\ "editor" \notin Process
  /\ \A jobs \in Jobs, p \in Process : jobs[p].algorithm \in Algorithms
  /\ \A files \in InitialFiles :
       /\ files \in [DOMAIN files -> Seq(Byte)]
       /\ \E place \in [DOMAIN files -> Inode] : IsInjective(place)
  /\ Edits \subseteq Seq(Byte)

VARIABLES
  dir,      \* the inode of every name
  content,  \* the bytes of every inode
  step,     \* where a command is
  input, output,  \* its open inodes
  got,      \* the bytes it has read
  ended,    \* a read has found nothing more
  put,      \* how many bytes it has written
  edits,    \* files changed by the editor
  job, before,  \* history variables: the jobs, the files in the beginning
  writers,  \* history variable: who has emptied or written an inode
  trouble   \* history variable: commands killed or hit by a failing write

fileVars == <<dir, content, writers>>

history == <<job, before>>

vars == <<fileVars, history, step, input, output, got, ended, put, edits, trouble>>

Init ==
  /\ job \in Jobs
  /\ before \in InitialFiles
  /\ dir = CHOOSE place \in [DOMAIN before -> Inode] : IsInjective(place)
  /\ content = [i \in Inode |-> IF i \in Range(dir) THEN before[AntiFunction(dir)[i]] ELSE <<>>]
  /\ writers = [i \in Inode |-> {}]
  /\ step = [p \in Process |-> "starting"]
  /\ input = [p \in Process |-> NoInode]
  /\ output = [p \in Process |-> NoInode]
  /\ got = [p \in Process |-> <<>>]
  /\ ended = [p \in Process |-> FALSE]
  /\ put = [p \in Process |-> 0]
  /\ edits = 0
  /\ trouble = {}

-----------------------------------------------------------------------------
Compresses(p) == job[p].command = "compress"

\* Mutant: the size comes from the file, not from what was read of it.
DeclaredByFile(p) == Len(content[input[p]])

\* run_trial: the header gets the size of the data that is compressed.
Declared(p) == Len(got[p])

Stream(p) == AfterHeader(got[p])

\* What the command has to write, as far as it is known.
Produced(p) ==
  IF Compresses(p)
    THEN WriteHeader(job[p].algorithm, Declared(p)) \o Payload(job[p].algorithm, got[p])
    ELSE Restored(AlgorithmId(got[p]), Stream(p), OriginalSize(got[p]))

Decision(p) == Verdict(AlgorithmId(got[p]), Stream(p), OriginalSize(got[p]), ended[p])

Goto(p, s) == step' = [step EXCEPT ![p] = s]

OpenInput(p) ==
  /\ step[p] = "starting"
  /\ job[p].input \in DOMAIN dir
  /\ input' = [input EXCEPT ![p] = dir[job[p].input]]
  /\ Goto(p, "reading")
  /\ UNCHANGED <<fileVars, history, output, got, ended, put, edits, trouble>>

\* No such file, no permission, too many open files.
OpenInputFails(p) ==
  /\ step[p] = "starting"
  /\ Goto(p, "failed")
  /\ UNCHANGED <<fileVars, history, input, output, got, ended, put, edits, trouble>>

HasHeader(p) == Len(got[p]) >= HeaderLength

\* Bytes decoded and not yet written.
Pending(p) == Len(Produced(p)) - put[p]

\* compress reads to the end of its input; decompress first only the header, and
\* then what it can decode into its buffer.
WantsInput(p) ==
  /\ ~ended[p]
  /\ \/ step[p] = "reading" /\ (Compresses(p) \/ ~HasHeader(p))
     \/ step[p] = "decoding" /\ Decision(p) = "more" /\ Pending(p) < OutBuffer

\* At most n bytes of a sequence, from a position on.
Slice(bytes, from, n) == SubSeq(bytes, from, Min({from + n - 1, Len(bytes)}))

Read(p) ==
  /\ WantsInput(p)
  /\ got' = [got EXCEPT ![p] = @ \o Slice(content[input[p]], Len(@) + 1, ReadAhead)]
  /\ ended' = [ended EXCEPT ![p] = got'[p] = got[p]]
  /\ UNCHANGED <<fileVars, history, step, input, output, put, edits, trouble>>

\* Mutant: compress takes a failing read for the end of its input.
ReadFailsAsEnd(p) ==
  /\ WantsInput(p)
  /\ ended' = [ended EXCEPT ![p] = TRUE]
  /\ UNCHANGED <<fileVars, history, step, input, output, got, put, edits, trouble>>

\* A failing read: an exception through compress's istreambuf_iterator that
\* nobody catches, the end of the input for decompress.
ReadFails(p) ==
  /\ WantsInput(p)
  /\ IF Compresses(p)
       THEN Goto(p, "killed") /\ UNCHANGED ended
       ELSE ended' = [ended EXCEPT ![p] = TRUE] /\ UNCHANGED step
  /\ UNCHANGED <<fileVars, history, input, output, got, put, edits, trouble>>

RejectHeader(p) ==
  /\ step[p] = "reading" /\ ~Compresses(p)
  /\ HasHeader(p) \/ ended[p]
  /\ ~HeaderIsValid(got[p])
  /\ Goto(p, "failed")
  /\ UNCHANGED <<fileVars, history, input, output, got, ended, put, edits, trouble>>

\* compress has read all of its input, decompress has seen a valid header.
ReadyToCreate(p) ==
  step[p] = "reading" /\ IF Compresses(p) THEN ended[p] ELSE HeaderIsValid(got[p])

Store(i, bytes, who) ==
  /\ content' = [content EXCEPT ![i] = bytes]
  /\ writers' = [writers EXCEPT ![i] = @ \cup {who}]

Unused == Inode \ (Range(dir) \cup Range(input) \cup Range(output))

\* The file is there, or there is an inode for a new one.
HasPlace(p) == job[p].output \in DOMAIN dir \/ Unused # {}

\* Mutant: a file that is there keeps its contents.
CreateKeeping(p) ==
  /\ ReadyToCreate(p) /\ HasPlace(p)
  /\ LET name == job[p].output
         inode == IF name \in DOMAIN dir THEN dir[name] ELSE CHOOSE i \in Unused : TRUE
     IN  /\ dir' = [n \in DOMAIN dir \cup {name} |-> IF n = name THEN inode ELSE dir[n]]
         /\ output' = [output EXCEPT ![p] = inode]
         /\ Store(inode, content[inode], p)
  /\ Goto(p, IF Compresses(p) THEN "writing" ELSE "decoding")
  /\ UNCHANGED <<history, input, got, ended, put, edits, trouble>>

\* ofstream(name): an existing file is emptied and stays the same inode.
Create(p) ==
  /\ ReadyToCreate(p) /\ HasPlace(p)
  /\ LET name == job[p].output
         inode == IF name \in DOMAIN dir THEN dir[name] ELSE CHOOSE i \in Unused : TRUE
     IN  /\ dir' = [n \in DOMAIN dir \cup {name} |-> IF n = name THEN inode ELSE dir[n]]
         /\ output' = [output EXCEPT ![p] = inode]
         /\ Store(inode, <<>>, p)
  /\ Goto(p, IF Compresses(p) THEN "writing" ELSE "decoding")
  /\ UNCHANGED <<history, input, got, ended, put, edits, trouble>>

\* The output cannot be opened: no permission, no space.
CreateFails(p) ==
  /\ ReadyToCreate(p)
  /\ Goto(p, "failed")
  /\ UNCHANGED <<fileVars, history, input, output, got, ended, put, edits, trouble>>

-----------------------------------------------------------------------------
\* Bytes at an offset; what is skipped is filled with zeros.
Overwritten(old, offset, bytes) ==
  [k \in 1 .. Max({Len(old), offset + Len(bytes)}) |->
     IF k \in offset + 1 .. offset + Len(bytes) THEN bytes[k - offset]
     ELSE IF k \in DOMAIN old THEN old[k] ELSE 0]

\* While it decodes, decompress writes full buffers only; a failing one may still
\* write what its stream has buffered when it is closed.
WantsToWrite(p) ==
  \/ step[p] \in {"writing", "removing"} /\ Pending(p) > 0
  \/ step[p] = "decoding" /\ Pending(p) >= OutBuffer

\* Mutant: every piece counts in full.
WriteCountingFull(p) ==
  /\ WantsToWrite(p)
  /\ Store(output[p], Overwritten(content[output[p]], put[p], Slice(Produced(p), put[p] + 1, Piece)), p)
  /\ put' = [put EXCEPT ![p] = @ + Piece]
  /\ UNCHANGED <<dir, history, step, input, output, got, ended, edits, trouble>>

Write(p) ==
  /\ WantsToWrite(p)
  /\ LET bytes == Slice(Produced(p), put[p] + 1, Piece)
     IN  /\ Store(output[p], Overwritten(content[output[p]], put[p], bytes), p)
         /\ put' = [put EXCEPT ![p] = @ + Len(bytes)]
  /\ UNCHANGED <<dir, history, step, input, output, got, ended, edits, trouble>>

\* A failing write is noticed, except when the stream is closed.
WriteFails(p) ==
  /\ WantsToWrite(p) /\ step[p] # "removing"
  /\ \/ Goto(p, IF Compresses(p) THEN "failed" ELSE "removing")
     \/ step[p] = "writing" /\ Goto(p, "succeeded")
  /\ trouble' = trouble \cup {p}
  /\ UNCHANGED <<fileVars, history, input, output, got, ended, put, edits>>

\* Mutant: what decompress returns is not looked at.
DecideAlike(p) ==
  /\ step[p] = "decoding" /\ Pending(p) < OutBuffer
  /\ Decision(p) # "more"
  /\ Goto(p, "writing")
  /\ UNCHANGED <<fileVars, history, input, output, got, ended, put, edits, trouble>>

Decide(p) ==
  /\ step[p] = "decoding" /\ Pending(p) < OutBuffer
  /\ Decision(p) # "more"
  /\ Goto(p, IF Decision(p) = "accepted" THEN "writing" ELSE "removing")
  /\ UNCHANGED <<fileVars, history, input, output, got, ended, put, edits, trouble>>

Succeed(p) ==
  /\ step[p] = "writing" /\ Pending(p) = 0
  /\ Goto(p, "succeeded")
  /\ UNCHANGED <<fileVars, history, input, output, got, ended, put, edits, trouble>>

\* filesystem::remove(out_dest, ec): whatever has the name now, or nothing if
\* that fails, since nobody looks at ec.
RemoveOutput(p) ==
  /\ step[p] = "removing"
  /\ dir' \in {dir, Restrict(dir, DOMAIN dir \ {job[p].output})}
  /\ Goto(p, "failed")
  /\ UNCHANGED <<content, writers, history, input, output, got, ended, put, edits, trouble>>

Over == {"succeeded", "failed", "killed"}

Kill(p) ==
  /\ step[p] \notin Over
  /\ Goto(p, "killed")
  /\ trouble' = trouble \cup {p}
  /\ UNCHANGED <<fileVars, history, input, output, got, ended, put, edits>>

\* The editor stores something else in a file.
Edit ==
  /\ edits < MaxEdits
  /\ \E name \in DOMAIN dir, bytes \in Edits : Store(dir[name], bytes, "editor")
  /\ edits' = edits + 1
  /\ UNCHANGED <<dir, history, step, input, output, got, ended, put, trouble>>

Run(p) ==
  \/ OpenInput(p) \/ OpenInputFails(p) \/ Read(p) \/ RejectHeader(p)
  \/ Create(p) \/ CreateFails(p) \/ Write(p) \/ Decide(p) \/ Succeed(p) \/ RemoveOutput(p)

Next == Edit \/ \E p \in Process : Run(p) \/ ReadFails(p) \/ WriteFails(p) \/ Kill(p)

Spec == Init /\ [][Next]_vars

-----------------------------------------------------------------------------
TypeOK ==
  /\ Range(dir) \subseteq Inode /\ IsInjective(dir)
  /\ content \in [Inode -> Seq(Byte)]
  /\ step \in [Process -> {"starting", "reading", "decoding", "writing", "removing"} \cup Over]
  /\ \A p \in Process :
       /\ input[p] \in Inode \cup {NoInode} /\ output[p] \in Inode \cup {NoInode}
       /\ step[p] = "reading" => input[p] # NoInode /\ output[p] = NoInode
       /\ step[p] \in {"decoding", "writing", "removing"} => output[p] # NoInode /\ put[p] <= Len(Produced(p))
  /\ got \in [Process -> Seq(Byte)]
  /\ ended \in [Process -> BOOLEAN]
  /\ edits \in 0 .. MaxEdits
  /\ trouble \subseteq Process

\* p has ended well, and none of its writes has failed.
Well(p) == step[p] = "succeeded" /\ p \notin trouble

IsArchiveOf(bytes, data) ==
  /\ HeaderIsValid(bytes)
  /\ Verdict(AlgorithmId(bytes), AfterHeader(bytes), OriginalSize(bytes), TRUE) = "accepted"
  /\ Restored(AlgorithmId(bytes), AfterHeader(bytes), OriginalSize(bytes)) = data

\* compress leaves an archive of exactly what it read, also when its input
\* changed after it was looked at or while it was read (main.cpp:196-211,
\* benchmark.cpp:60-67).
ArchiveHoldsWhatWasRead ==
  \A p \in Process :
    Well(p) /\ Compresses(p) /\ writers[output[p]] = {p} => IsArchiveOf(content[output[p]], got[p])

\* Whoever decompresses an archive while it is being written gets all that
\* compress had read, or fails (main.cpp:278-285, 350-407).
NewArchiveIsWholeOrRefused ==
  \A p, q \in Process :
    /\ Well(p) /\ ~Compresses(p) /\ Compresses(q)
    /\ input[p] = output[q] /\ writers[input[p]] = {q} /\ writers[output[p]] = {p}
    /\ job[q].output \notin DOMAIN before
    => content[output[p]] = got[q]

\* Two commands that compress the same to the same file at once leave one whole
\* archive, if both succeed (main.cpp:278-290).
SameArchiveTwice ==
  \A p, q \in Process :
    /\ p # q /\ Well(p) /\ Well(q) /\ Compresses(p) /\ Compresses(q)
    /\ output[p] = output[q] /\ writers[output[p]] = {p, q}
    /\ got[p] = got[q] /\ job[p].algorithm = job[q].algorithm
    => IsArchiveOf(content[output[p]], got[p])

\* The commands are told no output and there is no archive yet: compress makes
\* notes.lac of notes, decompress notes of notes.lac.
DefaultNames ==
  /\ DOMAIN before = {"notes"}
  /\ \A p \in Process :
       <<job[p].input, job[p].output>> =
         IF Compresses(p) THEN <<"notes", "notes.lac">> ELSE <<"notes.lac", "notes">>

AllCompress == \A p \in Process : Compresses(p)

OneCompresses == \A p, q \in Process : Compresses(p) /\ Compresses(q) => p = q

\* Nobody has edited or killed anything, and no write has failed.
Undisturbed == edits = 0 /\ trouble = {}

\* Without -o, commands that run at once on a file that has no archive yet do
\* not lose its contents, if one of them compresses or all do: the file or its
\* archive holds them, whatever cannot be opened, read, decoded or removed
\* (main.cpp:196-211, 268-285, 350-407).
NothingIsLost ==
  /\ \A p \in Process : step[p] \in Over
  /\ Undisturbed /\ DefaultNames
  /\ AllCompress \/ OneCompresses
  => \E name \in DOMAIN dir :
       content[dir[name]] = before["notes"] \/ IsArchiveOf(content[dir[name]], before["notes"])
=============================================================================
