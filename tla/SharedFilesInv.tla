---------------------------- MODULE SharedFilesInv ----------------------------
(***************************************************************************)
(* The inductive invariant of SharedFiles, and what it needs of the codecs.*)
(***************************************************************************)
EXTENDS SharedFiles

\* std::string::max_size: a size that is read into memory is below half of all.
FitsInMemory(data) == 2 * Len(data) < SizeMod

\* What is written is bytes, and more of the payload never changes what has been
\* decoded of it.
DecodesOnwards(algo, stream, more, size) ==
  /\ Payload(algo, stream) \in Seq(Byte)
  /\ Restored(algo, stream, size) \in Seq(Byte)
  /\ Verdict(algo, stream, size, FALSE) = "more" =>
       IsPrefix(Restored(algo, stream, size), Restored(algo, stream \o more, size))

\* The payload of some data is accepted and restored, and no front part of it is
\* taken for another one's.
RestoresData(algo, data) ==
  LET payload == Payload(algo, data)
      Accepted(n, end) == Verdict(algo, SubSeq(payload, 1, n), Len(data), end) = "accepted"
  IN  /\ Accepted(Len(payload), TRUE)
      /\ \A n \in 0 .. Len(payload) : \A end \in BOOLEAN :
           Accepted(n, end) => Restored(algo, SubSeq(payload, 1, n), Len(data)) = data

\* What RleArchive and HuffmanArchive show of the codecs, for data that fit into
\* memory.
CodecsRestore ==
  \A algo \in Algorithms :
    /\ \A stream, more, header \in Seq(Byte) :
         DecodesOnwards(algo, stream, more, OriginalSize(header))
    /\ \A data \in Seq(Byte) : FitsInMemory(data) => RestoresData(algo, data)

-----------------------------------------------------------------------------
Steps == {"starting", "reading", "decoding", "writing", "removing"} \cup Over

StateInv ==
  /\ job \in Jobs /\ before \in InitialFiles
  /\ dir \in [DOMAIN dir -> Inode] /\ IsInjective(dir)
  /\ content \in [Inode -> Seq(Byte)]
  /\ writers \in [Inode -> SUBSET (Process \cup {"editor"})]
  /\ step \in [Process -> Steps]
  /\ input \in [Process -> Inode \cup {NoInode}]
  /\ output \in [Process -> Inode \cup {NoInode}]
  /\ got \in [Process -> Seq(Byte)]
  /\ ended \in [Process -> BOOLEAN]
  /\ put \in [Process -> Nat]
  /\ edits \in 0 .. MaxEdits
  /\ trouble \subseteq Process

\* What a command knows where it is.
InStep(p) ==
  /\ step[p] = "starting" => got[p] = <<>> /\ input[p] = NoInode
  /\ step[p] \in {"starting", "reading"} => output[p] = NoInode /\ put[p] = 0
  /\ step[p] \in {"reading", "decoding"} \/ output[p] # NoInode => input[p] # NoInode
  /\ step[p] = "decoding" => ~Compresses(p)
  /\ step[p] \in {"decoding", "writing", "removing", "succeeded"} => output[p] # NoInode
  /\ output[p] # NoInode => Compresses(p) \/ HeaderIsValid(got[p])
  /\ output[p] # NoInode => put[p] <= Len(Produced(p))
  /\ Well(p) => put[p] = Len(Produced(p))
  /\ ~Compresses(p) /\ step[p] \in {"writing", "succeeded"} => Decision(p) = "accepted"

StepInv == \A p \in Process : InStep(p)

\* Who has written an inode is who has it as output, and a new name leads to an
\* inode that a command has made.
WriterInv ==
  /\ \A p \in Process, i \in Inode : p \in writers[i] <=> output[p] = i
  /\ \A name \in DOMAIN dir \ DOMAIN before : \E p \in Process : output[p] = dir[name]

\* An inode that one command alone has written holds what it has put there.
OwnInv ==
  \A p \in Process :
    output[p] # NoInode /\ writers[output[p]] = {p} =>
      content[output[p]] = SubSeq(Produced(p), 1, put[p])

\* One that several have written with the same archive holds at least what one
\* of them has put there, the last to empty it, and nothing behind its end.
Alike(i) ==
  /\ writers[i] \subseteq Process
  /\ \A p \in writers[i] : Compresses(p)
  /\ \A p, q \in writers[i] : Produced(p) = Produced(q)

AlikeInv ==
  \A i \in Inode : writers[i] # {} /\ Alike(i) =>
    /\ \A p \in writers[i] : Len(content[i]) <= Len(Produced(p))
    /\ \E p \in writers[i] :
         /\ put[p] <= Len(content[i])
         /\ \A k \in 1 .. put[p] : content[i][k] = Produced(p)[k]

\* q has made an inode that nobody else writes.
Fresh(q) ==
  /\ Compresses(q) /\ output[q] # NoInode
  /\ writers[output[q]] = {q}
  /\ job[q].output \notin DOMAIN before

\* Who reads a new archive has read the front part of it.
FreshInv ==
  \A p, q \in Process :
    Fresh(q) /\ input[p] = output[q] => IsPrefix(got[p], content[output[q]])

IInv == StateInv /\ StepInv /\ WriterInv /\ OwnInv /\ AlikeInv /\ FreshInv

-----------------------------------------------------------------------------
\* The file has its name and its contents, and nobody writes it.
NotesKept ==
  /\ "notes" \in DOMAIN dir
  /\ content[dir["notes"]] = before["notes"]
  /\ \A p \in Process : output[p] # dir["notes"]

\* There is only the file: decompress has nothing to open, and compress has read
\* the front part of the file, or all of it.
NothingMade ==
  /\ NotesKept /\ DOMAIN dir = {"notes"}
  /\ \A p \in Process : output[p] = NoInode
  /\ \A p \in Process :
       IF Compresses(p)
         THEN /\ IsPrefix(got[p], before["notes"])
              /\ step[p] = "reading" => input[p] = dir["notes"]
              /\ ended[p] => got[p] = before["notes"]
         ELSE step[p] \in {"starting", "failed"}

\* p has made the archive, has all of the file to write into it, and nobody else
\* writes or removes it.
ArchiveOfAll(p) ==
  /\ Compresses(p) /\ got[p] = before["notes"]
  /\ step[p] \in {"writing", "succeeded"}
  /\ "notes.lac" \in DOMAIN dir /\ dir["notes.lac"] = output[p]
  /\ writers[output[p]] = {p}

NotesInv ==
  /\ edits = 0 => \A i \in Inode : "editor" \notin writers[i]
  /\ Undisturbed /\ DefaultNames /\ AllCompress => NotesKept
  /\ Undisturbed /\ DefaultNames /\ OneCompresses =>
       NothingMade \/ \E p \in Process : ArchiveOfAll(p)
=============================================================================
