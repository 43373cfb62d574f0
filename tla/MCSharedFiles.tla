---------------------------- MODULE MCSharedFiles ----------------------------
(***************************************************************************)
(* A small instance of SharedFiles: two commands on notes and notes.lac.   *)
(***************************************************************************)
EXTENDS SharedFilesInv, MCCodecs, TLC

MCProcess == {"first", "second"}

Data == <<1, 1, 2, 2, 2, 2>>

OtherData == <<2, 1, 2>>

Packed(algo, data) == WriteHeader(algo, Len(data)) \o MCPayload(algo, data)

Job(command, from, to, algo) == [command |-> command, input |-> from, output |-> to, algorithm |-> algo]

\* compress notes, with either algorithm; the same onto notes; decompress
\* notes.lac, and the same onto itself.
MCJobList ==
  <<Job("compress", "notes", "notes.lac", Rle), Job("compress", "notes", "notes.lac", Huffman),
    Job("compress", "notes", "notes", Huffman), Job("decompress", "notes.lac", "notes", Rle),
    Job("decompress", "notes.lac", "notes.lac", Rle)>>

\* Any two of them: which one is called the first does not matter.
MCJobs ==
  {("first" :> MCJobList[pair[1]]) @@ ("second" :> MCJobList[pair[2]])
     : pair \in {two \in (DOMAIN MCJobList) \X (DOMAIN MCJobList) : two[1] <= two[2]}}

MCInitialFiles ==
  {"notes" :> Data,
   ("notes" :> Data) @@ ("notes.lac" :> Packed(Rle, OtherData)),
   "notes.lac" :> Packed(Huffman, Data)}

MCEdits == {<<2, 1>>}

\* The codecs of this instance keep the promises the proofs assume.
SmallData == SeqOf(1 .. 3, 3) \cup {Data, OtherData}

ASSUME MCCodecsAssumption ==
  \A algo \in Algorithms :
    /\ \A stream, more \in SmallData, size \in 0 .. 3 :
         DecodesOnwards(algo, stream, more, size)
    /\ \A data \in SmallData : FitsInMemory(data) => RestoresData(algo, data)
=============================================================================
