---------------------------- MODULE SessionProofs ----------------------------
(***************************************************************************)
(* Proofs about Session, for any files, sources and jobs, any codecs that  *)
(* work on bytes, and sessions of any length.                              *)
(***************************************************************************)
EXTENDS SessionInv, LacHeaderProofs

\* The codecs turn bytes into bytes, whatever a header says of the size.
CodecsYieldBytes ==
  \A algo \in Algorithms, bytes \in Seq(Byte) :
    /\ Payload(algo, bytes) \in Seq(Byte)
    /\ \A header \in Seq(Byte) : Restored(algo, bytes, OriginalSize(header)) \in Seq(Byte)

-----------------------------------------------------------------------------
(***************************************************************************)
(* What the operations on files and standard output do.                    *)
(***************************************************************************)
FilesOK ==
  \A path \in DOMAIN files : path # <<>> /\ path # Dash /\ files[path] \in Seq(Byte)

\* The files but the destination are as before the step.
OthersStay ==
  \A path : path # Destination =>
    /\ path \in DOMAIN files' <=> path \in DOMAIN files
    /\ path \in DOMAIN files => files'[path] = files[path]

LEMMA SetEffect ==
  ASSUME NEW bytes, Set(Destination, bytes)
  PROVE  /\ DOMAIN files' = DOMAIN files \cup {Destination}
         /\ files'[Destination] = bytes
         /\ OthersStay
BY DEF Set, OthersStay

\* A file is created or emptied.
LEMMA TruncateEffect ==
  ASSUME FilesOK, Destination # Dash, Truncate(Destination)
  PROVE  /\ FilesOK' /\ OthersStay
         /\ Destination \in DOMAIN files' /\ files'[Destination] = <<>>
<1>1. Destination # <<>> /\ Set(Destination, <<>>)
  BY DEF Truncate
<1>2. /\ DOMAIN files' = DOMAIN files \cup {Destination}
      /\ files'[Destination] = <<>>
      /\ OthersStay
  BY <1>1, SetEffect
<1>3. <<>> \in Seq(Byte)
  BY EmptySeq
<1> QED
  BY <1>1, <1>2, <1>3 DEF FilesOK, OthersStay, Dash

\* Bytes are added to a file.
LEMMA ToFileEffect ==
  ASSUME FilesOK, Destination \in DOMAIN files, NEW bytes \in Seq(Byte), ToFile(bytes)
  PROVE  /\ FilesOK' /\ OthersStay
         /\ Destination \in DOMAIN files' /\ files'[Destination] = files[Destination] \o bytes
<1>1. /\ DOMAIN files' = DOMAIN files \cup {Destination}
      /\ files'[Destination] = files[Destination] \o bytes
      /\ OthersStay
  BY SetEffect DEF ToFile
<1>2. /\ files[Destination] \o bytes \in Seq(Byte)
      /\ Destination # <<>> /\ Destination # Dash
  BY ConcatProperties DEF FilesOK
<1> QED
  BY <1>1, <1>2 DEF FilesOK, OthersStay, Dash

LEMMA PrefixType ==
  ASSUME NEW bytes \in Seq(Byte), NEW some \in Prefixes(bytes)
  PROVE  some \in Seq(Byte)
<1>1. Len(bytes) \in Nat /\ \A k \in 1 .. Len(bytes) : bytes[k] \in Byte
  BY LenProperties, ElementOfSeq
<1>2. PICK n \in 0 .. Len(bytes) : some = SubSeq(bytes, 1, n)
  BY DEF Prefixes
<1> QED
  BY <1>1, <1>2, SubSeqProperties

\* Only what was printed in full is not lost.
LEMMA PrintEffect ==
  ASSUME stdout \in Seq(Byte), lost \in BOOLEAN, NEW bytes \in Seq(Byte), PrintUnchecked(bytes)
  PROVE  /\ stdout' \in Seq(Byte) /\ lost' \in BOOLEAN
         /\ lost' \/ (~lost /\ stdout' = stdout \o bytes)
<1>1. CASE ToStdout(bytes) /\ UNCHANGED lost
  BY <1>1, ConcatProperties DEF ToStdout
<1>2. CASE lost' = TRUE /\ \E some \in Prefixes(bytes) \ {bytes} : ToStdout(some)
  BY <1>2, PrefixType, ConcatProperties DEF ToStdout
<1> QED
  BY <1>1, <1>2 DEF PrintUnchecked

\* Only a buffer that reached the file in full is not lost.
LEMMA CloseEffect ==
  ASSUME FilesOK, Destination \in DOMAIN files, pending \in Seq(Byte), lost \in BOOLEAN, Close
  PROVE  /\ FilesOK' /\ OthersStay /\ Destination \in DOMAIN files'
         /\ pending' = <<>> /\ lost' \in BOOLEAN
         /\ lost' \/ (~lost /\ files'[Destination] = files[Destination] \o pending)
<1>1. CASE ToFile(pending) /\ UNCHANGED lost
  BY <1>1, ToFileEffect DEF Close
<1>2. CASE lost' = TRUE /\ \E some \in Prefixes(pending) \ {pending} : ToFile(some)
  BY <1>2, ToFileEffect, PrefixType DEF Close
<1> QED
  BY <1>1, <1>2 DEF Close

LEMMA ReportEffect ==
  ASSUME stdout \in Seq(Byte), lost \in BOOLEAN, Report
  PROVE  /\ stdout' \in Seq(Byte) /\ lost' \in BOOLEAN
         /\ lost => lost'
         /\ Destination = Dash /\ ~job.json => UNCHANGED <<stdout, lost>>
BY CommandAssumption, PrintEffect DEF Report

LEMMA ArchiveType ==
  ASSUME CodecsYieldBytes, NEW algo \in Algorithms, NEW data \in Seq(Byte)
  PROVE  Archive(algo, data) \in Seq(Byte)
<1>1. Payload(algo, data) \in Seq(Byte) /\ Len(data) \in Nat
  BY LenProperties DEF CodecsYieldBytes
<1>2. WriteHeader(algo, Len(data)) \in Seq(Byte)
  BY <1>1, WriteHeaderFields
<1> QED
  BY <1>1, <1>2, ConcatProperties DEF Archive

LEMMA DecodedType ==
  ASSUME CodecsYieldBytes, taken \in Seq(Byte), HeaderIsValid(taken)
  PROVE  Decoded \in Seq(Byte)
<1>1. AlgorithmId(taken) \in Algorithms
  BY DEF HeaderIsValid, AlgorithmId
<1>2. Len(taken) > FileBuffer => SubSeq(taken, 1, FileBuffer) \in Seq(Byte)
  <2>1. FileBuffer \in Nat /\ Len(taken) \in Nat
    BY CommandAssumption, LenProperties
  <2>2. Len(taken) > FileBuffer => \A k \in 1 .. FileBuffer : taken[k] \in Byte
    BY <2>1, ElementOfSeq
  <2> QED
    BY <2>1, <2>2, SubSeqProperties
<1>3. Stream \in Seq(Byte)
  BY <1>2, AfterHeaderType DEF Stream
<1> QED
  BY <1>1, <1>3 DEF Decoded, CodecsYieldBytes

-----------------------------------------------------------------------------
(***************************************************************************)
(* What a step that does not choose another job leaves as it is.           *)
(***************************************************************************)
LEMMA DestinationStays ==
  ASSUME UNCHANGED job
  PROVE  Destination' = Destination
BY DEF Destination, CompressDestination, DecompressDestination

LEMMA DecodedStays ==
  ASSUME UNCHANGED <<job, taken>>
  PROVE  Decoded' = Decoded /\ IsAccepted' = IsAccepted
<1>1. Stream' = Stream
  BY DestinationStays DEF Stream
<1> QED
  BY <1>1 DEF Decoded, IsAccepted

-----------------------------------------------------------------------------
LEMMA ReadDataKeeps ==
  ASSUME IInv, ReadData, UNCHANGED commands
  PROVE  IInv'
<1>1. TypeOK'
  BY DEF IInv, TypeOK, ReadData, Compressing, Goto, Readable, Contents, ioVars, historyVars
<1>2. PlaceInv'
  BY DestinationStays DEF IInv, PlaceInv, ReadData, Compressing, Goto, ioVars, historyVars
<1>3. HeaderInv'
  BY DestinationStays DEF IInv, PlaceInv, HeaderInv, Ended, ReadData, Compressing, Goto, ioVars, historyVars
<1>4. OutputInv'
  BY DEF OutputInv, Past, ReadData, Compressing, Goto, ioVars, historyVars
<1>5. ContentInv'
  BY DestinationStays DEF IInv, ContentInv, Past, Decompressing, ReadData, Compressing, Goto, ioVars, historyVars
<1> QED
  BY <1>1, <1>2, <1>3, <1>4, <1>5 DEF IInv

\* The steps that end a command before it has created its output, and Kill.
LEMMA EndingKeeps ==
  ASSUME IInv, UNCHANGED <<ioVars, job, taken, trials, output, historyVars, commands>>,
         step' = "idle", pending' \in {pending, <<>>},
         status' = "killed" \/ (status' = "failed" /\ step \in {"opening", "trying", "creating"})
  PROVE  IInv'
<1>1. TypeOK'
  <2>1. pending' \in Seq(Byte) /\ Len(pending') < FileBuffer
    <3>1. <<>> \in Seq(Byte) /\ Len(<<>>) < FileBuffer
      BY CommandAssumption, EmptySeq
    <3>2. pending \in Seq(Byte) /\ Len(pending) < FileBuffer
      BY DEF IInv, TypeOK
    <3> QED
      BY <3>1, <3>2
  <2> QED
    BY <2>1 DEF IInv, TypeOK, ioVars, historyVars
<1>2. PlaceInv'
  BY DestinationStays DEF IInv, PlaceInv, ioVars, historyVars
<1>3. HeaderInv'
  BY DestinationStays DEF IInv, PlaceInv, HeaderInv, Ended, ioVars, historyVars
<1>4. OutputInv'
  BY DEF OutputInv, Past
<1>5. ContentInv'
  BY DestinationStays DEF ContentInv, Past, Decompressing
<1> QED
  BY <1>1, <1>2, <1>3, <1>4, <1>5 DEF IInv

LEMMA CompressFailuresKeep ==
  ASSUME IInv, ReadDataFails \/ TryFails \/ CreateArchiveFails, UNCHANGED commands
  PROVE  IInv'
BY EndingKeeps DEF ReadDataFails, TryFails, CreateArchiveFails, Compressing, Exit, localVars

LEMMA DecompressFailuresKeep ==
  ASSUME IInv, OpenArchiveFails \/ CreateOutputFails, UNCHANGED commands
  PROVE  IInv'
BY EndingKeeps DEF OpenArchiveFails, CreateOutputFails, Decompressing, Exit, localVars

LEMMA InspectFailsKeeps ==
  ASSUME IInv, InspectFails, UNCHANGED commands
  PROVE  IInv'
BY EndingKeeps DEF InspectFails, Exit, localVars

LEMMA KillKeeps ==
  ASSUME IInv, Kill, UNCHANGED commands
  PROVE  IInv'
BY EndingKeeps DEF Kill, Exit

LEMMA InspectKeeps ==
  ASSUME IInv, Inspect, UNCHANGED commands
  PROVE  IInv'
<1>1. TypeOK'
  BY CommandAssumption, PrintEffect DEF IInv, TypeOK, Inspect, Exit
<1>2. PlaceInv'
  BY DestinationStays DEF IInv, PlaceInv, Inspect, Exit
<1>3. HeaderInv'
  BY DestinationStays DEF IInv, PlaceInv, HeaderInv, Ended, Inspect, Exit
<1>4. OutputInv'
  BY DEF OutputInv, Past, Inspect, Exit
<1>5. ContentInv'
  BY DestinationStays DEF IInv, ContentInv, Past, Decompressing, Inspect, Exit
<1> QED
  BY <1>1, <1>2, <1>3, <1>4, <1>5 DEF IInv

LEMMA StartKeeps ==
  ASSUME IInv, Start
  PROVE  IInv'
<1>1. TypeOK'
  <2>1. <<>> \in Seq(Byte) /\ Len(<<>>) < FileBuffer
    BY CommandAssumption, EmptySeq
  <2>2. stdin' \in Seq(Byte)
    BY <2>1, CommandAssumption DEF IInv, TypeOK, Start
  <2>3. commands' \in 0 .. MaxCommands
    BY SessionAssumption DEF IInv, TypeOK, Start
  <2> QED
    BY <2>1, <2>2, <2>3 DEF IInv, TypeOK, Start
<1>2. PlaceInv'
  BY DEF IInv, TypeOK, PlaceInv, Start
<1>3. HeaderInv'
  BY DEF HeaderInv, Ended, Start
<1>4. OutputInv'
  BY DEF OutputInv, Past, Start
<1>5. ContentInv'
  BY DEF ContentInv, Past, Decompressing, Start
<1> QED
  BY <1>1, <1>2, <1>3, <1>4, <1>5 DEF IInv

-----------------------------------------------------------------------------
\* The shortest archive is selected.
LEMMA SelectedIsShortest ==
  ASSUME CodecsYieldBytes, taken \in Seq(Byte), NEW succeeded \in SUBSET Algorithms, succeeded # {}
  PROVE  /\ Selected(succeeded) \in succeeded
         /\ \A other \in succeeded :
              Len(Archive(Selected(succeeded), taken)) <= Len(Archive(other, taken))
<1>1. \A algo \in Algorithms : Len(Archive(algo, taken)) \in Nat
  BY ArchiveType, LenProperties
<1>2. /\ Rle \in succeeded \/ Huffman \in succeeded
      /\ \A other \in succeeded : other = Rle \/ other = Huffman
      /\ Rle \in Algorithms /\ Huffman \in Algorithms
  BY DEF Algorithms
<1>3. CASE /\ Huffman \in succeeded
           /\ \/ Rle \notin succeeded
              \/ Len(Archive(Huffman, taken)) < Len(Archive(Rle, taken))
  <2>1. Selected(succeeded) = Huffman
    BY <1>3 DEF Selected
  <2> QED
    BY <1>1, <1>2, <1>3, <2>1
<1>4. CASE ~ /\ Huffman \in succeeded
             /\ \/ Rle \notin succeeded
                \/ Len(Archive(Huffman, taken)) < Len(Archive(Rle, taken))
  <2>1. Selected(succeeded) = Rle
    BY <1>4 DEF Selected
  <2> QED
    BY <1>1, <1>2, <1>4, <2>1
<1> QED
  BY <1>3, <1>4

LEMMA TryKeeps ==
  ASSUME CodecsYieldBytes, IInv, Try, UNCHANGED commands
  PROVE  IInv'
<1>1. PICK succeeded \in (SUBSET Requested) \ {{}} :
        trials' = succeeded /\ output' = Archive(Selected(succeeded), taken)
  BY DEF Try
<1>2. succeeded \in SUBSET Algorithms /\ succeeded # {}
  <2>1. job \in Jobs
    BY DEF IInv, PlaceInv, Try, Compressing
  <2>2. job.algorithm \in {NoValue, "auto", "rle", "huffman"}
    BY <2>1, SessionAssumption DEF Try
  <2>3. Requested \subseteq Algorithms
    BY <2>2 DEF Requested, Algorithms
  <2>4. succeeded \subseteq Requested /\ succeeded # {}
    BY <1>1
  <2> QED
    BY <2>3, <2>4
<1>3. /\ Selected(succeeded) \in succeeded
      /\ \A other \in succeeded :
           Len(Archive(Selected(succeeded), taken)) <= Len(Archive(other, taken))
  BY <1>2, SelectedIsShortest DEF IInv, TypeOK
<1>4. TypeOK'
  <2>1. output' \in Seq(Byte)
    BY <1>1, <1>2, <1>3, ArchiveType DEF IInv, TypeOK
  <2> QED
    BY <1>1, <1>2, <2>1 DEF IInv, TypeOK, Try, Goto, ioVars, historyVars
<1>5. PlaceInv'
  BY DestinationStays DEF IInv, PlaceInv, Try, Compressing, Goto, ioVars, historyVars
<1>6. HeaderInv'
  BY DestinationStays DEF IInv, PlaceInv, HeaderInv, Ended, Try, Compressing, Goto, ioVars, historyVars
<1>7. OutputInv'
  BY <1>1, <1>3 DEF OutputInv, Past, Try, Compressing, Goto, ioVars, historyVars
<1>8. ContentInv'
  BY DestinationStays DEF IInv, ContentInv, Past, Decompressing, Try, Compressing, Goto, ioVars, historyVars
<1> QED
  BY <1>4, <1>5, <1>6, <1>7, <1>8 DEF IInv

LEMMA CreateArchiveKeeps ==
  ASSUME IInv, CreateArchive, UNCHANGED commands
  PROVE  IInv'
<1>1. /\ FilesOK' /\ OthersStay
      /\ Destination \in DOMAIN files' /\ files'[Destination] = <<>>
  BY TruncateEffect DEF IInv, TypeOK, FilesOK, CreateArchive
<1>2. Destination' = Destination
  BY DestinationStays DEF CreateArchive
<1>3. TypeOK'
  BY <1>1 DEF IInv, TypeOK, FilesOK, CreateArchive, Goto, localVars, historyVars
<1>4. PlaceInv'
  BY <1>1, <1>2 DEF IInv, PlaceInv, OthersStay, CreateArchive, Compressing, Goto, localVars, historyVars
<1>5. HeaderInv'
  BY DEF HeaderInv, Ended, CreateArchive, Compressing, Goto
<1>6. OutputInv'
  BY DEF IInv, OutputInv, Past, CreateArchive, Compressing, Goto, localVars, historyVars
<1>7. ContentInv'
  BY <1>1, <1>2 DEF IInv, ContentInv, Past, Decompressing, CreateArchive, Compressing, Goto, localVars, historyVars
<1> QED
  BY <1>3, <1>4, <1>5, <1>6, <1>7 DEF IInv

LEMMA PrintArchiveKeeps ==
  ASSUME IInv, PrintArchive, UNCHANGED commands
  PROVE  IInv'
<1>1. /\ stdout' \in Seq(Byte) /\ lost' \in BOOLEAN
      /\ lost' \/ (~lost /\ stdout' = stdout \o output)
  BY PrintEffect DEF IInv, TypeOK, PrintArchive
<1>2. Destination' = Destination
  BY DestinationStays DEF PrintArchive
<1>3. TypeOK'
  BY <1>1 DEF IInv, TypeOK, PrintArchive, Goto, localVars
<1>4. PlaceInv'
  BY <1>2 DEF IInv, PlaceInv, PrintArchive, Compressing, Goto, localVars
<1>5. HeaderInv'
  BY DEF HeaderInv, Ended, PrintArchive, Compressing, Goto
<1>6. OutputInv'
  BY DEF IInv, OutputInv, Past, PrintArchive, Compressing, Goto, localVars
<1>7. ContentInv'
  <2>1. stdout = <<>> /\ output \in Seq(Byte)
    BY DEF IInv, TypeOK, ContentInv, PrintArchive, Compressing
  <2>2. lost' \/ stdout' = output
    BY <1>1, <2>1, ConcatEmptySeq
  <2> QED
    BY <1>2, <2>2 DEF IInv, ContentInv, Past, Decompressing, PrintArchive, Compressing, Goto, localVars
<1> QED
  BY <1>3, <1>4, <1>5, <1>6, <1>7 DEF IInv

-----------------------------------------------------------------------------
\* A sequence of bytes cut in two.
LEMMA CutInTwo ==
  ASSUME NEW bytes \in Seq(Byte), NEW k \in 0 .. Len(bytes)
  PROVE  /\ SubSeq(bytes, 1, k) \in Seq(Byte) /\ SubSeq(bytes, k + 1, Len(bytes)) \in Seq(Byte)
         /\ Len(SubSeq(bytes, k + 1, Len(bytes))) = Len(bytes) - k
         /\ SubSeq(bytes, 1, k) \o SubSeq(bytes, k + 1, Len(bytes)) = bytes
<1>1. Len(bytes) \in Nat /\ k \in Nat /\ \A i \in 1 .. Len(bytes) : bytes[i] \in Byte
  BY LenProperties, ElementOfSeq
<1>2. SubSeq(bytes, 1, k) \in Seq(Byte)
  BY FrontPart
<1>3. /\ SubSeq(bytes, k + 1, Len(bytes)) \in Seq(Byte)
      /\ Len(SubSeq(bytes, k + 1, Len(bytes))) = Len(bytes) - k
  <2> DEFINE right == SubSeq(bytes, k + 1, Len(bytes))
  <2>1. \A i \in k + 1 .. Len(bytes) : bytes[i] \in Byte
    BY <1>1
  <2>2. /\ right \in Seq(Byte)
        /\ Len(right) = IF k + 1 <= Len(bytes) THEN Len(bytes) - (k + 1) + 1 ELSE 0
    BY <1>1, <2>1, SubSeqProperties
  <2> HIDE DEF right
  <2>3. Len(right) = Len(bytes) - k
    BY <1>1, <2>2
  <2> QED
    BY <2>2, <2>3 DEF right
<1>4. SubSeq(bytes, 1, k) \o SubSeq(bytes, k + 1, Len(bytes)) = bytes
  <2>1. /\ 1 \in 1 .. Len(bytes) + 1 /\ k \in 1 - 1 .. Len(bytes)
        /\ Len(bytes) \in k .. Len(bytes)
    BY <1>1
  <2>2. SubSeq(bytes, 1, k) \o SubSeq(bytes, k + 1, Len(bytes)) = SubSeq(bytes, 1, Len(bytes))
    BY <2>1, ConcatAdjacentSubSeq
  <2> QED
    BY <2>2, SubSeqFull
<1> QED
  BY <1>2, <1>3, <1>4

LEMMA WriteArchiveKeeps ==
  ASSUME IInv, WriteArchive, UNCHANGED commands
  PROVE  IInv'
<1>1. /\ FilesOK /\ Destination \in DOMAIN files /\ files[Destination] = <<>>
      /\ output \in Seq(Byte) /\ pending = <<>> /\ Len(output) \in Nat
  BY LenProperties DEF IInv, TypeOK, FilesOK, PlaceInv, ContentInv, WriteArchive, Compressing
<1>2. /\ FilesOK' /\ OthersStay /\ Destination \in DOMAIN files'
      /\ pending' \in Seq(Byte) /\ Len(pending') < FileBuffer
      /\ files'[Destination] \o pending' = output
  <2>1. CASE Len(output) < FileBuffer
    <3>1. files' = files /\ pending' = output
      BY <2>1 DEF WriteArchive
    <3>2. <<>> \o output = output
      BY <1>1, ConcatEmptySeq
    <3> QED
      BY <1>1, <2>1, <3>1, <3>2 DEF FilesOK, OthersStay
  <2>2. CASE ~(Len(output) < FileBuffer)
    <3>1. ToFile(output) /\ pending' = pending
      BY <2>2 DEF WriteArchive
    <3>2. /\ FilesOK' /\ OthersStay /\ Destination \in DOMAIN files'
          /\ files'[Destination] = files[Destination] \o output
      BY <1>1, <3>1, ToFileEffect
    <3>3. <<>> \o output = output /\ output \o <<>> = output
      BY <1>1, ConcatEmptySeq
    <3>4. pending' \in Seq(Byte) /\ Len(pending') < FileBuffer
      BY <3>1 DEF IInv, TypeOK
    <3>5. files'[Destination] \o pending' = output
      BY <1>1, <3>1, <3>2, <3>3
    <3> QED
      BY <3>2, <3>4, <3>5
  <2> QED
    BY <2>1, <2>2
<1>3. Destination' = Destination
  BY DestinationStays DEF WriteArchive
<1>4. TypeOK'
  BY <1>2 DEF IInv, TypeOK, FilesOK, WriteArchive, Goto, historyVars
<1>5. PlaceInv'
  BY <1>2, <1>3 DEF IInv, PlaceInv, OthersStay, WriteArchive, Compressing, Goto, historyVars
<1>6. HeaderInv'
  BY DEF HeaderInv, Ended, WriteArchive, Compressing, Goto
<1>7. OutputInv'
  BY DEF IInv, OutputInv, Past, WriteArchive, Compressing, Goto, historyVars
<1>8. ContentInv'
  BY <1>2, <1>3 DEF ContentInv, Past, Decompressing, WriteArchive, Compressing, Goto
<1> QED
  BY <1>4, <1>5, <1>6, <1>7, <1>8 DEF IInv

LEMMA WriteArchiveFailsKeeps ==
  ASSUME IInv, WriteArchiveFails, UNCHANGED commands
  PROVE  IInv'
<1>1. PICK some \in Prefixes(output) \ {output} : ToFile(some)
  BY DEF WriteArchiveFails
<1>2. FilesOK /\ Destination \in DOMAIN files /\ some \in Seq(Byte)
  BY PrefixType DEF IInv, TypeOK, FilesOK, PlaceInv, WriteArchiveFails, Compressing
<1>3. FilesOK' /\ OthersStay
  BY <1>1, <1>2, ToFileEffect
<1>4. Destination' = Destination
  BY DestinationStays DEF WriteArchiveFails
<1>5. TypeOK'
  BY <1>3 DEF IInv, TypeOK, FilesOK, WriteArchiveFails, Exit, localVars, historyVars
<1>6. PlaceInv'
  BY <1>3, <1>4 DEF IInv, PlaceInv, OthersStay, WriteArchiveFails, Exit, historyVars
<1>7. HeaderInv' /\ OutputInv' /\ ContentInv'
  BY DEF HeaderInv, Ended, OutputInv, ContentInv, Past, Decompressing, WriteArchiveFails, Compressing, Exit
<1> QED
  BY <1>5, <1>6, <1>7 DEF IInv

LEMMA CloseArchiveKeeps ==
  ASSUME IInv, CloseArchive, UNCHANGED commands
  PROVE  IInv'
<1>1. /\ FilesOK /\ Destination \in DOMAIN files /\ Destination # Dash
      /\ pending \in Seq(Byte) /\ lost \in BOOLEAN /\ files[Destination] \o pending = output
  BY DEF IInv, TypeOK, FilesOK, PlaceInv, ContentInv, CloseArchive, Compressing
<1>2. /\ FilesOK' /\ OthersStay /\ Destination \in DOMAIN files'
      /\ pending' = <<>> /\ lost' \in BOOLEAN
      /\ lost' \/ files'[Destination] = output
  BY <1>1, CloseEffect DEF CloseArchive
<1>3. Destination' = Destination
  BY DestinationStays DEF CloseArchive
<1>4. TypeOK'
  <2>1. <<>> \in Seq(Byte) /\ Len(<<>>) < FileBuffer
    BY CommandAssumption, EmptySeq
  <2> QED
    BY <1>2, <2>1 DEF IInv, TypeOK, FilesOK, CloseArchive, Goto
<1>5. PlaceInv'
  BY <1>2, <1>3 DEF IInv, PlaceInv, OthersStay, CloseArchive, Compressing, Goto
<1>6. HeaderInv'
  BY DEF HeaderInv, Ended, CloseArchive, Compressing, Goto
<1>7. OutputInv'
  BY DEF IInv, OutputInv, Past, CloseArchive, Compressing, Goto
<1>8. ContentInv'
  BY <1>1, <1>2, <1>3 DEF ContentInv, Past, Decompressing, CloseArchive, Compressing, Goto
<1> QED
  BY <1>4, <1>5, <1>6, <1>7, <1>8 DEF IInv

LEMMA ReportCompressedKeeps ==
  ASSUME IInv, ReportCompressed, UNCHANGED commands
  PROVE  IInv'
<1>1. /\ stdout' \in Seq(Byte) /\ lost' \in BOOLEAN
      /\ lost => lost'
      /\ Destination = Dash /\ ~job.json => UNCHANGED <<stdout, lost>>
  BY ReportEffect DEF IInv, TypeOK, ReportCompressed
<1>2. Destination' = Destination
  BY DestinationStays DEF ReportCompressed
<1>3. TypeOK'
  BY <1>1 DEF IInv, TypeOK, ReportCompressed, Exit, localVars
<1>4. PlaceInv'
  BY <1>2 DEF IInv, PlaceInv, ReportCompressed, Exit
<1>5. HeaderInv'
  BY DEF HeaderInv, Ended, ReportCompressed, Compressing, Exit
<1>6. OutputInv'
  BY DEF IInv, OutputInv, Past, ReportCompressed, Compressing, Exit, localVars
<1>7. ContentInv'
  BY <1>1, <1>2 DEF IInv, ContentInv, Past, Decompressing, ReportCompressed, Compressing, Exit, localVars
<1> QED
  BY <1>3, <1>4, <1>5, <1>6, <1>7 DEF IInv

-----------------------------------------------------------------------------
LEMMA OpenArchiveKeeps ==
  ASSUME IInv, OpenArchive, UNCHANGED commands
  PROVE  IInv'
<1>1. TypeOK'
  BY DEF IInv, TypeOK, OpenArchive, Decompressing, Goto, Readable, Contents, ioVars, historyVars
<1>2. PlaceInv'
  BY DestinationStays DEF IInv, PlaceInv, OpenArchive, Decompressing, Goto, ioVars, historyVars
<1>3. HeaderInv'
  BY DEF IInv, PlaceInv, HeaderInv, Ended, OpenArchive, Decompressing, Goto, ioVars, historyVars
<1>4. OutputInv'
  BY DEF OutputInv, Past, OpenArchive, Decompressing, Goto
<1>5. ContentInv'
  BY DEF IInv, ContentInv, Past, Decompressing, OpenArchive, Goto, ioVars
<1> QED
  BY <1>1, <1>2, <1>3, <1>4, <1>5 DEF IInv

LEMMA ReadHeaderKeeps ==
  ASSUME IInv, ReadHeader, UNCHANGED commands
  PROVE  IInv'
<1>1. CASE HeaderIsValid(taken)
  <2>1. HeaderIsValid(taken)'
    BY <1>1 DEF ReadHeader, localVars, HeaderIsValid
  <2>2. TypeOK'
    BY <1>1 DEF IInv, TypeOK, ReadHeader, Goto, ioVars, localVars, historyVars
  <2>3. PlaceInv'
    BY <1>1 DEF IInv, PlaceInv, ReadHeader, Decompressing, Goto, ioVars, historyVars
  <2>4. HeaderInv'
    BY <1>1, <2>1 DEF HeaderInv, Ended, ReadHeader, Goto
  <2>5. OutputInv'
    BY <1>1 DEF OutputInv, Past, ReadHeader, Decompressing, Goto
  <2>6. ContentInv'
    BY <1>1 DEF IInv, ContentInv, Past, Decompressing, ReadHeader, Goto, ioVars, localVars
  <2> QED
    BY <2>2, <2>3, <2>4, <2>5, <2>6 DEF IInv
<1>2. CASE ~HeaderIsValid(taken)
  <2>1. TypeOK'
    BY <1>2 DEF IInv, TypeOK, ReadHeader, Exit, ioVars, localVars, historyVars
  <2>2. PlaceInv'
    BY <1>2 DEF IInv, PlaceInv, ReadHeader, Decompressing, Exit, ioVars, historyVars
  <2>3. HeaderInv'
    BY <1>2 DEF IInv, PlaceInv, HeaderInv, Ended, ReadHeader, Decompressing, Exit, ioVars, historyVars
  <2>4. OutputInv'
    BY <1>2 DEF OutputInv, Past, ReadHeader, Exit
  <2>5. ContentInv'
    BY <1>2 DEF ContentInv, Past, Decompressing, ReadHeader, Exit
  <2> QED
    BY <2>1, <2>2, <2>3, <2>4, <2>5 DEF IInv
<1> QED
  BY <1>1, <1>2

LEMMA CreateOutputKeeps ==
  ASSUME IInv, CreateOutput, UNCHANGED commands
  PROVE  IInv'
<1>1. /\ FilesOK' /\ OthersStay
      /\ Destination \in DOMAIN files' /\ files'[Destination] = <<>>
  BY TruncateEffect DEF IInv, TypeOK, FilesOK, CreateOutput
<1>2. Destination' = Destination
  BY DestinationStays DEF CreateOutput
<1>3. TypeOK'
  BY <1>1 DEF IInv, TypeOK, FilesOK, CreateOutput, Goto, localVars, historyVars
<1>4. PlaceInv'
  BY <1>1, <1>2 DEF IInv, PlaceInv, OthersStay, CreateOutput, Decompressing, Goto, localVars, historyVars
<1>5. HeaderInv'
  <2>1. HeaderIsValid(taken)'
    BY DEF IInv, HeaderInv, CreateOutput, Decompressing, localVars, HeaderIsValid
  <2> QED
    BY <2>1 DEF HeaderInv, Ended, CreateOutput, Goto
<1>6. OutputInv'
  BY DEF OutputInv, Past, CreateOutput, Decompressing, Goto
<1>7. ContentInv'
  BY <1>1, <1>2 DEF IInv, ContentInv, Past, Decompressing, CreateOutput, Goto, localVars, historyVars
<1> QED
  BY <1>3, <1>4, <1>5, <1>6, <1>7 DEF IInv

\* What the steps that decode know.
LEMMA DecodingFacts ==
  ASSUME CodecsYieldBytes, IInv, Decompressing("decoding") \/ Decompressing("creating")
  PROVE  /\ HeaderIsValid(taken) /\ Decoded \in Seq(Byte) /\ Len(Decoded) \in Nat
         /\ pending = <<>> /\ FilesOK /\ stdout \in Seq(Byte) /\ lost \in BOOLEAN
<1>1. /\ HeaderIsValid(taken) /\ taken \in Seq(Byte) /\ pending = <<>> /\ FilesOK
      /\ stdout \in Seq(Byte) /\ lost \in BOOLEAN
  BY DEF IInv, TypeOK, FilesOK, HeaderInv, ContentInv, Decompressing
<1> QED
  BY <1>1, DecodedType, LenProperties

LEMMA DecodeToFileKeeps ==
  ASSUME CodecsYieldBytes, IInv, DecodeToFile, UNCHANGED commands
  PROVE  IInv'
<1>1. /\ HeaderIsValid(taken) /\ Decoded \in Seq(Byte) /\ FilesOK
      /\ Destination \in DOMAIN files /\ files[Destination] = <<>>
  BY DecodingFacts DEF DecodeToFile, IInv, PlaceInv, ContentInv, Decompressing
<1>2. PICK k \in 0 .. Len(Decoded) :
        /\ Len(Decoded) - k < FileBuffer
        /\ ToFile(SubSeq(Decoded, 1, k))
        /\ pending' = SubSeq(Decoded, k + 1, Len(Decoded))
  BY DEF DecodeToFile
<1>3. /\ SubSeq(Decoded, 1, k) \in Seq(Byte)
      /\ pending' \in Seq(Byte) /\ Len(pending') < FileBuffer
      /\ SubSeq(Decoded, 1, k) \o pending' = Decoded
  BY <1>1, <1>2, CutInTwo
<1>4. /\ FilesOK' /\ OthersStay /\ Destination \in DOMAIN files'
      /\ files'[Destination] = files[Destination] \o SubSeq(Decoded, 1, k)
  BY <1>1, <1>2, <1>3, ToFileEffect
<1>5. files'[Destination] \o pending' = output'
  <2>1. <<>> \o SubSeq(Decoded, 1, k) = SubSeq(Decoded, 1, k)
    BY <1>3, ConcatEmptySeq
  <2>2. output' = Decoded
    BY DEF DecodeToFile
  <2> QED
    BY <1>1, <1>3, <1>4, <2>1, <2>2
<1>6. /\ Destination' = Destination
      /\ HeaderIsValid(taken)' /\ Decoded' = Decoded /\ IsAccepted' = IsAccepted
  BY <1>1, DestinationStays, DecodedStays DEF DecodeToFile, HeaderIsValid
<1>7. /\ step' = IF IsAccepted THEN "reporting" ELSE "removing"
      /\ job' = job /\ job.command = "decompress" /\ step = "decoding" /\ output' = Decoded
      /\ UNCHANGED <<status, before, stdin, stdout, taken, trials, lost>>
  BY DEF DecodeToFile, Goto, Decompressing, historyVars
<1>8. TypeOK'
  BY <1>1, <1>3, <1>4, <1>7 DEF IInv, TypeOK, FilesOK
<1>9. PlaceInv'
  BY <1>4, <1>6, <1>7 DEF IInv, PlaceInv, OthersStay
<1>10. HeaderInv'
  BY <1>6, <1>7 DEF HeaderInv, Ended
<1>11. OutputInv'
  BY <1>6, <1>7 DEF OutputInv, Past
<1>12. ContentInv'
  BY <1>5, <1>6, <1>7 DEF IInv, PlaceInv, ContentInv, Past, Decompressing
<1> QED
  BY <1>8, <1>9, <1>10, <1>11, <1>12 DEF IInv

LEMMA DecodeToFileFailsKeeps ==
  ASSUME CodecsYieldBytes, IInv, DecodeToFileFails, UNCHANGED commands
  PROVE  IInv'
<1>1. /\ HeaderIsValid(taken) /\ Decoded \in Seq(Byte) /\ FilesOK /\ Destination \in DOMAIN files
  BY DecodingFacts DEF DecodeToFileFails, IInv, PlaceInv, Decompressing
<1>2. PICK some \in Prefixes(Decoded) \ {Decoded} : ToFile(some)
  BY DEF DecodeToFileFails
<1>3. some \in Seq(Byte)
  BY <1>1, <1>2, PrefixType
<1>4. /\ FilesOK' /\ OthersStay /\ Destination \in DOMAIN files'
  BY <1>1, <1>2, <1>3, ToFileEffect
<1>5. Destination' = Destination /\ HeaderIsValid(taken)'
  BY <1>1, DestinationStays DEF DecodeToFileFails, HeaderIsValid
<1>6. /\ step' = "removing" /\ output' = Decoded
      /\ job' = job /\ job.command = "decompress" /\ step = "decoding"
      /\ UNCHANGED <<status, before, stdin, stdout, taken, trials, pending, lost>>
  BY DEF DecodeToFileFails, Goto, Decompressing, historyVars
<1>7. TypeOK'
  BY <1>1, <1>4, <1>6 DEF IInv, TypeOK, FilesOK
<1>8. PlaceInv'
  BY <1>4, <1>5, <1>6 DEF IInv, PlaceInv, OthersStay
<1>9. HeaderInv'
  BY <1>5, <1>6 DEF HeaderInv, Ended
<1>10. OutputInv' /\ ContentInv'
  BY <1>6 DEF OutputInv, ContentInv, Past, Decompressing
<1> QED
  BY <1>7, <1>8, <1>9, <1>10 DEF IInv

LEMMA DecodeToStdoutKeeps ==
  ASSUME CodecsYieldBytes, IInv, DecodeToStdout, UNCHANGED commands
  PROVE  IInv'
<1>1. /\ HeaderIsValid(taken) /\ Decoded \in Seq(Byte)
      /\ stdout = <<>> /\ stdout \in Seq(Byte) /\ lost \in BOOLEAN
  BY DecodingFacts DEF DecodeToStdout, IInv, ContentInv, Decompressing
<1>2. /\ stdout' \in Seq(Byte) /\ lost' \in BOOLEAN
      /\ lost' \/ stdout' = Decoded
  BY <1>1, PrintEffect, ConcatEmptySeq DEF DecodeToStdout
<1>3. /\ Destination' = Destination
      /\ HeaderIsValid(taken)' /\ Decoded' = Decoded /\ IsAccepted' = IsAccepted
  BY <1>1, DestinationStays, DecodedStays DEF DecodeToStdout, HeaderIsValid
<1>4. /\ IF IsAccepted THEN step' = "reporting" /\ status' = status
                       ELSE step' = "idle" /\ status' = "failed"
      /\ job' = job /\ job.command = "decompress" /\ step = "creating" /\ output' = Decoded
      /\ Destination = Dash
      /\ UNCHANGED <<files, before, stdin, taken, trials, pending>>
  BY DEF DecodeToStdout, Goto, Exit, Decompressing
<1>5. TypeOK'
  BY <1>1, <1>2, <1>4 DEF IInv, TypeOK
<1>6. PlaceInv'
  BY <1>3, <1>4 DEF IInv, PlaceInv
<1>7. HeaderInv'
  BY <1>3, <1>4 DEF IInv, PlaceInv, HeaderInv, Ended
<1>8. OutputInv'
  BY <1>3, <1>4 DEF OutputInv, Past
<1>9. ContentInv'
  BY <1>2, <1>3, <1>4 DEF ContentInv, Past, Decompressing
<1> QED
  BY <1>5, <1>6, <1>7, <1>8, <1>9 DEF IInv

LEMMA DecodeToStdoutFailsKeeps ==
  ASSUME CodecsYieldBytes, IInv, DecodeToStdoutFails, UNCHANGED commands
  PROVE  IInv'
<1>1. HeaderIsValid(taken) /\ Decoded \in Seq(Byte) /\ stdout \in Seq(Byte)
  BY DecodingFacts DEF DecodeToStdoutFails
<1>2. stdout' \in Seq(Byte)
  BY <1>1, PrefixType, ConcatProperties DEF DecodeToStdoutFails, ToStdout
<1>3. Destination' = Destination /\ HeaderIsValid(taken)'
  BY <1>1, DestinationStays DEF DecodeToStdoutFails, HeaderIsValid
<1>4. /\ step' = "idle" /\ status' = "failed"
      /\ job' = job /\ job.command = "decompress" /\ step = "creating" /\ output' = Decoded
      /\ UNCHANGED <<files, before, stdin, taken, trials, pending, lost>>
  BY DEF DecodeToStdoutFails, Exit, Decompressing, historyVars
<1>5. TypeOK'
  BY <1>1, <1>2, <1>4 DEF IInv, TypeOK
<1>6. PlaceInv'
  BY <1>3, <1>4 DEF IInv, PlaceInv
<1>7. HeaderInv'
  BY <1>3, <1>4 DEF IInv, PlaceInv, HeaderInv, Ended
<1>8. OutputInv' /\ ContentInv'
  BY <1>4 DEF OutputInv, ContentInv, Past, Decompressing
<1> QED
  BY <1>5, <1>6, <1>7, <1>8 DEF IInv

\* What the steps behind a decoding into a file know.
LEMMA DecodedFileFacts ==
  ASSUME IInv, Decompressing("removing") \/ Decompressing("closing")
  PROVE  /\ HeaderIsValid(taken) /\ FilesOK /\ Destination \in DOMAIN files
         /\ Destination # Dash /\ pending \in Seq(Byte) /\ lost \in BOOLEAN
         /\ <<>> \in Seq(Byte) /\ Len(<<>>) < FileBuffer
<1>1. <<>> \in Seq(Byte) /\ Len(<<>>) < FileBuffer
  BY CommandAssumption, EmptySeq
<1>2. /\ HeaderIsValid(taken) /\ FilesOK /\ Destination \in DOMAIN files
      /\ Destination # Dash /\ pending \in Seq(Byte) /\ lost \in BOOLEAN
  BY DEF IInv, TypeOK, FilesOK, PlaceInv, HeaderInv, Decompressing
<1> QED
  BY <1>1, <1>2

LEMMA RemoveOutputKeeps ==
  ASSUME IInv, RemoveOutput, UNCHANGED commands
  PROVE  IInv'
<1>1. /\ HeaderIsValid(taken) /\ FilesOK /\ <<>> \in Seq(Byte) /\ Len(<<>>) < FileBuffer
  BY DecodedFileFacts DEF RemoveOutput
<1>2. /\ DOMAIN files' = DOMAIN files \ {Destination}
      /\ \A path \in DOMAIN files' : files'[path] = files[path]
  BY DEF RemoveOutput
<1>3. Destination' = Destination /\ HeaderIsValid(taken)'
  BY <1>1, DestinationStays DEF RemoveOutput, HeaderIsValid
<1>4. /\ step' = "idle" /\ status' = "failed" /\ pending' = <<>>
      /\ job' = job /\ job.command = "decompress" /\ step = "removing"
      /\ UNCHANGED <<before, stdin, stdout, taken, trials, output, lost>>
  BY DEF RemoveOutput, Exit, Decompressing, historyVars
<1>5. TypeOK'
  BY <1>1, <1>2, <1>4 DEF IInv, TypeOK, FilesOK
<1>6. PlaceInv'
  BY <1>2, <1>3, <1>4 DEF IInv, PlaceInv
<1>7. HeaderInv'
  BY <1>2, <1>3, <1>4 DEF HeaderInv, Ended
<1>8. OutputInv' /\ ContentInv'
  BY <1>4 DEF OutputInv, ContentInv, Past, Decompressing
<1> QED
  BY <1>5, <1>6, <1>7, <1>8 DEF IInv

LEMMA RemoveOutputFailsKeeps ==
  ASSUME IInv, RemoveOutputFails, UNCHANGED commands
  PROVE  IInv'
<1>1. /\ HeaderIsValid(taken) /\ <<>> \in Seq(Byte) /\ Len(<<>>) < FileBuffer
      /\ FilesOK /\ Destination \in DOMAIN files /\ pending \in Seq(Byte)
  BY DecodedFileFacts DEF RemoveOutputFails
<1>2. FilesOK' /\ OthersStay
  BY <1>1, ToFileEffect DEF RemoveOutputFails
<1>3. Destination' = Destination /\ HeaderIsValid(taken)'
  BY <1>1, DestinationStays DEF RemoveOutputFails, HeaderIsValid
<1>4. /\ step' = "idle" /\ status' = "failed" /\ pending' = <<>> /\ lost' = TRUE
      /\ job' = job /\ job.command = "decompress" /\ step = "removing"
      /\ UNCHANGED <<before, stdin, stdout, taken, trials, output>>
  BY DEF RemoveOutputFails, Exit, Decompressing
<1>5. TypeOK'
  BY <1>1, <1>2, <1>4 DEF IInv, TypeOK, FilesOK
<1>6. PlaceInv'
  BY <1>2, <1>3, <1>4 DEF IInv, PlaceInv, OthersStay
<1>7. HeaderInv'
  BY <1>3, <1>4 DEF HeaderInv, Ended
<1>8. OutputInv' /\ ContentInv'
  BY <1>4 DEF OutputInv, ContentInv, Past, Decompressing
<1> QED
  BY <1>5, <1>6, <1>7, <1>8 DEF IInv

LEMMA ReportDecompressedKeeps ==
  ASSUME IInv, ReportDecompressed, UNCHANGED commands
  PROVE  IInv'
<1>1. /\ stdout' \in Seq(Byte) /\ lost' \in BOOLEAN
      /\ lost => lost'
      /\ Destination = Dash /\ ~job.json => UNCHANGED <<stdout, lost>>
  BY ReportEffect DEF IInv, TypeOK, ReportDecompressed
<1>2. HeaderIsValid(taken) /\ IsAccepted /\ output = Decoded
  BY DEF IInv, OutputInv, Past, ReportDecompressed, Decompressing
<1>3. /\ Destination' = Destination
      /\ HeaderIsValid(taken)' /\ Decoded' = Decoded /\ IsAccepted' = IsAccepted
  BY <1>2, DestinationStays, DecodedStays DEF ReportDecompressed, localVars, HeaderIsValid
<1>4. /\ IF Destination = Dash THEN step' = "idle" /\ status' = "succeeded"
                               ELSE step' = "closing" /\ status' = status
      /\ job' = job /\ job.command = "decompress" /\ step = "reporting"
      /\ UNCHANGED <<files, before, stdin, taken, trials, output, pending>>
  BY DEF ReportDecompressed, Goto, Exit, Decompressing, localVars
<1>5. TypeOK'
  BY <1>1, <1>4 DEF IInv, TypeOK
<1>6. PlaceInv'
  BY <1>3, <1>4 DEF IInv, PlaceInv
<1>7. HeaderInv'
  BY <1>3, <1>4 DEF HeaderInv, Ended
<1>8. OutputInv'
  BY <1>2, <1>3, <1>4 DEF OutputInv, Past
<1>9. ContentInv'
  BY <1>1, <1>3, <1>4 DEF IInv, ContentInv, Past, Decompressing
<1> QED
  BY <1>5, <1>6, <1>7, <1>8, <1>9 DEF IInv

LEMMA CloseOutputKeeps ==
  ASSUME IInv, CloseOutput, UNCHANGED commands
  PROVE  IInv'
<1>1. /\ <<>> \in Seq(Byte) /\ Len(<<>>) < FileBuffer
      /\ FilesOK /\ Destination \in DOMAIN files /\ Destination # Dash
      /\ pending \in Seq(Byte) /\ lost \in BOOLEAN
      /\ files[Destination] \o pending = output
      /\ HeaderIsValid(taken) /\ IsAccepted /\ output = Decoded
  BY DecodedFileFacts DEF CloseOutput, Decompressing, IInv, ContentInv, OutputInv, Past
<1>2. /\ FilesOK' /\ OthersStay /\ Destination \in DOMAIN files'
      /\ pending' = <<>> /\ lost' \in BOOLEAN
      /\ lost' \/ files'[Destination] = output
  BY <1>1, CloseEffect DEF CloseOutput
<1>3. /\ Destination' = Destination
      /\ HeaderIsValid(taken)' /\ Decoded' = Decoded /\ IsAccepted' = IsAccepted
  BY <1>1, DestinationStays, DecodedStays DEF CloseOutput, HeaderIsValid
<1>4. /\ step' = "idle" /\ status' = "succeeded"
      /\ job' = job /\ job.command = "decompress" /\ step = "closing"
      /\ UNCHANGED <<before, stdin, stdout, taken, trials, output>>
  BY DEF CloseOutput, Exit, Decompressing
<1>5. TypeOK'
  BY <1>1, <1>2, <1>4 DEF IInv, TypeOK, FilesOK
<1>6. PlaceInv'
  BY <1>2, <1>3, <1>4 DEF IInv, PlaceInv, OthersStay
<1>7. HeaderInv'
  BY <1>3, <1>4 DEF HeaderInv, Ended
<1>8. OutputInv'
  BY <1>1, <1>3, <1>4 DEF OutputInv, Past
<1>9. ContentInv'
  BY <1>1, <1>2, <1>3, <1>4 DEF ContentInv, Past, Decompressing
<1> QED
  BY <1>5, <1>6, <1>7, <1>8, <1>9 DEF IInv

-----------------------------------------------------------------------------
LEMMA InitSession ==
  ASSUME Init
  PROVE  IInv
<1>1. TypeOK
  <2>1. <<>> \in Seq(Byte) /\ Len(<<>>) < FileBuffer /\ 0 \in 0 .. MaxCommands
    BY CommandAssumption, SessionAssumption, EmptySeq
  <2> QED
    BY <2>1, SessionAssumption DEF Init, TypeOK
<1>2. PlaceInv /\ HeaderInv /\ OutputInv /\ ContentInv
  BY SessionAssumption DEF Init, PlaceInv, HeaderInv, Ended, OutputInv, ContentInv, Past, Decompressing
<1> QED
  BY <1>1, <1>2 DEF IInv

LEMMA CompressNextKeeps ==
  ASSUME CodecsYieldBytes, IInv, CompressNext, UNCHANGED commands
  PROVE  IInv'
BY ReadDataKeeps, CompressFailuresKeep, TryKeeps, CreateArchiveKeeps, PrintArchiveKeeps,
   WriteArchiveKeeps, WriteArchiveFailsKeeps, CloseArchiveKeeps, ReportCompressedKeeps
   DEF CompressNext

LEMMA DecompressNextKeeps ==
  ASSUME CodecsYieldBytes, IInv, DecompressNext, UNCHANGED commands
  PROVE  IInv'
BY OpenArchiveKeeps, DecompressFailuresKeep, ReadHeaderKeeps, CreateOutputKeeps,
   DecodeToFileKeeps, DecodeToFileFailsKeeps, DecodeToStdoutKeeps, DecodeToStdoutFailsKeeps,
   RemoveOutputKeeps, RemoveOutputFailsKeeps, ReportDecompressedKeeps, CloseOutputKeeps
   DEF DecompressNext

LEMMA NextSession ==
  ASSUME CodecsYieldBytes, IInv, [Next]_vars
  PROVE  IInv'
<1>1. CASE Start
  BY <1>1, StartKeeps
<1>2. CASE Command
  BY <1>2, CompressNextKeeps, DecompressNextKeeps, InspectKeeps, InspectFailsKeeps DEF Command
<1>3. CASE Kill /\ UNCHANGED commands
  BY <1>3, KillKeeps
<1>4. CASE UNCHANGED vars
  <2>1. UNCHANGED <<files, stdin, stdout, job, step, taken, trials, output, pending,
                    status, before, lost, commands>>
    BY <1>4 DEF vars, ioVars, localVars, historyVars
  <2>2. TypeOK'
    BY <2>1 DEF IInv, TypeOK
  <2>3. PlaceInv'
    BY <2>1, DestinationStays DEF IInv, PlaceInv
  <2>4. HeaderInv'
    BY <2>1, DestinationStays DEF IInv, HeaderInv, Ended, HeaderIsValid
  <2>5. OutputInv'
    <3>1. HeaderIsValid(taken)' = HeaderIsValid(taken)
      BY <2>1 DEF HeaderIsValid
    <3> QED
      BY <2>1, <3>1, DecodedStays DEF IInv, OutputInv, Past
  <2>6. ContentInv'
    BY <2>1, DestinationStays DEF IInv, ContentInv, Past, Decompressing
  <2> QED
    BY <2>2, <2>3, <2>4, <2>5, <2>6 DEF IInv
<1> QED
  BY <1>1, <1>2, <1>3, <1>4 DEF Next

THEOREM SessionInvariant == CodecsYieldBytes => (Spec => []IInv)
<1> SUFFICES ASSUME CodecsYieldBytes PROVE Spec => []IInv
  OBVIOUS
<1>1. Init => IInv
  BY InitSession
<1>2. IInv /\ [Next]_vars => IInv'
  BY NextSession
<1> QED
  BY <1>1, <1>2, PTL DEF Spec

-----------------------------------------------------------------------------
(***************************************************************************)
(* The properties.                                                         *)
(***************************************************************************)

\* Everything a session works on is bytes, and no file stream's buffer is ever
\* fuller than the library lets it be (main.cpp:192-415).
THEOREM SessionTyped == CodecsYieldBytes => (Spec => []TypeOK)
<1>1. IInv => TypeOK
  BY DEF IInv
<1> QED
  BY <1>1, SessionInvariant, PTL

\* Whatever a session does and however its commands end, a compress that reports
\* success has left the whole archive of what it read, as short as any it tried
\* (main.cpp:254-290).
THEOREM CompressIsWhole == CodecsYieldBytes => (Spec => []CompressWritesWhole)
<1>1. IInv => CompressWritesWhole
  <2> SUFFICES ASSUME IInv, Ended("compress", "succeeded"), ~lost, Destination = Dash => ~job.json
               PROVE  \E algo \in trials :
                        /\ Produced = Archive(algo, taken)
                        /\ \A other \in trials : Len(Produced) <= Len(Archive(other, taken))
    BY DEF CompressWritesWhole
  <2>1. Produced = output
    BY DEF IInv, ContentInv, Past, Ended, Produced
  <2> QED
    BY <2>1 DEF IInv, OutputInv, Past, Ended
<1> QED
  BY <1>1, SessionInvariant, PTL

\* A decompress that fails leaves no part of an output behind, also when the
\* decoder has already written some of it (main.cpp:400-408).
THEOREM NoOutputAfterFailure == CodecsYieldBytes => (Spec => []FailureLeavesNoOutput)
<1>1. IInv => FailureLeavesNoOutput
  BY DEF IInv, HeaderInv, FailureLeavesNoOutput
<1> QED
  BY <1>1, SessionInvariant, PTL

\* A decompress that has not seen a valid header has not changed any file
\* (main.cpp:352-382).
THEOREM NothingWithoutHeader == CodecsYieldBytes => (Spec => []InvalidHeaderTouchesNothing)
<1>1. IInv => InvalidHeaderTouchesNothing
  BY DEF IInv, HeaderInv, InvalidHeaderTouchesNothing
<1> QED
  BY <1>1, SessionInvariant, PTL

\* A suffix appended makes another path.
LEMMA LongerPathDiffers ==
  ASSUME NEW path \in Seq(STRING), NEW part \in STRING
  PROVE  Append(path, part) # path
<1> DEFINE longer == Append(path, part)
<1>1. Len(longer) = Len(path) + 1 /\ Len(path) \in Nat
  BY LenProperties, AppendProperties
<1> HIDE DEF longer
<1>2. longer # path
  BY <1>1
<1> QED
  BY <1>2 DEF longer

\* And so does one cut off.
LEMMA ShorterPathDiffers ==
  ASSUME NEW path \in Seq(STRING), path # <<>>
  PROVE  Front(path) # path
<1>1. Len(path) \in Nat /\ Len(path) >= 1
  BY LenProperties, EmptySeq
<1>2. Len(path) - 1 \in 0 .. Len(path)
  BY <1>1
<1>3. Len(Front(path)) = Len(path) - 1
  BY <1>2, FrontPart DEF Front
<1> QED
  BY <1>1, <1>3

\* Without -o no command, however it ends, changes the file it works on
\* (main.cpp:270, 364-368).
THEOREM TargetIsKept == CodecsYieldBytes => (Spec => []TargetSurvives)
<1>1. IInv => TargetSurvives
  <2> SUFFICES ASSUME IInv, job.output = NoValue, job.target \in DOMAIN before
               PROVE  job.target \in DOMAIN files /\ files[job.target] = before[job.target]
    BY DEF TargetSurvives
  <2>1. job.target # <<>> /\ job.target # Dash
    BY DEF IInv, PlaceInv
  <2>2. job.target \in Seq(STRING)
    <3>1. NoJob.target = <<>>
      BY DEF NoJob
    <3>2. job \in Jobs
      BY <2>1, <3>1 DEF IInv, TypeOK
    <3> QED
      BY <3>2, SessionAssumption
  <2>3. Append(job.target, "lac") # job.target /\ Append(job.target, "decompressed") # job.target
    BY <2>2, LongerPathDiffers
  <2>4. Front(job.target) # job.target
    BY <2>1, <2>2, ShorterPathDiffers
  <2>5. Destination # job.target
    BY <2>1, <2>3, <2>4 DEF Destination, CompressDestination, DecompressDestination
  <2> QED
    BY <2>5 DEF IInv, PlaceInv
<1> QED
  BY <1>1, SessionInvariant, PTL

\* What read_header and the decoder accept of a front part of an archive is the
\* whole archive, and the decoder has restored the source.
LEMMA AcceptedIsWhole ==
  ASSUME CodecsYieldBytes, NEW algo \in Algorithms, NEW data \in Sources,
         taken \in Seq(Byte), IsPrefix(taken, Archive(algo, data)),
         HeaderIsValid(taken), IsAccepted
  PROVE  taken = Archive(algo, data) /\ Decoded = data
<1> DEFINE payload == Payload(algo, data)
           archive == Archive(algo, data)
           cut == IF job.target # Dash /\ Destination = job.target /\ Len(taken) > FileBuffer
                    THEN SubSeq(taken, 1, FileBuffer)
                    ELSE taken
           n == IF Len(cut) >= HeaderLength THEN Len(cut) - HeaderLength ELSE 0
<1>1. /\ payload \in Seq(Byte) /\ Len(payload) \in Nat
      /\ Len(data) \in Size /\ Len(data) \in Nat
  BY CommandAssumption, LenProperties DEF CodecsYieldBytes
<1>2. /\ archive \in Seq(Byte) /\ HeaderLength \in Nat
      /\ Len(archive) = HeaderLength + Len(payload)
  <2>1. WriteHeader(algo, Len(data)) \in Seq(Byte) /\ HeaderLength \in Nat
        /\ Len(WriteHeader(algo, Len(data))) = HeaderLength
    BY <1>1, WriteHeaderFields
  <2>2. /\ WriteHeader(algo, Len(data)) \o payload \in Seq(Byte)
        /\ Len(WriteHeader(algo, Len(data)) \o payload)
             = Len(WriteHeader(algo, Len(data))) + Len(payload)
    BY <1>1, <2>1, Joined
  <2> QED
    BY <2>1, <2>2 DEF Archive
<1>3. /\ Len(taken) \in Nat /\ Len(taken) >= HeaderLength /\ Len(taken) <= Len(archive)
  BY LenProperties DEF IsPrefix, HeaderIsValid
<1>3a. taken = SubSeq(archive, 1, Len(taken)) /\ IsPrefix(taken, archive)
  <2>1. SubSeq(taken, 1, Len(taken)) = taken
    BY SubSeqFull
  <2> QED
    BY <2>1 DEF IsPrefix
<1>4. AlgorithmId(taken) = algo /\ OriginalSize(taken) = Len(data)
  BY <1>1, <1>3, HeaderIsReadBack DEF Archive
<1>5. /\ cut \in Seq(Byte) /\ Len(cut) \in Nat /\ Len(cut) <= Len(taken)
      /\ IsPrefix(cut, archive)
  <2>1. CASE cut = taken
    <3> HIDE DEF cut, archive
    <3> QED
      BY <1>3, <1>3a, <2>1
  <2>2. CASE cut = SubSeq(taken, 1, FileBuffer) /\ Len(taken) > FileBuffer
    <3> HIDE DEF cut, archive
    <3>1. FileBuffer \in 0 .. Len(taken) /\ FileBuffer \in 0 .. Len(archive)
          /\ Len(archive) \in Nat
      BY <1>1, <1>2, <1>3, <2>2, CommandAssumption
    <3>2. /\ cut \in Seq(Byte) /\ Len(cut) = FileBuffer
          /\ \A k \in 1 .. FileBuffer : cut[k] = taken[k]
      BY <2>2, <3>1, FrontPart
    <3>3. /\ SubSeq(archive, 1, FileBuffer) \in Seq(Byte)
          /\ Len(SubSeq(archive, 1, FileBuffer)) = FileBuffer
          /\ \A k \in 1 .. FileBuffer : SubSeq(archive, 1, FileBuffer)[k] = archive[k]
      BY <1>2, <3>1, FrontPart
    <3>4. \A k \in 1 .. Len(taken) : taken[k] = archive[k]
      BY <1>2, <1>3a, PrefixElements
    <3>5. \A k \in 1 .. FileBuffer : cut[k] = SubSeq(archive, 1, FileBuffer)[k]
      BY <1>3, <3>1, <3>2, <3>3, <3>4
    <3>6. cut = SubSeq(archive, 1, FileBuffer)
      BY <3>2, <3>3, <3>5, SeqEqual
    <3>7. SubSeq(cut, 1, Len(cut)) = cut
      BY <3>2, SubSeqFull
    <3>8. IsPrefix(cut, archive)
      BY <3>1, <3>2, <3>6, <3>7 DEF IsPrefix
    <3> QED
      BY <1>3, <3>1, <3>2, <3>8
  <2> QED
    BY <2>1, <2>2
<1>6. n \in 0 .. Len(payload) /\ Stream = SubSeq(payload, 1, n)
  <2>1. Stream = AfterHeader(cut)
    BY DEF Stream
  <2> HIDE DEF cut
  <2>2. CASE Len(cut) >= HeaderLength
    <3>1. AfterHeader(cut) = SubSeq(payload, 1, Len(cut) - HeaderLength)
      BY <1>1, <1>5, <2>2, HeaderIsReadBack DEF Archive
    <3> QED
      BY <1>1, <1>2, <1>3, <1>5, <2>1, <2>2, <3>1
  <2>3. CASE ~(Len(cut) >= HeaderLength)
    <3>1. AfterHeader(cut) = <<>>
      BY <1>2, <1>5, <2>3, SubSeqEmpty DEF AfterHeader
    <3>2. SubSeq(payload, 1, 0) = <<>>
      BY SubSeqEmpty
    <3> QED
      BY <1>1, <2>1, <2>3, <3>1, <3>2
  <2> QED
    BY <2>2, <2>3
<1> HIDE DEF cut
<1>7. n = Len(payload)
  <2>1. Accepts(algo, SubSeq(payload, 1, n), Len(data))
    BY <1>4, <1>6 DEF IsAccepted
  <2> HIDE DEF n
  <2>2. \A k \in 0 .. Len(payload) - 1 : ~Accepts(algo, SubSeq(payload, 1, k), Len(data))
    BY CodecAssumption
  <2> QED
    BY <1>1, <1>6, <2>1, <2>2
<1>8. taken = archive
  <2> HIDE DEF archive, payload
  <2>1. Len(taken) = Len(archive)
    <3>1. CASE Len(cut) >= HeaderLength
      <4>1. Len(cut) - HeaderLength = Len(payload)
        BY <1>7, <3>1
      <4> HIDE DEF n
      <4> QED
        BY <1>1, <1>2, <1>3, <1>5, <4>1
    <3>2. CASE ~(Len(cut) >= HeaderLength)
      <4>1. Len(payload) = 0
        BY <1>7, <3>2
      <4> HIDE DEF n
      <4> QED
        BY <1>2, <1>3, <4>1
    <3> QED
      BY <3>1, <3>2
  <2> QED
    BY <1>2, <1>3a, <2>1, SubSeqFull
<1>9. Decoded = data
  <2>1. Stream = payload
    BY <1>1, <1>6, <1>7, SubSeqFull
  <2> QED
    BY <1>4, <2>1, CodecAssumption DEF Decoded
<1> QED
  BY <1>8, <1>9

\* What a killed compress, a full disk or a broken pipe left of an archive is
\* never taken for one (main.cpp:352, 400).
THEOREM NoPartIsTaken == CodecsYieldBytes => (Spec => []PartialArchiveRefused)
<1> SUFFICES ASSUME CodecsYieldBytes PROVE Spec => []PartialArchiveRefused
  OBVIOUS
<1>1. IInv => PartialArchiveRefused
  <2> SUFFICES ASSUME IInv, Ended("decompress", "succeeded"), NEW data \in Sources,
                      NEW archive \in Archives[data], IsPrefix(taken, archive)
               PROVE  taken = archive
    BY DEF PartialArchiveRefused
  <2>1. PICK algo \in Algorithms : archive = Archive(algo, data)
    BY DEF Archives
  <2>2. HeaderIsValid(taken) /\ IsAccepted /\ taken \in Seq(Byte)
    BY DEF IInv, TypeOK, OutputInv, Past, Ended
  <2> QED
    BY <2>1, <2>2, AcceptedIsWhole
<1>2. Spec => []IInv
  BY SessionInvariant
<1> QED
  BY <1>1, <1>2, PTL

\* A decompress of an archive that reports success has restored the source, also
\* from a pipe, and never from an archive it emptied while reading it
\* (main.cpp:338-415).
THEOREM SourceIsRestored == CodecsYieldBytes => (Spec => []DecompressRestores)
<1> SUFFICES ASSUME CodecsYieldBytes PROVE Spec => []DecompressRestores
  OBVIOUS
<1>1. IInv => DecompressRestores
  <2> SUFFICES ASSUME IInv, Ended("decompress", "succeeded"), ~lost,
                      Destination = Dash => ~job.json,
                      NEW data \in Sources, taken \in Archives[data]
               PROVE  Produced = data
    BY DEF DecompressRestores
  <2>1. PICK algo \in Algorithms : taken = Archive(algo, data)
    BY DEF Archives
  <2>2. HeaderIsValid(taken) /\ IsAccepted /\ output = Decoded /\ taken \in Seq(Byte)
    BY DEF IInv, TypeOK, OutputInv, Past, Ended
  <2>3. IsPrefix(taken, Archive(algo, data))
    BY <2>1, <2>2, LenProperties DEF IsPrefix
  <2>4. Decoded = data
    BY <2>2, <2>3, AcceptedIsWhole
  <2>5. Produced = output
    BY DEF IInv, ContentInv, Past, Ended, Produced
  <2> QED
    BY <2>2, <2>4, <2>5
<1>2. Spec => []IInv
  BY SessionInvariant
<1> QED
  BY <1>1, <1>2, PTL
=============================================================================
