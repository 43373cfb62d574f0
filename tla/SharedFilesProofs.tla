--------------------------- MODULE SharedFilesProofs ---------------------------
(***************************************************************************)
(* Proofs about SharedFiles, for any number of commands on any files, any  *)
(* pieces in which they are read and written, and any codecs that keep the *)
(* promises of SharedFilesInv.                                             *)
(***************************************************************************)
EXTENDS SharedFilesInv, LacHeaderProofs

-----------------------------------------------------------------------------
(***************************************************************************)
(* Bytes.                                                                  *)
(***************************************************************************)
LEMMA SmallerOfTwo ==
  ASSUME NEW a \in Int, NEW b \in Int
  PROVE  Min({a, b}) = IF a <= b THEN a ELSE b
<1> DEFINE m == IF a <= b THEN a ELSE b
<1>1. m \in {a, b} /\ \A y \in {a, b} : m <= y
  OBVIOUS
<1>2. \A x \in {a, b} : (\A y \in {a, b} : x <= y) => x = m
  OBVIOUS
<1> HIDE DEF m
<1>3. Min({a, b}) = m
  BY <1>1, <1>2 DEF Min
<1> QED
  BY <1>3 DEF m

LEMMA LargerOfTwo ==
  ASSUME NEW a \in Int, NEW b \in Int
  PROVE  Max({a, b}) = IF a >= b THEN a ELSE b
<1> DEFINE m == IF a >= b THEN a ELSE b
<1>1. m \in {a, b} /\ \A y \in {a, b} : m >= y
  OBVIOUS
<1>2. \A x \in {a, b} : (\A y \in {a, b} : x >= y) => x = m
  OBVIOUS
<1> HIDE DEF m
<1>3. Max({a, b}) = m
  BY <1>1, <1>2 DEF Max
<1> QED
  BY <1>3 DEF m

\* What is read or written at once: bytes from a position on, and how many.
LEMMA SliceFacts ==
  ASSUME NEW bytes \in Seq(Byte), NEW from \in Nat, NEW n \in Nat \ {0}
  PROVE  LET slice == Slice(bytes, from + 1, n)
         IN  /\ slice \in Seq(Byte)
             /\ from <= Len(bytes) => from + Len(slice) <= Len(bytes)
             /\ from < Len(bytes) => Len(slice) >= 1
             /\ from >= Len(bytes) => slice = <<>>
             /\ \A k \in 1 .. Len(slice) : slice[k] = bytes[from + k]
<1> DEFINE end == Min({from + 1 + n - 1, Len(bytes)})
           slice == SubSeq(bytes, from + 1, end)
<1>1. Len(bytes) \in Nat /\ \A k \in 1 .. Len(bytes) : bytes[k] \in Byte
  BY LenProperties, ElementOfSeq
<1>2. end = IF from + 1 + n - 1 <= Len(bytes) THEN from + 1 + n - 1 ELSE Len(bytes)
  BY <1>1, SmallerOfTwo
<1> HIDE DEF end
<1>3. end \in Int /\ end <= Len(bytes)
  BY <1>1, <1>2
<1>4. \A k \in from + 1 .. end : bytes[k] \in Byte
  BY <1>1, <1>3
<1>5. /\ slice \in Seq(Byte)
      /\ Len(slice) = IF from + 1 <= end THEN end - (from + 1) + 1 ELSE 0
      /\ \A k \in 1 .. end - (from + 1) + 1 : slice[k] = bytes[(from + 1) + k - 1]
  BY <1>3, <1>4, SubSeqProperties
<1>6. from >= Len(bytes) => slice = <<>>
  BY <1>1, <1>3, SubSeqEmpty
<1> HIDE DEF slice
<1>7. /\ from <= Len(bytes) => from + Len(slice) <= Len(bytes)
      /\ from < Len(bytes) => Len(slice) >= 1
  BY <1>1, <1>2, <1>3, <1>5
<1>8. \A k \in 1 .. Len(slice) :
        k \in 1 .. end - (from + 1) + 1 /\ (from + 1) + k - 1 = from + k
  BY <1>3, <1>5
<1>9. Slice(bytes, from + 1, n) = slice
  BY DEF Slice, slice, end
<1> QED
  BY <1>5, <1>6, <1>7, <1>8, <1>9

\* Writing at an offset that is not behind the end.
LEMMA OverwrittenFacts ==
  ASSUME NEW old \in Seq(Byte), NEW offset \in Nat, NEW bytes \in Seq(Byte)
  PROVE  LET new == Overwritten(old, offset, bytes)
         IN  /\ new \in Seq(Byte)
             /\ Len(new) = IF Len(old) >= offset + Len(bytes) THEN Len(old) ELSE offset + Len(bytes)
             /\ \A k \in 1 .. Len(new) :
                  new[k] = IF k \in offset + 1 .. offset + Len(bytes) THEN bytes[k - offset]
                           ELSE IF k \in 1 .. Len(old) THEN old[k] ELSE 0
<1> DEFINE size == Max({Len(old), offset + Len(bytes)})
           Value(k) == IF k \in offset + 1 .. offset + Len(bytes) THEN bytes[k - offset]
                       ELSE IF k \in 1 .. Len(old) THEN old[k] ELSE 0
           new == [k \in 1 .. size |-> Value(k)]
<1>1. /\ Len(old) \in Nat /\ Len(bytes) \in Nat /\ DOMAIN old = 1 .. Len(old)
      /\ \A k \in 1 .. Len(old) : old[k] \in Byte
      /\ \A k \in 1 .. Len(bytes) : bytes[k] \in Byte
  BY LenProperties, ElementOfSeq
<1>2. size = IF Len(old) >= offset + Len(bytes) THEN Len(old) ELSE offset + Len(bytes)
  BY <1>1, LargerOfTwo
<1> HIDE DEF size
<1>3. size \in Nat
  BY <1>1, <1>2
<1>4. 0 \in Byte
  BY ByteStreamAssumption DEF Byte
<1>5. \A k \in offset + 1 .. offset + Len(bytes) : k - offset \in 1 .. Len(bytes)
  BY <1>1
<1>6. \A k \in 1 .. size : Value(k) \in Byte
  BY <1>1, <1>4, <1>5
<1> HIDE DEF Value
<1>7. new \in [1 .. size -> Byte]
  BY <1>6
<1>8. new \in Seq(Byte) /\ Len(new) = size
  BY <1>3, <1>7, SeqDef, LenProperties
<1>9. \A k \in 1 .. size : new[k] = Value(k)
  OBVIOUS
<1>10. Overwritten(old, offset, bytes) = new
  BY <1>1 DEF Overwritten, new, Value, size
<1> QED
  BY <1>2, <1>8, <1>9, <1>10 DEF Value

LEMMA PointwisePrefix ==
  ASSUME NEW s \in Seq(Byte), NEW t \in Seq(Byte), Len(s) <= Len(t),
         \A k \in 1 .. Len(s) : s[k] = t[k]
  PROVE  IsPrefix(s, t)
<1>1. Len(s) \in Nat /\ Len(t) \in Nat /\ Len(s) \in 0 .. Len(t) /\ Len(s) \in 0 .. Len(s)
  BY LenProperties
<1>2. /\ SubSeq(s, 1, Len(s)) \in Seq(Byte) /\ SubSeq(t, 1, Len(s)) \in Seq(Byte)
      /\ Len(SubSeq(s, 1, Len(s))) = Len(s) /\ Len(SubSeq(t, 1, Len(s))) = Len(s)
      /\ \A k \in 1 .. Len(s) : SubSeq(s, 1, Len(s))[k] = s[k] /\ SubSeq(t, 1, Len(s))[k] = t[k]
  BY <1>1, FrontPart
<1>3. SubSeq(s, 1, Len(s)) = SubSeq(t, 1, Len(s))
  BY <1>2, SeqEqual
<1> QED
  BY <1>3 DEF IsPrefix

\* The next piece of what has to be written, behind what is there.
LEMMA PieceAppended ==
  ASSUME NEW whole \in Seq(Byte), NEW n \in 0 .. Len(whole), NEW size \in Nat \ {0}
  PROVE  LET bytes == Slice(whole, n + 1, size)
         IN  Overwritten(SubSeq(whole, 1, n), n, bytes) = SubSeq(whole, 1, n + Len(bytes))
<1> DEFINE bytes == Slice(whole, n + 1, size)
           old == SubSeq(whole, 1, n)
           new == Overwritten(old, n, bytes)
           front == SubSeq(whole, 1, n + Len(bytes))
<1>1. Len(whole) \in Nat /\ n \in Nat /\ n <= Len(whole)
  BY LenProperties
<1>2. /\ bytes \in Seq(Byte) /\ Len(bytes) \in Nat /\ n + Len(bytes) <= Len(whole)
      /\ \A k \in 1 .. Len(bytes) : bytes[k] = whole[n + k]
  BY <1>1, SliceFacts, LenProperties
<1> HIDE DEF bytes
<1>3. old \in Seq(Byte) /\ Len(old) = n /\ \A k \in 1 .. n : old[k] = whole[k]
  BY FrontPart
<1> HIDE DEF old
<1>4. /\ new \in Seq(Byte)
      /\ Len(new) = IF Len(old) >= n + Len(bytes) THEN Len(old) ELSE n + Len(bytes)
      /\ \A k \in 1 .. Len(new) :
           new[k] = IF k \in n + 1 .. n + Len(bytes) THEN bytes[k - n]
                    ELSE IF k \in 1 .. Len(old) THEN old[k] ELSE 0
  BY <1>1, <1>2, <1>3, OverwrittenFacts
<1> HIDE DEF new
<1>5. Len(new) = n + Len(bytes)
  BY <1>1, <1>2, <1>3, <1>4
<1>6. n + Len(bytes) \in 0 .. Len(whole)
  BY <1>1, <1>2
<1>7. /\ front \in Seq(Byte) /\ Len(front) = n + Len(bytes)
      /\ \A k \in 1 .. n + Len(bytes) : front[k] = whole[k]
  BY <1>6, FrontPart
<1> HIDE DEF front
<1>8. \A k \in 1 .. n + Len(bytes) : new[k] = whole[k]
  <2> TAKE k \in 1 .. n + Len(bytes)
  <2>1. CASE k <= n
    <3>1. k \in 1 .. n /\ ~(k \in n + 1 .. n + Len(bytes))
      BY <1>1, <1>2, <2>1
    <3> QED
      BY <1>3, <1>4, <1>5, <3>1
  <2>2. CASE ~(k <= n)
    <3>1. k \in n + 1 .. n + Len(bytes) /\ k - n \in 1 .. Len(bytes) /\ n + (k - n) = k
      BY <1>1, <1>2, <2>2
    <3> QED
      BY <1>2, <1>4, <1>5, <3>1
  <2> QED
    BY <2>1, <2>2
<1>9. new = front
  BY <1>4, <1>5, <1>7, <1>8, SeqEqual
<1> QED
  BY <1>9 DEF new, old, front, bytes

\* The front parts of a sequence and of a longer one it begins.
LEMMA SameFront ==
  ASSUME NEW s \in Seq(Byte), NEW t \in Seq(Byte), IsPrefix(s, t), NEW n \in 0 .. Len(s)
  PROVE  n \in 0 .. Len(t) /\ SubSeq(s, 1, n) = SubSeq(t, 1, n)
<1>1. Len(s) \in Nat /\ Len(t) \in Nat /\ Len(s) <= Len(t) /\ \A k \in 1 .. Len(s) : s[k] = t[k]
  BY LenProperties, PrefixElements
<1>2. n \in 0 .. Len(t) /\ \A k \in 1 .. n : k \in 1 .. Len(s)
  BY <1>1
<1>3. /\ SubSeq(s, 1, n) \in Seq(Byte) /\ SubSeq(t, 1, n) \in Seq(Byte)
      /\ Len(SubSeq(s, 1, n)) = n /\ Len(SubSeq(t, 1, n)) = n
      /\ \A k \in 1 .. n : SubSeq(s, 1, n)[k] = s[k] /\ SubSeq(t, 1, n)[k] = t[k]
  BY <1>2, FrontPart
<1>4. \A k \in 1 .. n : SubSeq(s, 1, n)[k] = SubSeq(t, 1, n)[k]
  BY <1>1, <1>2, <1>3
<1>5. SubSeq(s, 1, n) = SubSeq(t, 1, n)
  BY <1>3, <1>4, SeqEqual
<1> QED
  BY <1>2, <1>5

LEMMA PrefixOfPrefix ==
  ASSUME NEW s \in Seq(Byte), NEW t \in Seq(Byte), NEW u \in Seq(Byte),
         IsPrefix(s, t), IsPrefix(t, u)
  PROVE  IsPrefix(s, u)
<1>1. /\ Len(s) \in Nat /\ Len(t) \in Nat /\ Len(u) \in Nat
      /\ Len(s) <= Len(t) /\ \A k \in 1 .. Len(s) : s[k] = t[k]
      /\ Len(t) <= Len(u) /\ \A k \in 1 .. Len(t) : t[k] = u[k]
  BY LenProperties, PrefixElements
<1>2. Len(s) <= Len(u) /\ \A k \in 1 .. Len(s) : k \in 1 .. Len(t)
  BY <1>1
<1>3. \A k \in 1 .. Len(s) : s[k] = u[k]
  BY <1>1, <1>2
<1> QED
  BY <1>2, <1>3, PointwisePrefix

LEMMA FrontIsPrefix ==
  ASSUME NEW s \in Seq(Byte), NEW m \in 0 .. Len(s), NEW n \in 0 .. m
  PROVE  IsPrefix(SubSeq(s, 1, n), SubSeq(s, 1, m)) /\ IsPrefix(SubSeq(s, 1, m), s)
<1>1. Len(s) \in Nat /\ m \in Nat /\ n \in 0 .. Len(s) /\ n <= m /\ m <= Len(s)
  BY LenProperties
<1>2. /\ SubSeq(s, 1, n) \in Seq(Byte) /\ SubSeq(s, 1, m) \in Seq(Byte)
      /\ Len(SubSeq(s, 1, n)) = n /\ Len(SubSeq(s, 1, m)) = m
      /\ \A k \in 1 .. n : SubSeq(s, 1, n)[k] = s[k]
      /\ \A k \in 1 .. m : SubSeq(s, 1, m)[k] = s[k]
  BY <1>1, FrontPart
<1>3. \A k \in 1 .. n : k \in 1 .. m
  BY <1>1
<1>4. \A k \in 1 .. n : SubSeq(s, 1, n)[k] = SubSeq(s, 1, m)[k]
  BY <1>2, <1>3
<1> QED
  BY <1>1, <1>2, <1>4, PointwisePrefix

\* Who has read the front part of something and reads on still has one.
LEMMA ReadsOn ==
  ASSUME NEW read \in Seq(Byte), NEW bytes \in Seq(Byte), IsPrefix(read, bytes),
         NEW n \in Nat \ {0}
  PROVE  IsPrefix(read \o Slice(bytes, Len(read) + 1, n), bytes)
<1> DEFINE slice == Slice(bytes, Len(read) + 1, n)
           more == read \o slice
<1>1. /\ Len(read) \in Nat /\ Len(bytes) \in Nat /\ Len(read) <= Len(bytes)
      /\ \A k \in 1 .. Len(read) : read[k] = bytes[k]
  BY LenProperties, PrefixElements
<1>2. /\ slice \in Seq(Byte) /\ Len(read) + Len(slice) <= Len(bytes)
      /\ \A k \in 1 .. Len(slice) : slice[k] = bytes[Len(read) + k]
  BY <1>1, SliceFacts
<1> HIDE DEF slice
<1>3. /\ more \in Seq(Byte) /\ Len(slice) \in Nat /\ Len(more) = Len(read) + Len(slice)
      /\ \A k \in 1 .. Len(read) : more[k] = read[k]
      /\ \A k \in 1 .. Len(slice) : more[Len(read) + k] = slice[k]
  BY <1>2, Joined
<1> HIDE DEF more
<1>4. \A k \in 1 .. Len(more) : more[k] = bytes[k]
  <2> TAKE k \in 1 .. Len(more)
  <2>1. CASE k <= Len(read)
    BY <1>1, <1>3, <2>1
  <2>2. CASE ~(k <= Len(read))
    <3>1. k - Len(read) \in 1 .. Len(slice) /\ Len(read) + (k - Len(read)) = k
      BY <1>1, <1>3, <2>2
    <3> QED
      BY <1>2, <1>3, <3>1
  <2> QED
    BY <2>1, <2>2
<1>5. IsPrefix(more, bytes)
  BY <1>2, <1>3, <1>4, PointwisePrefix
<1> QED
  BY <1>5 DEF more, slice

-----------------------------------------------------------------------------
(***************************************************************************)
(* What a command produces.                                                *)
(***************************************************************************)
LEMMA ProducedType ==
  ASSUME CodecsRestore, StateInv, NEW p \in Process, Compresses(p) \/ HeaderIsValid(got[p])
  PROVE  Produced(p) \in Seq(Byte)
<1>1. got[p] \in Seq(Byte) /\ Len(got[p]) \in Nat
  BY LenProperties DEF StateInv
<1>2. CASE Compresses(p)
  <2>1. job[p].algorithm \in Algorithms
    BY SharedFilesAssumption DEF StateInv
  <2>2. WriteHeader(job[p].algorithm, Declared(p)) \in Seq(Byte)
    BY <1>1, <2>1, WriteHeaderFields DEF Declared
  <2>3. Payload(job[p].algorithm, got[p]) \in Seq(Byte)
    BY <1>1, <2>1 DEF CodecsRestore, DecodesOnwards
  <2> QED
    BY <1>2, <2>2, <2>3, ConcatProperties DEF Produced
<1>3. CASE ~Compresses(p)
  <2>1. AlgorithmId(got[p]) \in Algorithms
    BY <1>3 DEF HeaderIsValid, AlgorithmId
  <2>2. Stream(p) \in Seq(Byte)
    BY <1>1, AfterHeaderType DEF Stream
  <2> QED
    BY <1>1, <1>3, <2>1, <2>2 DEF Produced, CodecsRestore, DecodesOnwards
<1> QED
  BY <1>2, <1>3

\* Who reads nothing in a step produces the same.
LEMMA ViewStays ==
  ASSUME NEW p \in Process, UNCHANGED job, got'[p] = got[p]
  PROVE  /\ Compresses(p)' <=> Compresses(p)
         /\ Produced(p)' = Produced(p)
         /\ HeaderIsValid(got[p])' <=> HeaderIsValid(got[p])
         /\ ended'[p] = ended[p] => Decision(p)' = Decision(p)
BY DEF Compresses, Produced, Declared, Stream, Decision

\* Where nothing of a command's own changes, it stays as it is.
LEMMA InStepStays ==
  ASSUME NEW p \in Process, InStep(p), UNCHANGED job,
         step'[p] = step[p], input'[p] = input[p], output'[p] = output[p],
         got'[p] = got[p], ended'[p] = ended[p], put'[p] = put[p],
         p \in trouble' <=> p \in trouble
  PROVE  InStep(p)'
BY ViewStays DEF InStep, Well

-----------------------------------------------------------------------------
(***************************************************************************)
(* Steps that read, write and create nothing.                              *)
(***************************************************************************)
QuietStep(p) ==
  /\ UNCHANGED <<content, writers, history, input, output, got, put, edits>>
  /\ dir' \in [DOMAIN dir' -> Inode] /\ DOMAIN dir' \subseteq DOMAIN dir
  /\ \A name \in DOMAIN dir' : dir'[name] = dir[name]
  /\ step' \in [Process -> Steps] /\ ended' \in [Process -> BOOLEAN] /\ trouble' \subseteq Process
  /\ \A q \in Process \ {p} :
       step'[q] = step[q] /\ ended'[q] = ended[q] /\ (q \in trouble' <=> q \in trouble)

LEMMA QuietKeeps ==
  ASSUME IInv, NEW p \in Process, QuietStep(p), InStep(p)'
  PROVE  IInv'
<1> USE DEF QuietStep, history
<1>1. StateInv'
  BY DEF IInv, StateInv, IsInjective
<1>2. StepInv'
  <2>1. \A q \in Process \ {p} : InStep(q)'
    BY InStepStays DEF IInv, StepInv
  <2> QED
    BY <2>1 DEF StepInv
<1>3. WriterInv'
  BY DEF IInv, WriterInv
<1>4. \A q \in Process : Produced(q)' = Produced(q) /\ (Compresses(q)' <=> Compresses(q))
  BY ViewStays
<1>5. OwnInv'
  BY <1>4 DEF IInv, OwnInv
<1>6. AlikeInv'
  <2> SUFFICES ASSUME NEW i \in Inode, writers[i] # {}, Alike(i)'
               PROVE  (/\ \A q \in writers[i] : Len(content[i]) <= Len(Produced(q))
                       /\ \E q \in writers[i] :
                            /\ put[q] <= Len(content[i])
                            /\ \A k \in 1 .. put[q] : content[i][k] = Produced(q)[k])'
    BY DEF AlikeInv
  <2>1. writers[i] \subseteq Process
    BY DEF Alike
  <2>2. Alike(i)
    BY <1>4, <2>1 DEF Alike
  <2> QED
    BY <1>4, <2>1, <2>2 DEF IInv, AlikeInv
<1>7. FreshInv'
  BY <1>4 DEF IInv, FreshInv, Fresh
<1> QED
  BY <1>1, <1>2, <1>3, <1>5, <1>6, <1>7 DEF IInv

LEMMA OpenInputFailsKeeps ==
  ASSUME IInv, NEW p \in Process, OpenInputFails(p)
  PROVE  IInv'
<1>1. QuietStep(p)
  BY DEF IInv, StateInv, OpenInputFails, QuietStep, Goto, Steps, Over, fileVars, history
<1>2. InStep(p)'
  BY ViewStays DEF IInv, StateInv, StepInv, InStep, OpenInputFails, Goto, Well, fileVars, history
<1> QED
  BY <1>1, <1>2, QuietKeeps

LEMMA ReadFailsKeeps ==
  ASSUME IInv, NEW p \in Process, ReadFails(p)
  PROVE  IInv'
<1>1. QuietStep(p)
  BY DEF IInv, StateInv, ReadFails, QuietStep, Goto, Steps, Over, fileVars, history
<1>2. InStep(p)'
  BY ViewStays DEF IInv, StateInv, StepInv, InStep, ReadFails, WantsInput, Goto, Well, fileVars, history
<1> QED
  BY <1>1, <1>2, QuietKeeps

LEMMA RejectHeaderKeeps ==
  ASSUME IInv, NEW p \in Process, RejectHeader(p)
  PROVE  IInv'
<1>1. QuietStep(p)
  BY DEF IInv, StateInv, RejectHeader, QuietStep, Goto, Steps, Over, fileVars, history
<1>2. InStep(p)'
  BY ViewStays DEF IInv, StateInv, StepInv, InStep, RejectHeader, Goto, Well, fileVars, history
<1> QED
  BY <1>1, <1>2, QuietKeeps

LEMMA CreateFailsKeeps ==
  ASSUME IInv, NEW p \in Process, CreateFails(p)
  PROVE  IInv'
<1>1. QuietStep(p)
  BY DEF IInv, StateInv, CreateFails, ReadyToCreate, QuietStep, Goto, Steps, Over, fileVars, history
<1>2. InStep(p)'
  BY ViewStays DEF IInv, StateInv, StepInv, InStep, CreateFails, ReadyToCreate, Goto, Well,
                   fileVars, history
<1> QED
  BY <1>1, <1>2, QuietKeeps

LEMMA WriteFailsKeeps ==
  ASSUME IInv, NEW p \in Process, WriteFails(p)
  PROVE  IInv'
<1>1. QuietStep(p)
  BY DEF IInv, StateInv, WriteFails, WantsToWrite, QuietStep, Goto, Steps, Over, fileVars, history
<1>2. InStep(p)'
  BY ViewStays DEF IInv, StateInv, StepInv, InStep, WriteFails, WantsToWrite, Goto, Well,
                   fileVars, history
<1> QED
  BY <1>1, <1>2, QuietKeeps

LEMMA DecideKeeps ==
  ASSUME IInv, NEW p \in Process, Decide(p)
  PROVE  IInv'
<1>1. QuietStep(p)
  BY DEF IInv, StateInv, Decide, QuietStep, Goto, Steps, Over, fileVars, history
<1>2. InStep(p)'
  BY ViewStays DEF IInv, StateInv, StepInv, InStep, Decide, Goto, Well, fileVars, history
<1> QED
  BY <1>1, <1>2, QuietKeeps

LEMMA SucceedKeeps ==
  ASSUME CodecsRestore, IInv, NEW p \in Process, Succeed(p)
  PROVE  IInv'
<1>1. QuietStep(p)
  BY DEF IInv, StateInv, Succeed, QuietStep, Goto, Steps, Over, fileVars, history
<1>2. put[p] = Len(Produced(p))
  <2>1. Compresses(p) \/ HeaderIsValid(got[p])
    BY DEF IInv, StepInv, InStep, Succeed
  <2>2. Len(Produced(p)) \in Nat /\ put[p] \in Nat
    BY <2>1, ProducedType, LenProperties DEF IInv, StateInv
  <2> QED
    BY <2>2 DEF Succeed, Pending
<1>3. InStep(p)'
  BY <1>2, ViewStays DEF IInv, StateInv, StepInv, InStep, Succeed, Goto, Well, fileVars, history
<1> QED
  BY <1>1, <1>3, QuietKeeps

LEMMA RemoveOutputKeeps ==
  ASSUME IInv, NEW p \in Process, RemoveOutput(p)
  PROVE  IInv'
<1>1. QuietStep(p)
  BY DEF IInv, StateInv, RemoveOutput, QuietStep, Goto, Steps, Over, history, Restrict
<1>2. InStep(p)'
  BY ViewStays DEF IInv, StateInv, StepInv, InStep, RemoveOutput, Goto, Well, history
<1> QED
  BY <1>1, <1>2, QuietKeeps

LEMMA KillKeeps ==
  ASSUME IInv, NEW p \in Process, Kill(p)
  PROVE  IInv'
<1>1. QuietStep(p)
  BY DEF IInv, StateInv, Kill, QuietStep, Goto, Steps, Over, fileVars, history
<1>2. InStep(p)'
  BY ViewStays DEF IInv, StateInv, StepInv, InStep, Kill, Goto, Well, Over, fileVars, history
<1> QED
  BY <1>1, <1>2, QuietKeeps

-----------------------------------------------------------------------------
(***************************************************************************)
(* Steps that read.                                                        *)
(***************************************************************************)
\* What a step must do to AlikeInv that leaves the inodes as they are.
LEMMA AlikeStays ==
  ASSUME AlikeInv, UNCHANGED <<content, writers, put, job>>,
         \A i \in Inode, q \in Process :
           q \in writers[i] /\ Alike(i)' => Produced(q)' = Produced(q)
  PROVE  AlikeInv'
<1> SUFFICES ASSUME NEW i \in Inode, writers[i] # {}, Alike(i)'
             PROVE  (/\ \A q \in writers[i] : Len(content[i]) <= Len(Produced(q))
                     /\ \E q \in writers[i] :
                          /\ put[q] <= Len(content[i])
                          /\ \A k \in 1 .. put[q] : content[i][k] = Produced(q)[k])'
  BY DEF AlikeInv
<1>1. writers[i] \subseteq Process
  BY DEF Alike
<1>2. \A q \in writers[i] : Produced(q)' = Produced(q)
  BY <1>1
<1>3. Alike(i)
  BY <1>1, <1>2 DEF Alike, Compresses
<1> QED
  BY <1>1, <1>2, <1>3 DEF AlikeInv

LEMMA OpenInputKeeps ==
  ASSUME IInv, NEW p \in Process, OpenInput(p)
  PROVE  IInv'
<1> USE DEF OpenInput, fileVars, history
<1>1. /\ input' = [input EXCEPT ![p] = dir[job[p].input]]
      /\ step' = [step EXCEPT ![p] = "reading"]
      /\ UNCHANGED <<content, writers, dir, job, before, output, got, ended, put, edits, trouble>>
  BY DEF Goto
<1>2. dir[job[p].input] \in Inode /\ dir[job[p].input] # NoInode
  BY SharedFilesAssumption DEF IInv, StateInv
<1>3. StateInv'
  BY <1>1, <1>2 DEF IInv, StateInv, Steps
<1>4. \A q \in Process : Produced(q)' = Produced(q) /\ (Compresses(q)' <=> Compresses(q))
  BY <1>1, ViewStays
<1>5. StepInv'
  <2>1. InStep(p)'
    BY <1>1, <1>2 DEF IInv, StateInv, StepInv, InStep, Well
  <2>2. \A q \in Process \ {p} : InStep(q)'
    BY <1>1, InStepStays DEF IInv, StateInv, StepInv
  <2> QED
    BY <2>1, <2>2 DEF StepInv
<1>6. WriterInv'
  BY <1>1 DEF IInv, WriterInv
<1>7. OwnInv'
  BY <1>1, <1>4 DEF IInv, OwnInv
<1>8. AlikeInv'
  BY <1>1, <1>4, AlikeStays DEF IInv
<1>9. FreshInv'
  <2> SUFFICES ASSUME NEW r \in Process, NEW q \in Process, Fresh(q)', input'[r] = output[q]
               PROVE  IsPrefix(got[r], content[output[q]])
    BY <1>1 DEF FreshInv
  <2>1. Fresh(q)
    BY <1>1, <1>4 DEF Fresh
  <2>2. CASE r # p
    BY <1>1, <2>1, <2>2 DEF IInv, StateInv, FreshInv
  <2>3. CASE r = p
    <3>1. got[p] = <<>> /\ output[q] \in Inode
      BY <2>1 DEF IInv, StateInv, StepInv, InStep, Fresh
    <3>2. content[output[q]] \in Seq(Byte)
      BY <3>1 DEF IInv, StateInv
    <3>3. got[p] \in Seq(Byte) /\ Len(got[p]) = 0 /\ Len(content[output[q]]) \in Nat
      BY <3>1, <3>2, EmptySeq, LenProperties
    <3>4. IsPrefix(got[p], content[output[q]])
      BY <3>2, <3>3, PointwisePrefix
    <3> QED
      BY <1>1, <2>3, <3>1, <3>4
  <2> QED
    BY <2>2, <2>3
<1> QED
  BY <1>3, <1>5, <1>6, <1>7, <1>8, <1>9 DEF IInv

\* What a command that reads gets, and what it goes on from.
LEMMA ReadEffect ==
  ASSUME IInv, NEW p \in Process, Read(p)
  PROVE  LET more == Slice(content[input[p]], Len(got[p]) + 1, ReadAhead)
         IN  /\ input[p] \in Inode /\ more \in Seq(Byte)
             /\ got[p] \in Seq(Byte) /\ got[p] \o more \in Seq(Byte)
             /\ got' = [got EXCEPT ![p] = got[p] \o more]
             /\ \E e \in BOOLEAN : ended' = [ended EXCEPT ![p] = e]
             /\ \/ step[p] = "reading" /\ output[p] = NoInode
                \/ step[p] = "decoding" /\ ~Compresses(p) /\ output[p] # NoInode /\ HeaderIsValid(got[p])
                     /\ ended[p] = FALSE /\ Decision(p) = "more"
             /\ UNCHANGED <<content, writers, dir, job, before, step, input, output, put, edits, trouble>>
<1> DEFINE more == Slice(content[input[p]], Len(got[p]) + 1, ReadAhead)
<1>1. step[p] \in {"reading", "decoding"} /\ ~ended[p]
  BY DEF Read, WantsInput
<1>2. input[p] \in Inode
  BY <1>1 DEF IInv, StateInv, StepInv, InStep
<1>3. content[input[p]] \in Seq(Byte) /\ got[p] \in Seq(Byte) /\ Len(got[p]) \in Nat
  BY <1>2, LenProperties DEF IInv, StateInv
<1>4. more \in Seq(Byte)
  BY <1>3, SharedFilesAssumption, SliceFacts
<1>5. got[p] \o more \in Seq(Byte)
  BY <1>3, <1>4, ConcatProperties
<1>6. got' = [got EXCEPT ![p] = got[p] \o more]
  BY DEF Read, IInv, StateInv
<1>7. \E e \in BOOLEAN : ended' = [ended EXCEPT ![p] = e]
  <2>1. (got'[p] = got[p]) \in BOOLEAN
    OBVIOUS
  <2> QED
    BY <2>1 DEF Read
<1>8. \/ step[p] = "reading" /\ output[p] = NoInode
      \/ step[p] = "decoding" /\ ~Compresses(p) /\ output[p] # NoInode /\ HeaderIsValid(got[p])
           /\ ended[p] = FALSE /\ Decision(p) = "more"
  <2>1. ended[p] = FALSE
    BY <1>1 DEF IInv, StateInv
  <2> QED
    BY <1>1, <2>1 DEF Read, WantsInput, IInv, StepInv, InStep
<1>9. UNCHANGED <<content, writers, dir, job, before, step, input, output, put, edits, trouble>>
  BY DEF Read, fileVars, history
<1> HIDE DEF more
<1> QED
  BY <1>2, <1>3, <1>4, <1>5, <1>6, <1>7, <1>8, <1>9 DEF more

\* decompress reads on only while more input changes nothing that is decoded.
LEMMA DecodingGoesOn ==
  ASSUME CodecsRestore, IInv, NEW p \in Process, Read(p), step[p] = "decoding"
  PROVE  /\ HeaderIsValid(got[p])'
         /\ Produced(p) \in Seq(Byte) /\ Produced(p)' \in Seq(Byte)
         /\ IsPrefix(Produced(p), Produced(p)')
<1> DEFINE more == Slice(content[input[p]], Len(got[p]) + 1, ReadAhead)
<1>1. /\ more \in Seq(Byte) /\ got[p] \in Seq(Byte) /\ got[p] \o more \in Seq(Byte)
      /\ got' = [got EXCEPT ![p] = got[p] \o more]
      /\ ~Compresses(p) /\ HeaderIsValid(got[p])
      /\ ended[p] = FALSE /\ Decision(p) = "more" /\ UNCHANGED job
  BY ReadEffect
<1> HIDE DEF more
<1>2. got'[p] = got[p] \o more
  BY <1>1 DEF IInv, StateInv
<1>3. /\ HeaderIsValid(got[p] \o more)
      /\ AlgorithmId(got[p] \o more) = AlgorithmId(got[p])
      /\ OriginalSize(got[p] \o more) = OriginalSize(got[p])
      /\ AfterHeader(got[p] \o more) = AfterHeader(got[p]) \o more
  BY <1>1, HeaderStays
<1>4. AlgorithmId(got[p]) \in Algorithms /\ AfterHeader(got[p]) \in Seq(Byte)
  BY <1>1, AfterHeaderType DEF HeaderIsValid, AlgorithmId
<1>5. Produced(p) = Restored(AlgorithmId(got[p]), AfterHeader(got[p]), OriginalSize(got[p]))
  BY <1>1 DEF Produced, Stream
<1>6. Produced(p)' = Restored(AlgorithmId(got[p]), AfterHeader(got[p]) \o more, OriginalSize(got[p]))
  BY <1>1, <1>2, <1>3 DEF Produced, Stream, Compresses
<1>7. Verdict(AlgorithmId(got[p]), AfterHeader(got[p]), OriginalSize(got[p]), FALSE) = "more"
  BY <1>1 DEF Decision, Stream
<1>8. DecodesOnwards(AlgorithmId(got[p]), AfterHeader(got[p]), more, OriginalSize(got[p]))
  BY <1>1, <1>4 DEF CodecsRestore
<1>9. AfterHeader(got[p]) \o more \in Seq(Byte)
  BY <1>1, <1>4, ConcatProperties
<1>10. DecodesOnwards(AlgorithmId(got[p]), AfterHeader(got[p]) \o more, more, OriginalSize(got[p]))
  BY <1>1, <1>4, <1>9 DEF CodecsRestore
<1>11. Produced(p) \in Seq(Byte) /\ IsPrefix(Produced(p), Produced(p)')
  BY <1>5, <1>6, <1>7, <1>8 DEF DecodesOnwards
<1>12. Produced(p)' \in Seq(Byte)
  BY <1>6, <1>10 DEF DecodesOnwards
<1> QED
  BY <1>2, <1>3, <1>11, <1>12

LEMMA ReadKeeps ==
  ASSUME CodecsRestore, IInv, NEW p \in Process, Read(p)
  PROVE  IInv'
<1> DEFINE more == Slice(content[input[p]], Len(got[p]) + 1, ReadAhead)
<1>1. /\ input[p] \in Inode /\ got[p] \in Seq(Byte) /\ got[p] \o more \in Seq(Byte)
      /\ got' = [got EXCEPT ![p] = got[p] \o more]
      /\ \/ step[p] = "reading" /\ output[p] = NoInode
         \/ step[p] = "decoding" /\ ~Compresses(p) /\ output[p] # NoInode
      /\ UNCHANGED <<content, writers, dir, job, before, step, input, output, put, edits, trouble>>
  BY ReadEffect
<1>2. PICK e \in BOOLEAN : ended' = [ended EXCEPT ![p] = e]
  BY ReadEffect
<1> HIDE DEF more
<1>3. got'[p] = got[p] \o more /\ \A q \in Process \ {p} : got'[q] = got[q] /\ ended'[q] = ended[q]
  BY <1>1, <1>2 DEF IInv, StateInv
<1>4. StateInv'
  BY <1>1, <1>2 DEF IInv, StateInv
<1>5. \A q \in Process : (Compresses(q)' <=> Compresses(q))
  BY <1>1 DEF Compresses
<1>6. \A q \in Process \ {p} : Produced(q)' = Produced(q)
  BY <1>1, <1>3, ViewStays
<1>7. output[p] # NoInode =>
        /\ put[p] \in 0 .. Len(Produced(p))
        /\ HeaderIsValid(got[p])'
        /\ put[p] <= Len(Produced(p)')
        /\ SubSeq(Produced(p)', 1, put[p]) = SubSeq(Produced(p), 1, put[p])
  <2> HAVE output[p] # NoInode
  <2>1. /\ HeaderIsValid(got[p])'
        /\ Produced(p) \in Seq(Byte) /\ Produced(p)' \in Seq(Byte)
        /\ IsPrefix(Produced(p), Produced(p)')
    BY <1>1, DecodingGoesOn
  <2>2. put[p] \in 0 .. Len(Produced(p))
    <3>1. put[p] \in Nat /\ put[p] <= Len(Produced(p)) /\ Len(Produced(p)) \in Nat
      BY <2>1, LenProperties DEF IInv, StateInv, StepInv, InStep
    <3> QED
      BY <3>1
  <2>3. /\ put[p] \in 0 .. Len(Produced(p)')
        /\ SubSeq(Produced(p), 1, put[p]) = SubSeq(Produced(p)', 1, put[p])
    BY <2>1, <2>2, SameFront
  <2> QED
    BY <2>1, <2>2, <2>3
<1>8. StepInv'
  <2>1. InStep(p)'
    BY <1>1, <1>5, <1>7 DEF IInv, StepInv, InStep, Well
  <2>2. \A q \in Process \ {p} : InStep(q)'
    BY <1>1, <1>3, InStepStays DEF IInv, StepInv
  <2> QED
    BY <2>1, <2>2 DEF StepInv
<1>9. WriterInv'
  BY <1>1 DEF IInv, WriterInv
<1>10. OwnInv'
  BY <1>1, <1>6, <1>7 DEF IInv, OwnInv
<1>11. AlikeInv'
  <2>1. \A i \in Inode, q \in Process : q \in writers[i] /\ Alike(i)' => Produced(q)' = Produced(q)
    <3> SUFFICES ASSUME NEW i \in Inode, p \in writers[i], Alike(i)' PROVE FALSE
      BY <1>6
    <3>1. Compresses(p)
      BY <1>1, <1>5 DEF Alike
    <3>2. output[p] = i /\ i # NoInode
      BY SharedFilesAssumption DEF IInv, WriterInv
    <3> QED
      BY <1>1, <3>1, <3>2
  <2> QED
    BY <1>1, <2>1, AlikeStays DEF IInv
<1>12. FreshInv'
  <2> SUFFICES ASSUME NEW r \in Process, NEW q \in Process, Fresh(q)', input[r] = output[q]
               PROVE  IsPrefix(got'[r], content[output[q]])
    BY <1>1 DEF FreshInv
  <2>1. Fresh(q)
    BY <1>1, <1>5 DEF Fresh
  <2>2. IsPrefix(got[r], content[output[q]])
    BY <2>1 DEF IInv, FreshInv
  <2>3. CASE r # p
    BY <1>3, <2>2, <2>3
  <2>4. CASE r = p
    <3>1. content[input[p]] \in Seq(Byte)
      BY <1>1 DEF IInv, StateInv
    <3>2. IsPrefix(got[p] \o more, content[input[p]])
      BY <1>1, <2>2, <2>4, <3>1, ReadsOn, SharedFilesAssumption DEF more
    <3> QED
      BY <1>3, <2>4, <3>2
  <2> QED
    BY <2>3, <2>4
<1> QED
  BY <1>4, <1>8, <1>9, <1>10, <1>11, <1>12 DEF IInv

-----------------------------------------------------------------------------
(***************************************************************************)
(* Steps that write.                                                       *)
(***************************************************************************)
\* A step that changes the contents of one inode, and who has written it.
StoreAt(i, bytes, who) ==
  /\ content' = [content EXCEPT ![i] = bytes]
  /\ writers' = [writers EXCEPT ![i] = @ \cup {who}]

\* The inodes who else has written keep what the invariant says of them.
LEMMA ElsewhereAlike ==
  ASSUME IInv, NEW i \in Inode, NEW bytes, NEW who, StoreAt(i, bytes, who), UNCHANGED job,
         NEW j \in Inode, j # i, writers'[j] # {}, Alike(j)',
         \A q \in writers[j] : put'[q] = put[q] /\ Produced(q)' = Produced(q)
  PROVE  (/\ \A q \in writers[j] : Len(content[j]) <= Len(Produced(q))
          /\ \E q \in writers[j] :
               /\ put[q] <= Len(content[j])
               /\ \A k \in 1 .. put[q] : content[j][k] = Produced(q)[k])'
<1>1. content'[j] = content[j] /\ writers'[j] = writers[j]
  BY DEF StoreAt, IInv, StateInv
<1>2. Alike(j)
  BY <1>1 DEF Alike, Compresses
<1> QED
  BY <1>1, <1>2 DEF IInv, AlikeInv

\* Create, as a function of the inode that it opens.
LEMMA CreateEffect ==
  ASSUME IInv, NEW p \in Process, Create(p)
  PROVE  \E i \in Inode :
           /\ dir' \in [DOMAIN dir' -> Inode] /\ DOMAIN dir' = DOMAIN dir \cup {job[p].output}
           /\ dir'[job[p].output] = i
           /\ \A name \in DOMAIN dir : name # job[p].output => dir'[name] = dir[name]
           /\ \/ job[p].output \in DOMAIN dir /\ dir[job[p].output] = i
              \/ job[p].output \notin DOMAIN dir /\ i \in Unused
           /\ output' = [output EXCEPT ![p] = i]
           /\ StoreAt(i, <<>>, p)
<1> DEFINE name == job[p].output
           i == IF name \in DOMAIN dir THEN dir[name] ELSE CHOOSE j \in Unused : TRUE
<1>1. /\ \/ name \in DOMAIN dir /\ dir[name] = i
         \/ name \notin DOMAIN dir /\ i \in Unused
      /\ i \in Inode
  BY DEF Create, HasPlace, Unused, IInv, StateInv
<1>2. /\ dir' = [n \in DOMAIN dir \cup {name} |-> IF n = name THEN i ELSE dir[n]]
      /\ output' = [output EXCEPT ![p] = i]
      /\ Store(i, <<>>, p)
  BY DEF Create
<1> HIDE DEF i
<1>3. /\ dir' \in [DOMAIN dir' -> Inode] /\ DOMAIN dir' = DOMAIN dir \cup {name}
      /\ dir'[name] = i
      /\ \A other \in DOMAIN dir : other # name => dir'[other] = dir[other]
  BY <1>1, <1>2 DEF IInv, StateInv
<1>4. StoreAt(i, <<>>, p)
  BY <1>2 DEF Store, StoreAt
<1> QED
  BY <1>1, <1>2, <1>3, <1>4

LEMMA CreateKeeps ==
  ASSUME CodecsRestore, IInv, NEW p \in Process, Create(p)
  PROVE  IInv'
<1> DEFINE name == job[p].output
<1>1. PICK i \in Inode :
        /\ dir' \in [DOMAIN dir' -> Inode] /\ DOMAIN dir' = DOMAIN dir \cup {name}
        /\ dir'[name] = i
        /\ \A other \in DOMAIN dir : other # name => dir'[other] = dir[other]
        /\ \/ name \in DOMAIN dir /\ dir[name] = i
           \/ name \notin DOMAIN dir /\ i \in Unused
        /\ output' = [output EXCEPT ![p] = i]
        /\ StoreAt(i, <<>>, p)
  BY CreateEffect
<1> HIDE DEF name
<1>2. /\ step' = [step EXCEPT ![p] = IF Compresses(p) THEN "writing" ELSE "decoding"]
      /\ UNCHANGED <<job, before, input, got, ended, put, edits, trouble>>
      /\ step[p] = "reading" /\ (Compresses(p) \/ HeaderIsValid(got[p]))
  BY DEF Create, ReadyToCreate, Goto, history
<1>3. i # NoInode /\ output[p] = NoInode /\ put[p] = 0 /\ input[p] # NoInode
  BY <1>2, SharedFilesAssumption DEF IInv, StepInv, InStep
<1>4. /\ content'[i] = <<>> /\ writers'[i] = writers[i] \cup {p}
      /\ \A j \in Inode : j # i => content'[j] = content[j] /\ writers'[j] = writers[j]
      /\ output'[p] = i /\ \A q \in Process : q # p => output'[q] = output[q]
  BY <1>1 DEF StoreAt, IInv, StateInv
<1>5. StateInv'
  <2>1. IsInjective(dir')
    <3> SUFFICES ASSUME NEW a \in DOMAIN dir', NEW b \in DOMAIN dir', dir'[a] = dir'[b]
                 PROVE  a = b
      BY DEF IsInjective
    <3>1. \A other \in DOMAIN dir : other # name => dir'[other] # i
      <4> SUFFICES ASSUME NEW other \in DOMAIN dir, other # name, dir[other] = i PROVE FALSE
        BY <1>1
      <4>1. i \in Range(dir)
        BY DEF Range
      <4>2. name \in DOMAIN dir /\ dir[name] = i
        BY <1>1, <4>1 DEF Unused
      <4> QED
        BY <4>2 DEF IInv, StateInv, IsInjective
    <3>2. CASE a = name \/ b = name
      BY <1>1, <3>1, <3>2
    <3>3. CASE a # name /\ b # name
      BY <1>1, <3>3 DEF IInv, StateInv, IsInjective
    <3> QED
      BY <3>2, <3>3
  <2>2. <<>> \in Seq(Byte)
    BY EmptySeq
  <2>3. content' \in [Inode -> Seq(Byte)]
    BY <1>1, <2>2 DEF StoreAt, IInv, StateInv
  <2>4. writers' \in [Inode -> SUBSET (Process \cup {"editor"})]
    BY <1>1 DEF StoreAt, IInv, StateInv
  <2>5. step' \in [Process -> Steps]
    BY <1>2 DEF IInv, StateInv, Steps
  <2>6. output' \in [Process -> Inode \cup {NoInode}]
    BY <1>1 DEF IInv, StateInv
  <2> QED
    BY <1>1, <1>2, <2>1, <2>3, <2>4, <2>5, <2>6 DEF IInv, StateInv
<1>6. \A q \in Process : Produced(q)' = Produced(q) /\ (Compresses(q)' <=> Compresses(q))
  BY <1>2, ViewStays
<1>7. StepInv'
  <2>1. Len(Produced(p)) \in Nat
    BY <1>2, ProducedType, LenProperties DEF IInv
  <2>2. step'[p] = IF Compresses(p) THEN "writing" ELSE "decoding"
    BY <1>2 DEF IInv, StateInv
  <2>3. InStep(p)'
    BY <1>2, <1>3, <1>4, <1>6, <2>1, <2>2 DEF InStep, Well
  <2>4. \A q \in Process \ {p} : InStep(q)'
    BY <1>2, <1>4, InStepStays DEF IInv, StateInv, StepInv
  <2> QED
    BY <2>3, <2>4 DEF StepInv
<1>8. WriterInv'
  <2>1. \A q \in Process, j \in Inode : q \in writers'[j] <=> output'[q] = j
    <3> TAKE q \in Process, j \in Inode
    <3>1. q \in writers[j] <=> output[q] = j
      BY DEF IInv, WriterInv
    <3>2. CASE q = p
      <4>1. p \notin writers[j]
        BY <1>3, <3>1, <3>2, SharedFilesAssumption
      <4>2. CASE j = i
        BY <1>4, <3>2, <4>2
      <4>3. CASE j # i
        BY <1>4, <3>2, <4>1, <4>3
      <4> QED
        BY <4>2, <4>3
    <3>3. CASE q # p
      <4>1. q \in writers'[j] <=> q \in writers[j]
        BY <1>4, <3>3
      <4> QED
        BY <1>4, <3>1, <3>3, <4>1
    <3> QED
      BY <3>2, <3>3
  <2>2. \A other \in DOMAIN dir' \ DOMAIN before : \E q \in Process : output'[q] = dir'[other]
    <3> TAKE other \in DOMAIN dir' \ DOMAIN before
    <3>1. CASE other = name
      BY <1>1, <1>4, <3>1
    <3>2. CASE other # name
      <4>1. other \in DOMAIN dir \ DOMAIN before /\ dir'[other] = dir[other] /\ dir[other] \in Inode
        BY <1>1, <3>2 DEF IInv, StateInv
      <4>2. PICK q \in Process : output[q] = dir[other]
        BY <4>1 DEF IInv, WriterInv
      <4>3. q # p
        BY <1>3, <4>1, <4>2, SharedFilesAssumption
      <4> QED
        BY <1>4, <4>1, <4>2, <4>3
    <3> QED
      BY <3>1, <3>2
  <2> QED
    BY <1>2, <2>1, <2>2 DEF WriterInv
<1>9. OwnInv'
  <2> SUFFICES ASSUME NEW q \in Process, output'[q] # NoInode, writers'[output'[q]] = {q}
               PROVE  content'[output'[q]] = SubSeq(Produced(q)', 1, put'[q])
    BY DEF OwnInv
  <2>1. CASE q = p
    <3>1. put'[p] = 0 /\ content'[output'[p]] = <<>>
      BY <1>2, <1>3, <1>4
    <3>2. SubSeq(Produced(p)', 1, 0) = <<>>
      BY SubSeqEmpty
    <3> QED
      BY <2>1, <3>1, <3>2
  <2>2. CASE q # p
    <3>1. output'[q] = output[q] /\ output[q] \in Inode
      BY <1>4, <2>2 DEF IInv, StateInv
    <3>2. output[q] # i
      BY <1>4, <2>2, <3>1
    <3> QED
      BY <1>2, <1>4, <1>6, <3>1, <3>2 DEF IInv, OwnInv
  <2> QED
    BY <2>1, <2>2
<1>10. AlikeInv'
  <2> SUFFICES ASSUME NEW j \in Inode, writers'[j] # {}, Alike(j)'
               PROVE  (/\ \A q \in writers[j] : Len(content[j]) <= Len(Produced(q))
                       /\ \E q \in writers[j] :
                            /\ put[q] <= Len(content[j])
                            /\ \A k \in 1 .. put[q] : content[j][k] = Produced(q)[k])'
    BY DEF AlikeInv
  <2>1. CASE j = i
    <3>1. Len(content'[i]) = 0 /\ put'[p] = 0 /\ p \in writers'[i]
      BY <1>2, <1>3, <1>4, EmptySeq
    <3>2. \A q \in writers'[i] : Len(Produced(q)') \in Nat
      <4> TAKE q \in writers'[i]
      <4>1. q \in Process /\ Compresses(q)'
        BY <2>1 DEF Alike
      <4> QED
        BY <1>6, <4>1, ProducedType, LenProperties DEF IInv
    <3> QED
      BY <2>1, <3>1, <3>2
  <2>2. CASE j # i
    <3>1. \A q \in writers[j] : put'[q] = put[q] /\ Produced(q)' = Produced(q)
      BY <1>2, <1>4, <1>6, <2>2 DEF Alike
    <3> QED
      BY <1>1, <1>2, <2>2, <3>1, ElsewhereAlike
  <2> QED
    BY <2>1, <2>2
<1>11. FreshInv'
  <2> SUFFICES ASSUME NEW r \in Process, NEW q \in Process, Fresh(q)', input[r] = output'[q]
               PROVE  IsPrefix(got[r], content'[output'[q]])
    BY <1>2 DEF FreshInv
  <2>1. CASE q = p
    <3>1. writers[i] \cup {p} = {p} /\ name \notin DOMAIN before /\ input[r] = i
      BY <1>2, <1>4, <2>1 DEF Fresh, name
    <3>2. CASE name \in DOMAIN dir /\ dir[name] = i
      <4>1. PICK s \in Process : output[s] = i
        BY <3>1, <3>2 DEF IInv, WriterInv
      <4> QED
        BY <1>3, <3>1, <4>1 DEF IInv, WriterInv
    <3>3. CASE name \notin DOMAIN dir /\ i \in Unused
      BY <3>1, <3>3 DEF Unused, Range, IInv, StateInv
    <3> QED
      BY <1>1, <3>2, <3>3
  <2>2. CASE q # p
    <3>1. output'[q] = output[q] /\ output[q] \in Inode
      BY <1>4, <2>2 DEF Fresh, IInv, StateInv
    <3>2. output[q] # i
      BY <1>4, <2>2, <3>1 DEF Fresh
    <3>3. Fresh(q)
      BY <1>2, <1>4, <1>6, <3>1, <3>2 DEF Fresh
    <3> QED
      BY <1>4, <3>1, <3>2, <3>3 DEF IInv, FreshInv
  <2> QED
    BY <2>1, <2>2
<1> QED
  BY <1>5, <1>7, <1>8, <1>9, <1>10, <1>11 DEF IInv

\* A piece of the same archive written over a part of it leaves right what was
\* right.
LEMMA PieceOverwritten ==
  ASSUME NEW whole \in Seq(Byte), NEW n \in 0 .. Len(whole), NEW size \in Nat \ {0},
         NEW old \in Seq(Byte), Len(old) <= Len(whole)
  PROVE  LET bytes == Slice(whole, n + 1, size)
             new == Overwritten(old, n, bytes)
         IN  /\ Len(new) <= Len(whole) /\ Len(old) <= Len(new) /\ n + Len(bytes) <= Len(new)
             /\ \A k \in 1 .. Len(old) : old[k] = whole[k] => new[k] = whole[k]
             /\ \A k \in n + 1 .. n + Len(bytes) : new[k] = whole[k]
<1> DEFINE bytes == Slice(whole, n + 1, size)
           new == Overwritten(old, n, bytes)
<1>1. Len(whole) \in Nat /\ Len(old) \in Nat /\ n \in Nat /\ n <= Len(whole)
  BY LenProperties
<1>2. /\ bytes \in Seq(Byte) /\ Len(bytes) \in Nat /\ n + Len(bytes) <= Len(whole)
      /\ \A k \in 1 .. Len(bytes) : bytes[k] = whole[n + k]
  BY <1>1, SliceFacts, LenProperties
<1> HIDE DEF bytes
<1>3. /\ new \in Seq(Byte)
      /\ Len(new) = IF Len(old) >= n + Len(bytes) THEN Len(old) ELSE n + Len(bytes)
      /\ \A k \in 1 .. Len(new) :
           new[k] = IF k \in n + 1 .. n + Len(bytes) THEN bytes[k - n]
                    ELSE IF k \in 1 .. Len(old) THEN old[k] ELSE 0
  BY <1>1, <1>2, OverwrittenFacts
<1> HIDE DEF new
<1>4. Len(new) <= Len(whole) /\ Len(old) <= Len(new) /\ n + Len(bytes) <= Len(new) /\ Len(new) \in Nat
  BY <1>1, <1>2, <1>3
<1>5. \A k \in n + 1 .. n + Len(bytes) : new[k] = whole[k]
  <2> TAKE k \in n + 1 .. n + Len(bytes)
  <2>1. k - n \in 1 .. Len(bytes) /\ n + (k - n) = k /\ k \in 1 .. Len(new)
    BY <1>1, <1>2, <1>4
  <2> QED
    BY <1>2, <1>3, <2>1
<1>6. \A k \in 1 .. Len(old) : old[k] = whole[k] => new[k] = whole[k]
  <2> TAKE k \in 1 .. Len(old)
  <2>1. k \in 1 .. Len(new)
    BY <1>1, <1>4
  <2> QED
    BY <1>3, <1>5, <2>1
<1> QED
  BY <1>4, <1>5, <1>6 DEF new, bytes

LEMMA WriteKeeps ==
  ASSUME CodecsRestore, IInv, NEW p \in Process, Write(p)
  PROVE  IInv'
<1> DEFINE i == output[p]
           whole == Produced(p)
           bytes == Slice(whole, put[p] + 1, Piece)
           new == Overwritten(content[i], put[p], bytes)
<1>1. /\ StoreAt(i, new, p)
      /\ put' = [put EXCEPT ![p] = put[p] + Len(bytes)]
      /\ UNCHANGED <<dir, job, before, step, input, output, got, ended, edits, trouble>>
  BY DEF Write, Store, StoreAt, history, IInv, StateInv
<1>2. i \in Inode /\ step[p] \in {"decoding", "writing", "removing"}
  BY DEF Write, WantsToWrite, IInv, StateInv, StepInv, InStep
<1>3. i # NoInode /\ p \in writers[i]
  BY <1>2, SharedFilesAssumption DEF IInv, WriterInv
<1>4. Compresses(p) \/ HeaderIsValid(got[p])
  BY <1>3 DEF IInv, StepInv, InStep
<1>5. whole \in Seq(Byte) /\ Len(whole) \in Nat /\ put[p] \in Nat /\ put[p] \in 0 .. Len(whole)
  <2>1. whole \in Seq(Byte) /\ Len(whole) \in Nat
    BY <1>4, ProducedType, LenProperties DEF IInv
  <2>2. put[p] \in Nat /\ put[p] <= Len(whole)
    BY <1>3 DEF IInv, StateInv, StepInv, InStep
  <2> QED
    BY <2>1, <2>2
<1>6. Piece \in Nat \ {0}
  BY SharedFilesAssumption
<1>7. content[i] \in Seq(Byte) /\ Len(content[i]) \in Nat
  BY <1>2, LenProperties DEF IInv, StateInv
<1> HIDE DEF i, whole
<1>8. bytes \in Seq(Byte) /\ Len(bytes) \in Nat /\ put[p] + Len(bytes) <= Len(whole)
  <2>1. \A n \in 0 .. Len(whole) :
          LET piece == Slice(whole, n + 1, Piece)
          IN  piece \in Seq(Byte) /\ Len(piece) \in Nat /\ n + Len(piece) <= Len(whole)
    <3> TAKE n \in 0 .. Len(whole)
    <3>1. n \in Nat /\ n <= Len(whole)
      BY <1>5
    <3> QED
      BY <1>5, <1>6, <3>1, SliceFacts, LenProperties
  <2> QED
    BY <1>5, <2>1 DEF bytes
<1>9. new \in Seq(Byte)
  BY <1>5, <1>7, <1>8, OverwrittenFacts
<1> HIDE DEF bytes, new
<1>10. /\ content'[i] = new /\ writers' = writers
       /\ \A j \in Inode : j # i => content'[j] = content[j]
       /\ put'[p] = put[p] + Len(bytes) /\ \A q \in Process : q # p => put'[q] = put[q]
  BY <1>1, <1>2, <1>3 DEF StoreAt, IInv, StateInv
<1>11. StateInv'
  <2>1. content' \in [Inode -> Seq(Byte)]
    BY <1>1, <1>9 DEF StoreAt, IInv, StateInv
  <2>2. put[p] + Len(bytes) \in Nat
    BY <1>5, <1>8
  <2>3. put' \in [Process -> Nat]
    BY <1>1, <2>2 DEF IInv, StateInv
  <2> QED
    BY <1>1, <1>10, <2>1, <2>3 DEF IInv, StateInv
<1>12. \A q \in Process : Produced(q)' = Produced(q) /\ (Compresses(q)' <=> Compresses(q))
  BY <1>1, ViewStays
<1>13. Produced(p)' = whole /\ i = output[p]
  BY <1>12 DEF whole, i
<1>14. StepInv'
  <2>1. InStep(p)'
    <3>1. InStep(p) /\ (HeaderIsValid(got[p])' <=> HeaderIsValid(got[p]))
      BY <1>1 DEF IInv, StepInv
    <3>2. put'[p] <= Len(Produced(p)')
      BY <1>8, <1>10, <1>13
    <3>3. step'[p] = step[p] /\ step[p] \in {"decoding", "writing", "removing"} /\ output'[p] = output[p]
          /\ input'[p] = input[p] /\ got'[p] = got[p] /\ (Decision(p)' = Decision(p))
      BY <1>1, <1>2, ViewStays
    <3> QED
      BY <1>12, <3>1, <3>2, <3>3 DEF InStep, Well, Over
  <2>2. \A q \in Process \ {p} : InStep(q)'
    BY <1>1, <1>10, InStepStays DEF IInv, StepInv
  <2> QED
    BY <2>1, <2>2 DEF StepInv
<1>15. WriterInv'
  BY <1>1, <1>10 DEF IInv, WriterInv
<1>16. \A q \in Process : writers[output[q]] = {q} => q = p \/ output[q] # i
  BY <1>3
<1>17. writers[i] = {p} =>
         content[i] = SubSeq(whole, 1, put[p]) /\ new = SubSeq(whole, 1, put[p] + Len(bytes))
  <2> HAVE writers[i] = {p}
  <2>1. content[i] = SubSeq(whole, 1, put[p])
    BY <1>3, <1>13, <1>12 DEF IInv, OwnInv, whole
  <2>2. Overwritten(SubSeq(whole, 1, put[p]), put[p], bytes) = SubSeq(whole, 1, put[p] + Len(bytes))
    BY <1>5, <1>6, PieceAppended DEF bytes
  <2> QED
    BY <2>1, <2>2 DEF new
<1>18. OwnInv'
  <2> SUFFICES ASSUME NEW q \in Process, output[q] # NoInode, writers[output[q]] = {q}
               PROVE  content'[output[q]] = SubSeq(Produced(q)', 1, put'[q])
    BY <1>1, <1>10 DEF OwnInv
  <2>1. CASE q = p
    BY <1>10, <1>13, <1>17, <2>1
  <2>2. CASE q # p
    <3>1. output[q] # i /\ output[q] \in Inode
      BY <1>16, <2>2 DEF IInv, StateInv
    <3> QED
      BY <1>10, <1>12, <2>2, <3>1 DEF IInv, OwnInv
  <2> QED
    BY <2>1, <2>2
<1>19. AlikeInv'
  <2> SUFFICES ASSUME NEW j \in Inode, writers'[j] # {}, Alike(j)'
               PROVE  (/\ \A q \in writers[j] : Len(content[j]) <= Len(Produced(q))
                       /\ \E q \in writers[j] :
                            /\ put[q] <= Len(content[j])
                            /\ \A k \in 1 .. put[q] : content[j][k] = Produced(q)[k])'
    BY DEF AlikeInv
  <2>1. writers[j] # {} /\ writers[j] \subseteq Process /\ Alike(j)
    BY <1>10, <1>12 DEF Alike
  <2>2. PICK r \in writers[j] :
          /\ put[r] <= Len(content[j])
          /\ \A k \in 1 .. put[r] : content[j][k] = Produced(r)[k]
    BY <2>1 DEF IInv, AlikeInv
  <2>3. \A q \in writers[j] : Len(content[j]) <= Len(Produced(q))
    BY <2>1 DEF IInv, AlikeInv
  <2>4. CASE j # i
    <3>1. r # p
      BY <1>13, <2>1, <2>4 DEF IInv, WriterInv
    <3>2. put'[r] = put[r] /\ content'[j] = content[j]
      BY <1>10, <2>1, <2>4, <3>1
    <3> QED
      BY <1>10, <1>12, <2>1, <2>2, <2>3, <3>2
  <2>5. CASE j = i
    <3>1. \A q \in writers[i] : Produced(q) = whole
      BY <1>3, <2>1, <2>5 DEF Alike, whole
    <3>2. Len(content[i]) <= Len(whole) /\ put[r] \in 0 .. Len(content[i])
          /\ \A k \in 1 .. put[r] : content[i][k] = whole[k]
      BY <1>3, <1>7, <2>1, <2>2, <2>3, <2>5, <3>1 DEF IInv, StateInv
    <3>3. /\ Len(new) <= Len(whole)
          /\ put[r] <= Len(new) /\ \A k \in 1 .. put[r] : new[k] = whole[k]
          /\ put[p] + Len(bytes) <= Len(new)
          /\ put[p] <= put[r] => \A k \in 1 .. put[p] + Len(bytes) : new[k] = whole[k]
      <4>1. /\ Len(new) <= Len(whole) /\ Len(content[i]) <= Len(new)
            /\ put[p] + Len(bytes) <= Len(new)
            /\ \A k \in 1 .. Len(content[i]) : content[i][k] = whole[k] => new[k] = whole[k]
            /\ \A k \in put[p] + 1 .. put[p] + Len(bytes) : new[k] = whole[k]
        <5>1. /\ whole \in Seq(Byte) /\ content[i] \in Seq(Byte) /\ put[p] \in 0 .. Len(whole)
              /\ Len(content[i]) <= Len(whole) /\ Piece \in Nat \ {0}
          BY <1>5, <1>6, <1>7, <3>2
        <5> QED
          BY <5>1, PieceOverwritten, SMTT(40) DEF new, bytes
      <4>2. Len(new) \in Nat
        BY <1>9, LenProperties
      <4>3. put[r] <= Len(new)
        BY <1>7, <3>2, <4>1, <4>2
      <4>4. \A k \in 1 .. put[r] : k \in 1 .. Len(content[i])
        BY <1>7, <3>2
      <4>5. put[p] <= put[r] => \A k \in 1 .. put[p] + Len(bytes) :
                                  k \in 1 .. put[r] \/ k \in put[p] + 1 .. put[p] + Len(bytes)
        BY <1>5, <1>8, <3>2
      <4> QED
        BY <3>2, <4>1, <4>3, <4>4, <4>5
    <3>4. \A q \in writers[i] : Produced(q)' = whole
      BY <1>12, <2>1, <2>5, <3>1
    <3>5. CASE r = p
      <4>1. put[p] <= put[r]
        BY <1>5, <3>5
      <4> QED
        BY <1>3, <1>10, <2>5, <3>3, <3>4, <4>1
    <3>6. CASE r # p
      <4>1. put'[r] = put[r]
        BY <1>10, <2>1, <3>6
      <4> QED
        BY <1>10, <2>2, <2>5, <3>3, <3>4, <4>1
    <3> QED
      BY <3>5, <3>6
  <2> QED
    BY <2>4, <2>5
<1>20. FreshInv'
  <2> SUFFICES ASSUME NEW r \in Process, NEW q \in Process, Fresh(q)', input[r] = output[q]
               PROVE  IsPrefix(got[r], content'[output[q]])
    BY <1>1 DEF FreshInv
  <2>1. Fresh(q) /\ writers[output[q]] = {q} /\ output[q] \in Inode
    BY <1>1, <1>10, <1>12 DEF Fresh, IInv, StateInv
  <2>2. IsPrefix(got[r], content[output[q]])
    BY <2>1 DEF IInv, FreshInv
  <2>3. CASE q = p
    <3>1. content[i] = SubSeq(whole, 1, put[p]) /\ new = SubSeq(whole, 1, put[p] + Len(bytes))
      BY <1>13, <1>17, <2>1, <2>3
    <3>2. put[p] + Len(bytes) \in 0 .. Len(whole) /\ put[p] \in 0 .. put[p] + Len(bytes)
      BY <1>5, <1>8
    <3>3. IsPrefix(content[i], new)
      BY <1>5, <3>1, <3>2, FrontIsPrefix
    <3>4. got[r] \in Seq(Byte)
      BY DEF IInv, StateInv
    <3> QED
      BY <1>7, <1>9, <1>10, <1>13, <2>2, <2>3, <3>3, <3>4, PrefixOfPrefix
  <2>4. CASE q # p
    BY <1>10, <1>16, <2>1, <2>2, <2>4
  <2> QED
    BY <2>3, <2>4
<1> QED
  BY <1>11, <1>14, <1>15, <1>18, <1>19, <1>20 DEF IInv

LEMMA EditKeeps ==
  ASSUME IInv, Edit
  PROVE  IInv'
<1>1. PICK name \in DOMAIN dir, bytes \in Edits : Store(dir[name], bytes, "editor")
  BY DEF Edit
<1> DEFINE i == dir[name]
<1>2. /\ StoreAt(i, bytes, "editor")
      /\ edits' = edits + 1 /\ edits < MaxEdits
      /\ UNCHANGED <<dir, job, before, step, input, output, got, ended, put, trouble>>
  BY <1>1 DEF Edit, Store, StoreAt, history
<1>3. i \in Inode /\ bytes \in Seq(Byte) /\ "editor" \notin Process /\ MaxEdits \in Nat
  BY SharedFilesAssumption DEF IInv, StateInv
<1> HIDE DEF i
<1>4. /\ writers'[i] = writers[i] \cup {"editor"}
      /\ \A j \in Inode : j # i => content'[j] = content[j] /\ writers'[j] = writers[j]
  BY <1>2, <1>3 DEF StoreAt, IInv, StateInv
<1>5. StateInv'
  BY <1>2, <1>3 DEF StoreAt, IInv, StateInv
<1>6. \A q \in Process : Produced(q)' = Produced(q) /\ (Compresses(q)' <=> Compresses(q))
  BY <1>2, ViewStays
<1>7. StepInv'
  BY <1>2, InStepStays DEF IInv, StepInv
<1>8. WriterInv'
  <2>1. \A q \in Process, j \in Inode : q \in writers'[j] <=> q \in writers[j]
    BY <1>3, <1>4
  <2> QED
    BY <1>2, <2>1 DEF IInv, WriterInv
<1>9. \A q \in Process : output[q] \in Inode /\ writers'[output[q]] = {q} =>
        output[q] # i /\ content'[output[q]] = content[output[q]] /\ writers[output[q]] = {q}
  BY <1>3, <1>4
<1>10. OwnInv'
  BY <1>2, <1>6, <1>9 DEF IInv, StateInv, OwnInv
<1>11. AlikeInv'
  <2> SUFFICES ASSUME NEW j \in Inode, writers'[j] # {}, Alike(j)'
               PROVE  (/\ \A q \in writers[j] : Len(content[j]) <= Len(Produced(q))
                       /\ \E q \in writers[j] :
                            /\ put[q] <= Len(content[j])
                            /\ \A k \in 1 .. put[q] : content[j][k] = Produced(q)[k])'
    BY DEF AlikeInv
  <2>1. j # i
    BY <1>3, <1>4 DEF Alike
  <2>2. \A q \in writers[j] : put'[q] = put[q] /\ Produced(q)' = Produced(q)
    BY <1>2, <1>4, <1>6, <2>1 DEF Alike
  <2> QED
    BY <1>2, <1>3, <2>1, <2>2, ElsewhereAlike
<1>12. FreshInv'
  <2> SUFFICES ASSUME NEW r \in Process, NEW q \in Process, Fresh(q)', input[r] = output[q]
               PROVE  IsPrefix(got[r], content'[output[q]])
    BY <1>2 DEF FreshInv
  <2>1. output[q] \in Inode /\ writers'[output[q]] = {q}
    BY <1>2 DEF Fresh, IInv, StateInv
  <2>2. Fresh(q)
    BY <1>2, <1>6, <1>9, <2>1 DEF Fresh
  <2> QED
    BY <1>9, <2>1, <2>2 DEF IInv, FreshInv
<1> QED
  BY <1>5, <1>7, <1>8, <1>10, <1>11, <1>12 DEF IInv

-----------------------------------------------------------------------------
LEMMA InitKeeps ==
  ASSUME Init
  PROVE  IInv
<1>1. job \in Jobs /\ before \in InitialFiles
  BY DEF Init
<1>2. before \in [DOMAIN before -> Seq(Byte)] /\ \E place \in [DOMAIN before -> Inode] : IsInjective(place)
  BY <1>1, SharedFilesAssumption
<1>3. dir \in [DOMAIN before -> Inode] /\ IsInjective(dir)
  BY <1>2 DEF Init
<1>4. content \in [Inode -> Seq(Byte)]
  <2>1. \A i \in Inode : i \in Range(dir) => before[AntiFunction(dir)[i]] \in Seq(Byte)
    <3> TAKE i \in Inode
    <3> HAVE i \in Range(dir)
    <3>1. \E name \in DOMAIN dir : i \in Range(dir) => dir[name] = i
      BY DEF Range
    <3>2. AntiFunction(dir)[i] \in DOMAIN dir
      BY <3>1 DEF AntiFunction, Inverse
    <3> QED
      BY <1>2, <1>3, <3>2
  <2>2. <<>> \in Seq(Byte)
    BY EmptySeq
  <2> QED
    BY <2>1, <2>2 DEF Init
<1>5. <<>> \in Seq(Byte) /\ MaxEdits \in Nat
  BY EmptySeq, SharedFilesAssumption
<1>6. StateInv
  BY <1>1, <1>3, <1>4, <1>5 DEF Init, StateInv, Steps
<1>7. StepInv
  BY DEF Init, StepInv, InStep, Well, Over
<1>8. WriterInv
  BY <1>3, SharedFilesAssumption DEF Init, WriterInv
<1>9. OwnInv
  BY DEF Init, OwnInv
<1>10. AlikeInv
  BY DEF Init, AlikeInv
<1>11. FreshInv
  BY DEF Init, FreshInv, Fresh
<1> QED
  BY <1>6, <1>7, <1>8, <1>9, <1>10, <1>11 DEF IInv

LEMMA NextKeeps ==
  ASSUME CodecsRestore, IInv, [Next]_vars
  PROVE  IInv'
<1>1. CASE UNCHANGED vars
  <2> USE <1>1 DEF vars, fileVars, history, IInv
  <2>1. StateInv'
    BY DEF StateInv
  <2>2. \A q \in Process : Produced(q)' = Produced(q) /\ (Compresses(q)' <=> Compresses(q))
    BY ViewStays
  <2>3. StepInv'
    BY InStepStays DEF StepInv
  <2>4. WriterInv'
    BY DEF WriterInv
  <2>5. OwnInv'
    BY <2>2 DEF OwnInv
  <2>6. \A i \in Inode : Alike(i)' => Alike(i) /\ \A q \in writers[i] : Produced(q)' = Produced(q)
    BY <2>2 DEF Alike
  <2>7. AlikeInv'
    BY <2>6 DEF AlikeInv
  <2>8. FreshInv'
    BY <2>2 DEF FreshInv, Fresh
  <2> QED
    BY <2>1, <2>3, <2>4, <2>5, <2>7, <2>8
<1>2. CASE Edit
  BY <1>2, EditKeeps
<1>3. ASSUME NEW p \in Process, Run(p) \/ ReadFails(p) \/ WriteFails(p) \/ Kill(p)
      PROVE  IInv'
  <2>1. CASE OpenInput(p)
    BY <2>1, OpenInputKeeps
  <2>2. CASE OpenInputFails(p)
    BY <2>2, OpenInputFailsKeeps
  <2>3. CASE Read(p)
    BY <2>3, ReadKeeps
  <2>4. CASE RejectHeader(p)
    BY <2>4, RejectHeaderKeeps
  <2>5. CASE Create(p)
    BY <2>5, CreateKeeps
  <2>6. CASE CreateFails(p)
    BY <2>6, CreateFailsKeeps
  <2>7. CASE Write(p)
    BY <2>7, WriteKeeps
  <2>8. CASE Decide(p)
    BY <2>8, DecideKeeps
  <2>9. CASE Succeed(p)
    BY <2>9, SucceedKeeps
  <2>10. CASE RemoveOutput(p)
    BY <2>10, RemoveOutputKeeps
  <2>11. CASE ReadFails(p)
    BY <2>11, ReadFailsKeeps
  <2>12. CASE WriteFails(p)
    BY <2>12, WriteFailsKeeps
  <2>13. CASE Kill(p)
    BY <2>13, KillKeeps
  <2> QED
    BY <1>3, <2>1, <2>2, <2>3, <2>4, <2>5, <2>6, <2>7, <2>8, <2>9, <2>10, <2>11, <2>12, <2>13 DEF Run
<1> QED
  BY <1>1, <1>2, <1>3 DEF Next

\* Whatever order the steps of the commands, the editor and the failures come in,
\* the invariant holds (main.cpp:196-211, 268-290, 345-407).
THEOREM InvariantHolds == CodecsRestore => (Spec => []IInv)
<1> SUFFICES ASSUME CodecsRestore PROVE Spec => []IInv
  OBVIOUS
<1>1. Init => IInv
  BY InitKeeps
<1>2. IInv /\ [Next]_vars => IInv'
  BY NextKeeps
<1> QED
  BY <1>1, <1>2, PTL DEF Spec

-----------------------------------------------------------------------------
\* What the commands read fits into memory (std::string::max_size).
ReadsFit == \A p \in Process : FitsInMemory(got[p])

\* What compress has to write is an archive of what it has read.
LEMMA ProducedIsArchive ==
  ASSUME CodecsRestore, IInv, NEW p \in Process, Compresses(p), FitsInMemory(got[p])
  PROVE  IsArchiveOf(Produced(p), got[p])
<1> DEFINE algo == job[p].algorithm
           data == got[p]
           payload == Payload(algo, data)
           header == WriteHeader(algo, Len(data))
           whole == header \o payload
<1>1. algo \in Algorithms /\ data \in Seq(Byte) /\ Len(data) \in Nat
  BY SharedFilesAssumption, LenProperties DEF IInv, StateInv
<1>2. Len(data) \in Size
  BY <1>1, ByteStreamAssumption DEF FitsInMemory, Size
<1>3. DecodesOnwards(algo, data, data, OriginalSize(data)) /\ RestoresData(algo, data)
  BY <1>1 DEF CodecsRestore
<1>4. payload \in Seq(Byte) /\ Len(payload) \in Nat
  BY <1>3, LenProperties DEF DecodesOnwards
<1>5. header \in Seq(Byte) /\ Len(header) = HeaderLength /\ HeaderLength \in Nat
  BY <1>1, WriteHeaderFields
<1>6. Verdict(algo, SubSeq(payload, 1, Len(payload)), Len(data), TRUE) = "accepted"
  BY <1>3 DEF RestoresData
<1>7. Restored(algo, SubSeq(payload, 1, Len(payload)), Len(data)) = data
  <2>1. Len(payload) \in 0 .. Len(payload) /\ TRUE \in BOOLEAN
    BY <1>4
  <2> QED
    BY <1>3, <1>6, <2>1 DEF RestoresData
<1> HIDE DEF payload, header, algo, data
<1>8. whole \in Seq(Byte) /\ Len(whole) = HeaderLength + Len(payload) /\ Len(whole) \in Nat
  BY <1>4, <1>5, Joined, LenProperties
<1>9. whole = WriteHeader(algo, Len(data)) \o payload
  BY DEF header
<1> HIDE DEF whole
<1>10. Len(whole) >= HeaderLength /\ Len(whole) - HeaderLength = Len(payload)
  BY <1>4, <1>5, <1>8
<1>11. /\ HeaderIsValid(whole) /\ AlgorithmId(whole) = algo /\ OriginalSize(whole) = Len(data)
       /\ AfterHeader(whole) = SubSeq(payload, 1, Len(whole) - HeaderLength)
  <2>1. IsPrefix(whole, whole)
    BY <1>8, PointwisePrefix
  <2>2. IsPrefix(whole, WriteHeader(algo, Len(data)) \o payload)
    BY <1>9, <2>1
  <2> QED
    BY <1>1, <1>2, <1>4, <1>8, <1>10, <2>2, HeaderIsReadBack
<1>12. IsArchiveOf(whole, data)
  BY <1>6, <1>7, <1>10, <1>11 DEF IsArchiveOf
<1> QED
  BY <1>12 DEF Produced, Declared, whole, header, payload, algo, data

\* What one command alone has written and ended well with is whole.
LEMMA WrittenAlone ==
  ASSUME CodecsRestore, IInv, NEW p \in Process, Well(p), writers[output[p]] = {p}
  PROVE  content[output[p]] = Produced(p)
<1>1. output[p] # NoInode /\ put[p] = Len(Produced(p)) /\ (Compresses(p) \/ HeaderIsValid(got[p]))
  BY DEF IInv, StepInv, InStep, Well
<1>2. Produced(p) \in Seq(Byte) /\ Len(Produced(p)) \in Nat
  BY <1>1, ProducedType, LenProperties DEF IInv
<1>3. content[output[p]] = SubSeq(Produced(p), 1, Len(Produced(p)))
  BY <1>1 DEF IInv, OwnInv
<1>4. SubSeq(Produced(p), 1, Len(Produced(p))) = Produced(p)
  <2>1. Len(Produced(p)) \in 0 .. Len(Produced(p))
    BY <1>2
  <2>2. \A n \in 0 .. Len(Produced(p)) :
          /\ SubSeq(Produced(p), 1, n) \in Seq(Byte) /\ Len(SubSeq(Produced(p), 1, n)) = n
          /\ \A k \in 1 .. n : SubSeq(Produced(p), 1, n)[k] = Produced(p)[k]
    BY <1>2, FrontPart
  <2> QED
    BY <1>2, <2>1, <2>2, SeqEqual
<1> QED
  BY <1>3, <1>4

LEMMA ArchiveFollows ==
  ASSUME CodecsRestore, IInv, ReadsFit
  PROVE  ArchiveHoldsWhatWasRead
BY ProducedIsArchive, WrittenAlone DEF ArchiveHoldsWhatWasRead, ReadsFit

LEMMA SameArchiveFollows ==
  ASSUME CodecsRestore, IInv, ReadsFit
  PROVE  SameArchiveTwice
<1> SUFFICES ASSUME NEW p \in Process, NEW q \in Process, p # q, Well(p), Well(q),
                    Compresses(p), Compresses(q),
                    output[p] = output[q], writers[output[p]] = {p, q},
                    got[p] = got[q], job[p].algorithm = job[q].algorithm
             PROVE  IsArchiveOf(content[output[p]], got[p])
  BY DEF SameArchiveTwice
<1> DEFINE i == output[p]
           whole == Produced(p)
<1>1. output[p] # NoInode /\ put[p] = Len(Produced(p)) /\ put[q] = Len(Produced(q))
  BY DEF IInv, StepInv, InStep, Well
<1>2. i \in Inode /\ writers[i] = {p, q}
  BY <1>1 DEF IInv, StateInv
<1>3. Produced(q) = Produced(p)
  BY DEF Produced, Declared
<1>4. whole \in Seq(Byte) /\ Len(whole) \in Nat
  BY ProducedType, LenProperties DEF IInv
<1>5. content[i] \in Seq(Byte) /\ Len(content[i]) \in Nat
  BY <1>2, LenProperties DEF IInv, StateInv
<1>6. Alike(i)
  BY <1>2, <1>3 DEF Alike
<1>7. PICK r \in writers[i] :
        /\ put[r] <= Len(content[i])
        /\ \A k \in 1 .. put[r] : content[i][k] = Produced(r)[k]
  BY <1>2, <1>6 DEF IInv, AlikeInv
<1>8. Len(content[i]) <= Len(whole)
  BY <1>2, <1>6 DEF IInv, AlikeInv
<1>9. put[r] = Len(whole) /\ Produced(r) = whole
  BY <1>1, <1>2, <1>3, <1>7
<1> HIDE DEF i, whole
<1>10. Len(content[i]) = Len(whole)
  BY <1>4, <1>5, <1>7, <1>8, <1>9
<1>11. content[i] = whole
  BY <1>4, <1>5, <1>7, <1>9, <1>10, SeqEqual
<1> QED
  BY <1>11, ProducedIsArchive DEF ReadsFit, i, whole

LEMMA NewArchiveFollows ==
  ASSUME CodecsRestore, IInv, ReadsFit
  PROVE  NewArchiveIsWholeOrRefused
<1> SUFFICES ASSUME NEW p \in Process, NEW q \in Process, Well(p), ~Compresses(p), Compresses(q),
                    input[p] = output[q], writers[input[p]] = {q}, writers[output[p]] = {p},
                    job[q].output \notin DOMAIN before
             PROVE  content[output[p]] = got[q]
  BY DEF NewArchiveIsWholeOrRefused
<1> DEFINE algo == job[q].algorithm
           data == got[q]
           payload == Payload(algo, data)
           header == WriteHeader(algo, Len(data))
           read == got[p]
           n == Len(read) - HeaderLength
<1>1. output[q] # NoInode /\ HeaderIsValid(read) /\ Decision(p) = "accepted"
  BY DEF IInv, StepInv, InStep, Well
<1>2. /\ algo \in Algorithms /\ data \in Seq(Byte) /\ Len(data) \in Nat
      /\ read \in Seq(Byte) /\ Len(read) \in Nat
      /\ content[output[q]] \in Seq(Byte) /\ put[q] \in Nat /\ ended[p] \in BOOLEAN
  BY <1>1, SharedFilesAssumption, LenProperties DEF IInv, StateInv
<1>3. Len(data) \in Size
  BY <1>2, ByteStreamAssumption DEF ReadsFit, FitsInMemory, Size
<1>4. DecodesOnwards(algo, data, data, OriginalSize(data)) /\ RestoresData(algo, data)
  BY <1>2 DEF CodecsRestore, ReadsFit
<1>5. payload \in Seq(Byte) /\ Len(payload) \in Nat
  BY <1>4, LenProperties DEF DecodesOnwards
<1>6. header \in Seq(Byte) /\ Len(header) = HeaderLength /\ HeaderLength \in Nat
  BY <1>2, WriteHeaderFields
<1>7. Produced(q) = header \o payload
  BY DEF Produced, Declared
<1>8. IsPrefix(read, header \o payload)
  <2>1. IsPrefix(read, content[output[q]])
    BY <1>1 DEF IInv, FreshInv, Fresh
  <2>2. put[q] <= Len(Produced(q)) /\ content[output[q]] = SubSeq(Produced(q), 1, put[q])
    BY <1>1 DEF IInv, StepInv, InStep, OwnInv
  <2>3. Produced(q) \in Seq(Byte) /\ Len(Produced(q)) \in Nat
    BY ProducedType, LenProperties DEF IInv
  <2>4. put[q] \in 0 .. Len(Produced(q)) /\ put[q] \in 0 .. put[q]
    BY <1>2, <2>2, <2>3
  <2>5. IsPrefix(content[output[q]], Produced(q))
    BY <2>2, <2>3, <2>4, FrontIsPrefix
  <2> QED
    BY <1>2, <1>7, <2>1, <2>3, <2>5, PrefixOfPrefix
<1>9. Len(read) >= HeaderLength
  BY <1>1 DEF HeaderIsValid
<1> HIDE DEF algo, data, payload, header, read
<1>10. /\ AlgorithmId(read) = algo /\ OriginalSize(read) = Len(data)
       /\ AfterHeader(read) = SubSeq(payload, 1, n)
  BY <1>2, <1>3, <1>5, <1>8, <1>9, HeaderIsReadBack DEF header
<1>11. n \in 0 .. Len(payload)
  <2>1. header \o payload \in Seq(Byte) /\ Len(header \o payload) = HeaderLength + Len(payload)
    BY <1>5, <1>6, Joined
  <2>2. Len(read) <= HeaderLength + Len(payload)
    <3> DEFINE whole == header \o payload
    <3>1. whole \in Seq(Byte) /\ IsPrefix(read, whole) /\ Len(whole) = HeaderLength + Len(payload)
      BY <1>8, <2>1
    <3> HIDE DEF whole
    <3> QED
      BY <1>2, <3>1, PrefixElements
  <2> QED
    BY <1>2, <1>5, <1>6, <1>9, <2>2
<1>12. Verdict(algo, SubSeq(payload, 1, n), Len(data), ended[p]) = "accepted"
  BY <1>1, <1>10 DEF Decision, Stream, read
<1> HIDE DEF n
<1>13. Restored(algo, SubSeq(payload, 1, n), Len(data)) = data
  BY <1>2, <1>4, <1>11, <1>12 DEF RestoresData, payload
<1>14. Produced(p) = data
  BY <1>10, <1>13 DEF Produced, Stream, read
<1> QED
  BY <1>14, WrittenAlone DEF data

-----------------------------------------------------------------------------
(***************************************************************************)
(* The file or its archive.                                                *)
(***************************************************************************)
\* What a step of p does: it changes what has p's own name for the output, the
\* inode of its own output, and its own state.
OwnStep(p) ==
  /\ UNCHANGED <<job, before, edits>> /\ trouble \subseteq trouble'
  /\ \A q \in Process \ {p} :
       /\ step'[q] = step[q] /\ input'[q] = input[q] /\ output'[q] = output[q]
       /\ got'[q] = got[q] /\ ended'[q] = ended[q]
  /\ \A name \in DOMAIN dir \ {job[p].output} : name \in DOMAIN dir' /\ dir'[name] = dir[name]
  /\ \A i \in Inode \ {output'[p]} : content'[i] = content[i] /\ writers'[i] = writers[i]
  /\ \A i \in Inode : writers'[i] \subseteq writers[i] \cup {p}
  /\ output'[p] # output[p] =>
       \A name \in DOMAIN dir \ {job[p].output} : dir[name] # output'[p]

LEMMA CreateIsOwn ==
  ASSUME IInv, NEW p \in Process, Create(p)
  PROVE  OwnStep(p)
<1> DEFINE name == job[p].output
<1>1. PICK i \in Inode :
        /\ DOMAIN dir' = DOMAIN dir \cup {name}
        /\ \A other \in DOMAIN dir : other # name => dir'[other] = dir[other]
        /\ \/ name \in DOMAIN dir /\ dir[name] = i
           \/ name \notin DOMAIN dir /\ i \in Unused
        /\ output' = [output EXCEPT ![p] = i]
        /\ StoreAt(i, <<>>, p)
  BY CreateEffect
<1>2. /\ step' = [step EXCEPT ![p] = IF Compresses(p) THEN "writing" ELSE "decoding"]
      /\ UNCHANGED <<job, before, input, got, ended, put, edits, trouble>>
  BY DEF Create, Goto, history
<1>3. output'[p] = i
  BY <1>1 DEF IInv, StateInv
<1>4. \A other \in DOMAIN dir \ {name} : dir[other] # i
  <2> SUFFICES ASSUME NEW other \in DOMAIN dir \ {name}, dir[other] = i PROVE FALSE
    OBVIOUS
  <2>1. i \in Range(dir)
    BY DEF Range
  <2>2. name \in DOMAIN dir /\ dir[name] = i
    BY <1>1, <2>1 DEF Unused
  <2> QED
    BY <2>2 DEF IInv, StateInv, IsInjective
<1>5. \A q \in Process \ {p} : step'[q] = step[q] /\ output'[q] = output[q]
  BY <1>1, <1>2 DEF IInv, StateInv
<1>6. /\ \A j \in Inode \ {i} : content'[j] = content[j] /\ writers'[j] = writers[j]
      /\ \A j \in Inode : writers'[j] \subseteq writers[j] \cup {p}
  BY <1>1 DEF StoreAt, IInv, StateInv
<1> QED
  BY <1>1, <1>2, <1>3, <1>4, <1>5, <1>6 DEF OwnStep

LEMMA WriteIsOwn ==
  ASSUME IInv, NEW p \in Process, Write(p)
  PROVE  OwnStep(p)
<1>1. \E bytes : Store(output[p], bytes, p)
  BY DEF Write
<1>2. PICK bytes : Store(output[p], bytes, p)
  BY <1>1
<1>3. UNCHANGED <<dir, job, before, step, input, output, got, ended, edits, trouble>>
  BY DEF Write, history
<1>4. /\ \A j \in Inode \ {output[p]} : content'[j] = content[j] /\ writers'[j] = writers[j]
      /\ \A j \in Inode : writers'[j] \subseteq writers[j] \cup {p}
  BY <1>2 DEF Store, IInv, StateInv
<1> QED
  BY <1>3, <1>4 DEF OwnStep

LEMMA StepIsOwn ==
  ASSUME IInv, NEW p \in Process, Run(p) \/ ReadFails(p) \/ WriteFails(p) \/ Kill(p)
  PROVE  OwnStep(p)
<1> USE DEF Goto, OwnStep, fileVars, history, IInv, StateInv
<1>1. CASE OpenInput(p)
  BY <1>1 DEF OpenInput
<1>2. CASE OpenInputFails(p)
  BY <1>2 DEF OpenInputFails
<1>3. CASE Read(p)
  BY <1>3 DEF Read
<1>4. CASE RejectHeader(p)
  BY <1>4 DEF RejectHeader
<1>5. CASE Create(p)
  BY <1>5, CreateIsOwn
<1>6. CASE CreateFails(p)
  BY <1>6 DEF CreateFails
<1>7. CASE Write(p)
  BY <1>7, WriteIsOwn
<1>8. CASE Decide(p)
  BY <1>8 DEF Decide
<1>9. CASE Succeed(p)
  BY <1>9 DEF Succeed
<1>10. CASE RemoveOutput(p)
  BY <1>10 DEF RemoveOutput, Restrict
<1>11. CASE ReadFails(p)
  BY <1>11 DEF ReadFails
<1>12. CASE WriteFails(p)
  BY <1>12 DEF WriteFails
<1>13. CASE Kill(p)
  BY <1>13 DEF Kill
<1> QED
  BY <1>1, <1>2, <1>3, <1>4, <1>5, <1>6, <1>7, <1>8, <1>9, <1>10, <1>11, <1>12, <1>13 DEF Run

\* A command whose output has another name leaves the file alone.
LEMMA NotesStayKept ==
  ASSUME IInv, NotesKept, NEW p \in Process, OwnStep(p), job[p].output # "notes"
  PROVE  NotesKept'
<1>1. "notes" \in DOMAIN dir' /\ dir'["notes"] = dir["notes"]
  BY DEF OwnStep, NotesKept
<1>2. dir["notes"] \in Inode /\ dir["notes"] # output'[p]
  BY DEF OwnStep, NotesKept, IInv, StateInv
<1>3. \A q \in Process : output'[q] # dir["notes"]
  BY <1>2 DEF OwnStep, NotesKept
<1> QED
  BY <1>1, <1>2, <1>3 DEF OwnStep, NotesKept

\* No other command reaches an archive that is being made.
LEMMA ArchiveStaysAlone ==
  ASSUME IInv, NEW r \in Process, ArchiveOfAll(r), NEW p \in Process \ {r}, OwnStep(p),
         job[p].output # "notes.lac"
  PROVE  ArchiveOfAll(r)'
<1> DEFINE i == output[r]
<1>1. i \in Inode /\ dir["notes.lac"] = i /\ "notes.lac" \in DOMAIN dir /\ writers[i] = {r}
  BY DEF ArchiveOfAll, IInv, StateInv
<1>2. output[p] # i
  BY <1>1 DEF IInv, WriterInv
<1>3. output'[p] # i
  BY <1>1, <1>2 DEF OwnStep
<1>4. /\ dir'["notes.lac"] = i /\ "notes.lac" \in DOMAIN dir' /\ writers'[i] = {r} /\ output'[r] = i
      /\ UNCHANGED <<job, before>> /\ step'[r] = step[r] /\ got'[r] = got[r]
  BY <1>1, <1>3 DEF OwnStep
<1> QED
  BY <1>4 DEF ArchiveOfAll, Compresses

\* Its own command goes on writing it, and ends well when nothing fails.
LEMMA ArchiveGoesOn ==
  ASSUME IInv, NEW p \in Process, ArchiveOfAll(p), trouble' = {},
         Run(p) \/ ReadFails(p) \/ WriteFails(p) \/ Kill(p)
  PROVE  ArchiveOfAll(p)'
<1>1. step[p] \in {"writing", "succeeded"} /\ Compresses(p)
  BY DEF ArchiveOfAll
<1>2. Write(p) \/ Succeed(p)
  BY <1>1 DEF Run, OpenInput, OpenInputFails, Read, WantsInput, RejectHeader, Create, CreateFails,
              ReadyToCreate, Decide, RemoveOutput, ReadFails, WriteFails, Kill
<1>3. OwnStep(p)
  BY StepIsOwn
<1>4. UNCHANGED <<job, before, dir, output, got>> /\ step'[p] \in {"writing", "succeeded"}
  BY <1>1, <1>2 DEF Write, Succeed, Goto, fileVars, history, IInv, StateInv
<1>5. writers'[output[p]] = {p}
  <2>1. output[p] \in Inode /\ p \in writers'[output[p]]
    <3>1. output[p] \in Inode
      BY DEF ArchiveOfAll, IInv, StateInv
    <3> QED
      BY <1>2, <3>1 DEF Write, Store, Succeed, fileVars, ArchiveOfAll, IInv, StateInv
  <2> QED
    BY <1>3, <2>1 DEF OwnStep, ArchiveOfAll
<1> QED
  BY <1>4, <1>5 DEF ArchiveOfAll, Compresses

\* A read that finds nothing more has the whole file.
LEMMA WholeFileRead ==
  ASSUME NEW read \in Seq(Byte), NEW bytes \in Seq(Byte), IsPrefix(read, bytes),
         NEW n \in Nat \ {0}, read \o Slice(bytes, Len(read) + 1, n) = read
  PROVE  read = bytes
<1> DEFINE slice == Slice(bytes, Len(read) + 1, n)
<1>1. /\ Len(read) \in Nat /\ Len(bytes) \in Nat /\ Len(read) <= Len(bytes)
      /\ \A k \in 1 .. Len(read) : read[k] = bytes[k]
  BY LenProperties, PrefixElements
<1>2. slice \in Seq(Byte) /\ (Len(read) < Len(bytes) => Len(slice) >= 1)
  BY <1>1, SliceFacts
<1> HIDE DEF slice
<1>3. Len(read \o slice) = Len(read) + Len(slice) /\ Len(slice) \in Nat
  BY <1>2, Joined, LenProperties
<1>4. Len(slice) = 0
  BY <1>1, <1>3 DEF slice
<1>5. Len(read) = Len(bytes)
  BY <1>1, <1>2, <1>4
<1> QED
  BY <1>1, <1>5, SeqEqual

\* Where there is only the file, a command opens, reads or refuses it, or makes
\* the archive.
LEMMA NothingMadeEnds ==
  ASSUME IInv, NothingMade, DefaultNames, NEW p \in Process, trouble' = {},
         Run(p) \/ ReadFails(p) \/ WriteFails(p) \/ Kill(p)
  PROVE  \/ OpenInputFails(p)
         \/ Compresses(p) /\ (OpenInput(p) \/ Read(p) \/ ReadFails(p) \/ CreateFails(p) \/ Create(p))
<1>1. output[p] = NoInode
  BY DEF NothingMade
<1>2. step[p] \notin {"decoding", "writing", "removing"}
  BY <1>1 DEF IInv, StepInv, InStep
<1>3. CASE Compresses(p)
  <2>1. Run(p) \/ ReadFails(p)
    BY DEF WriteFails, Kill
  <2> QED
    BY <1>2, <1>3, <2>1 DEF Run, RejectHeader, Write, WantsToWrite, Decide, Succeed, RemoveOutput
<1>4. CASE ~Compresses(p)
  <2>1. job[p].input = "notes.lac" /\ "notes.lac" \notin DOMAIN dir /\ step[p] \in {"starting", "failed"}
    BY <1>4 DEF DefaultNames, NothingMade
  <2> QED
    BY <1>4, <2>1 DEF Run, OpenInput, Read, WantsInput, RejectHeader, Create, CreateFails, ReadyToCreate,
                      Write, WantsToWrite, Decide, Succeed, RemoveOutput, ReadFails, WriteFails, Kill
<1> QED
  BY <1>3, <1>4

\* What a step that makes nothing must keep.
LEMMA NothingMadeStays ==
  ASSUME IInv, NothingMade, NEW p \in Process, OwnStep(p),
         UNCHANGED <<dir, content, output>>,
         IF Compresses(p)
           THEN /\ IsPrefix(got'[p], before["notes"])
                /\ step'[p] = "reading" => input'[p] = dir["notes"]
                /\ ended'[p] => got'[p] = before["notes"]
           ELSE step'[p] \in {"starting", "failed"}
  PROVE  NothingMade'
<1>1. \A q \in Process : Compresses(q)' <=> Compresses(q)
  BY DEF OwnStep, Compresses
<1>2. NotesKept'
  BY DEF NothingMade, NotesKept, OwnStep
<1>3. \A q \in Process :
        IF Compresses(q)'
          THEN /\ IsPrefix(got'[q], before'["notes"])
               /\ step'[q] = "reading" => input'[q] = dir'["notes"]
               /\ ended'[q] => got'[q] = before'["notes"]
          ELSE step'[q] \in {"starting", "failed"}
  <2> SUFFICES ASSUME NEW q \in Process
               PROVE  IF Compresses(q)'
                        THEN /\ IsPrefix(got'[q], before'["notes"])
                             /\ step'[q] = "reading" => input'[q] = dir'["notes"]
                             /\ ended'[q] => got'[q] = before'["notes"]
                        ELSE step'[q] \in {"starting", "failed"}
    OBVIOUS
  <2>1. before' = before /\ dir' = dir
    BY DEF OwnStep
  <2>2. CASE q = p
    BY <1>1, <2>1, <2>2
  <2>3. CASE q # p
    BY <1>1, <2>1, <2>3 DEF OwnStep, NothingMade
  <2> QED
    BY <2>2, <2>3
<1> QED
  BY <1>2, <1>3 DEF NothingMade

LEMMA OpenInputMakesNothing ==
  ASSUME IInv, NothingMade, DefaultNames, NEW p \in Process, Compresses(p), OpenInput(p)
  PROVE  NothingMade'
<1>1. /\ UNCHANGED <<dir, content, output, got, ended>> /\ input'[p] = dir["notes"]
  BY DEF OpenInput, DefaultNames, fileVars, IInv, StateInv
<1>2. OwnStep(p)
  BY StepIsOwn DEF Run
<1> QED
  BY <1>1, <1>2, NothingMadeStays DEF NothingMade

LEMMA ReadMakesNothing ==
  ASSUME IInv, NothingMade, NEW p \in Process, Compresses(p), Read(p)
  PROVE  NothingMade'
<1> DEFINE notes == before["notes"]
           more == Slice(notes, Len(got[p]) + 1, ReadAhead)
<1>1. step[p] = "reading" /\ ended[p] = FALSE
  BY ReadEffect DEF Read, WantsInput, IInv, StateInv
<1>2. /\ input[p] = dir["notes"] /\ content[input[p]] = notes /\ IsPrefix(got[p], notes)
      /\ notes \in Seq(Byte) /\ got[p] \in Seq(Byte)
  BY <1>1 DEF NothingMade, NotesKept, IInv, StateInv
<1>3. UNCHANGED <<dir, content, output, input, step>>
  BY DEF Read, fileVars
<1>4. got'[p] = got[p] \o more /\ (ended'[p] <=> got'[p] = got[p])
  BY <1>2 DEF Read, IInv, StateInv
<1> HIDE DEF notes
<1>5. IsPrefix(got'[p], notes)
  BY <1>2, <1>4, ReadsOn, SharedFilesAssumption
<1>6. got'[p] = got[p] => got'[p] = notes
  BY <1>2, <1>4, WholeFileRead, SharedFilesAssumption
<1>7. OwnStep(p)
  BY StepIsOwn DEF Run
<1> QED
  BY <1>2, <1>3, <1>4, <1>5, <1>6, <1>7, NothingMadeStays DEF notes

LEMMA CreateFailsMakesNothing ==
  ASSUME IInv, NothingMade, NEW p \in Process, Compresses(p), CreateFails(p)
  PROVE  NothingMade'
<1>1. UNCHANGED <<dir, content, output, input, got, ended>> /\ step'[p] = "failed"
  BY DEF CreateFails, Goto, fileVars, IInv, StateInv
<1>2. OwnStep(p)
  BY StepIsOwn DEF Run
<1> QED
  BY <1>1, <1>2, NothingMadeStays DEF NothingMade

LEMMA OpenInputFailsMakesNothing ==
  ASSUME IInv, NothingMade, NEW p \in Process, OpenInputFails(p)
  PROVE  NothingMade'
<1>1. UNCHANGED <<dir, content, output, input, got, ended>> /\ step'[p] = "failed"
  BY DEF OpenInputFails, Goto, fileVars, IInv, StateInv
<1>2. OwnStep(p)
  BY StepIsOwn DEF Run
<1> QED
  BY <1>1, <1>2, NothingMadeStays DEF NothingMade

LEMMA ReadFailsMakesNothing ==
  ASSUME IInv, NothingMade, NEW p \in Process, Compresses(p), ReadFails(p)
  PROVE  NothingMade'
<1>1. UNCHANGED <<dir, content, output, input, got, ended>> /\ step'[p] = "killed"
  BY DEF ReadFails, Goto, fileVars, IInv, StateInv
<1>2. OwnStep(p)
  BY StepIsOwn
<1> QED
  BY <1>1, <1>2, NothingMadeStays DEF NothingMade

LEMMA CreateMakesArchive ==
  ASSUME IInv, NothingMade, DefaultNames, NEW p \in Process, Compresses(p), Create(p),
         \A i \in Inode : "editor" \notin writers[i]
  PROVE  ArchiveOfAll(p)'
<1>1. job[p].output = "notes.lac"
  BY DEF DefaultNames
<1>2. PICK i \in Inode :
        /\ DOMAIN dir' = DOMAIN dir \cup {job[p].output}
        /\ dir'[job[p].output] = i
        /\ output' = [output EXCEPT ![p] = i]
        /\ StoreAt(i, <<>>, p)
  BY CreateEffect
<1>3. UNCHANGED <<job, before, got>> /\ step'[p] = "writing" /\ ended[p]
  BY DEF Create, ReadyToCreate, Goto, history, IInv, StateInv
<1>4. writers[i] = {}
  <2>1. \A q \in Process : q \notin writers[i]
    BY SharedFilesAssumption DEF NothingMade, IInv, WriterInv
  <2> QED
    BY <2>1 DEF IInv, StateInv
<1>5. output'[p] = i /\ writers'[i] = {p}
  BY <1>2, <1>4 DEF StoreAt, IInv, StateInv
<1>6. got[p] = before["notes"]
  BY <1>3 DEF NothingMade
<1> QED
  BY <1>1, <1>2, <1>3, <1>5, <1>6 DEF ArchiveOfAll, Compresses

LEMMA NotesInit ==
  ASSUME Init
  PROVE  NotesInv
<1>1. IInv
  BY InitKeeps
<1>2. "notes" \in DOMAIN before => NotesKept
  <2> HAVE "notes" \in DOMAIN before
  <2> DEFINE i == dir["notes"]
  <2>1. before \in [DOMAIN before -> Seq(Byte)] /\ \E place \in [DOMAIN before -> Inode] : IsInjective(place)
    BY SharedFilesAssumption DEF Init
  <2>2. dir \in [DOMAIN before -> Inode] /\ IsInjective(dir)
    BY <2>1 DEF Init
  <2>3. i \in Inode /\ i \in Range(dir) /\ "notes" \in DOMAIN dir
    BY <2>2 DEF Range
  <2>4. AntiFunction(dir)[i] = "notes"
    <3>1. AntiFunction(dir)[i] = CHOOSE name \in DOMAIN dir : i \in Range(dir) => dir[name] = i
      BY <2>3 DEF AntiFunction, Inverse
    <3>2. \A name \in DOMAIN dir : (i \in Range(dir) => dir[name] = i) <=> name = "notes"
      BY <2>2, <2>3 DEF IsInjective
    <3> HIDE DEF i
    <3> QED
      BY <2>3, <3>1, <3>2
  <2>5. content[i] = before["notes"]
    BY <2>3, <2>4 DEF Init
  <2>6. \A p \in Process : output[p] # i
    BY <2>3, SharedFilesAssumption DEF Init
  <2> QED
    BY <2>3, <2>5, <2>6 DEF NotesKept
<1>3. DefaultNames => NothingMade
  <2> HAVE DefaultNames
  <2>1. DOMAIN before = {"notes"} /\ before["notes"] \in Seq(Byte) /\ Len(before["notes"]) \in Nat
    BY SharedFilesAssumption, LenProperties DEF Init, DefaultNames
  <2>2. DOMAIN dir = {"notes"}
    BY <1>1, <2>1, SharedFilesAssumption DEF Init
  <2>3. \A p \in Process : IsPrefix(got[p], before["notes"])
    <3> TAKE p \in Process
    <3>1. got[p] = <<>>
      BY DEF Init
    <3>2. got[p] \in Seq(Byte) /\ Len(got[p]) = 0
      BY <3>1, EmptySeq
    <3> QED
      BY <2>1, <3>2, PointwisePrefix
  <2> QED
    BY <1>2, <2>1, <2>2, <2>3 DEF Init, NothingMade
<1>4. \A i \in Inode : "editor" \notin writers[i]
  BY DEF Init
<1> QED
  BY <1>2, <1>3, <1>4 DEF NotesInv, DefaultNames

LEMMA NotesNext ==
  ASSUME IInv, NotesInv, [Next]_vars
  PROVE  NotesInv'
<1>1. CASE UNCHANGED vars
  BY <1>1 DEF vars, fileVars, history, NotesInv, Undisturbed, DefaultNames, AllCompress, OneCompresses,
              Compresses, NotesKept, NothingMade, ArchiveOfAll
<1>2. CASE Edit
  <2>1. edits' # 0
    BY <1>2 DEF Edit, IInv, StateInv
  <2> QED
    BY <2>1 DEF NotesInv, Undisturbed
<1>3. ASSUME NEW p \in Process, Run(p) \/ ReadFails(p) \/ WriteFails(p) \/ Kill(p)
      PROVE  NotesInv'
  <2>1. OwnStep(p)
    BY <1>3, StepIsOwn
  <2>2. UNCHANGED <<job, before, edits>> /\ (Undisturbed' => Undisturbed)
    BY <2>1 DEF OwnStep, Undisturbed
  <2>3. /\ DefaultNames' <=> DefaultNames
        /\ AllCompress' <=> AllCompress
        /\ OneCompresses' <=> OneCompresses
    BY <2>2 DEF DefaultNames, AllCompress, OneCompresses, Compresses
  <2>4. edits' = 0 => \A i \in Inode : "editor" \notin writers'[i]
    <3>1. p # "editor"
      BY SharedFilesAssumption
    <3> QED
      BY <2>1, <3>1 DEF OwnStep, NotesInv
  <2>5. (Undisturbed /\ DefaultNames /\ AllCompress => NotesKept)'
    <3> SUFFICES ASSUME Undisturbed', DefaultNames, AllCompress PROVE NotesKept'
      BY <2>3
    <3>1. NotesKept
      BY <2>2 DEF NotesInv
    <3>2. job[p].output # "notes"
      BY DEF DefaultNames, AllCompress
    <3> QED
      BY <2>1, <3>1, <3>2, NotesStayKept
  <2>6. (Undisturbed /\ DefaultNames /\ OneCompresses =>
           NothingMade \/ \E q \in Process : ArchiveOfAll(q))'
    <3> SUFFICES ASSUME Undisturbed', DefaultNames, OneCompresses
                 PROVE  NothingMade' \/ \E q \in Process : ArchiveOfAll(q)'
      BY <2>3
    <3>1. trouble' = {} /\ edits = 0
      BY <2>2 DEF Undisturbed
    <3>2. NothingMade \/ \E q \in Process : ArchiveOfAll(q)
      BY <2>2 DEF NotesInv
    <3>3. CASE NothingMade
      <4>1. CASE Compresses(p) /\ OpenInput(p)
        BY <3>3, <4>1, OpenInputMakesNothing
      <4>2. CASE Compresses(p) /\ Read(p)
        BY <3>3, <4>2, ReadMakesNothing
      <4>3. CASE Compresses(p) /\ CreateFails(p)
        BY <3>3, <4>3, CreateFailsMakesNothing
      <4>4. CASE Compresses(p) /\ Create(p)
        <5>1. \A i \in Inode : "editor" \notin writers[i]
          BY <3>1 DEF NotesInv
        <5> QED
          BY <3>3, <4>4, <5>1, CreateMakesArchive
      <4>5. CASE OpenInputFails(p)
        BY <3>3, <4>5, OpenInputFailsMakesNothing
      <4>6. CASE Compresses(p) /\ ReadFails(p)
        BY <3>3, <4>6, ReadFailsMakesNothing
      <4> QED
        BY <1>3, <3>1, <3>3, <4>1, <4>2, <4>3, <4>4, <4>5, <4>6, NothingMadeEnds
    <3>4. ASSUME NEW q \in Process, ArchiveOfAll(q)
          PROVE  ArchiveOfAll(q)'
      <4>1. CASE q = p
        BY <1>3, <3>1, <3>4, <4>1, ArchiveGoesOn
      <4>2. CASE q # p
        <5>1. ~Compresses(p)
          BY <3>4, <4>2 DEF OneCompresses, ArchiveOfAll
        <5>2. job[p].output # "notes.lac"
          BY <5>1 DEF DefaultNames
        <5> QED
          BY <2>1, <3>4, <4>2, <5>2, ArchiveStaysAlone
      <4> QED
        BY <4>1, <4>2
    <3> QED
      BY <3>2, <3>3, <3>4
  <2> QED
    BY <2>4, <2>5, <2>6 DEF NotesInv
<1> QED
  BY <1>1, <1>2, <1>3 DEF Next

LEMMA NothingLostFollows ==
  ASSUME CodecsRestore, IInv, NotesInv, ReadsFit
  PROVE  NothingIsLost
<1> SUFFICES ASSUME \A p \in Process : step[p] \in Over,
                    Undisturbed, DefaultNames, AllCompress \/ OneCompresses
             PROVE  \E name \in DOMAIN dir :
                      \/ content[dir[name]] = before["notes"]
                      \/ IsArchiveOf(content[dir[name]], before["notes"])
  BY DEF NothingIsLost
<1>1. CASE NotesKept
  BY <1>1 DEF NotesKept
<1>2. ASSUME NEW p \in Process, ArchiveOfAll(p)
      PROVE  IsArchiveOf(content[dir["notes.lac"]], before["notes"])
  <2>1. step[p] = "succeeded" /\ trouble = {}
    BY <1>2 DEF ArchiveOfAll, Over, Undisturbed
  <2>2. Well(p)
    BY <2>1 DEF Well
  <2> QED
    BY <1>2, <2>2, ArchiveFollows DEF ArchiveOfAll, ArchiveHoldsWhatWasRead
<1>3. NotesKept \/ \E p \in Process : ArchiveOfAll(p)
  BY DEF NotesInv, NothingMade
<1>4. \A p \in Process : ArchiveOfAll(p) => "notes.lac" \in DOMAIN dir
  BY DEF ArchiveOfAll
<1> QED
  BY <1>1, <1>2, <1>3, <1>4

LEMMA TypesFollow ==
  ASSUME IInv
  PROVE  TypeOK
<1>1. Range(dir) \subseteq Inode
  BY DEF IInv, StateInv, Range
<1> QED
  BY <1>1 DEF IInv, StateInv, StepInv, InStep, Steps, TypeOK

\* The commands stay in their order of steps, and none writes more than it has
\* (main.cpp:192-298, 300-412).
THEOREM TypeCorrectness == CodecsRestore => (Spec => []TypeOK)
<1> SUFFICES ASSUME CodecsRestore PROVE Spec => []TypeOK
  OBVIOUS
<1>1. IInv => TypeOK
  BY TypesFollow
<1>2. Spec => []IInv
  BY InvariantHolds
<1> QED
  BY <1>1, <1>2, PTL

\* Whatever happens to its input meanwhile, a compress that ends well leaves an
\* archive of exactly what it read (main.cpp:196-211, benchmark.cpp:60-67).
THEOREM CompressKeepsWhatItRead ==
  CodecsRestore => (Spec => [](ReadsFit => ArchiveHoldsWhatWasRead))
<1> SUFFICES ASSUME CodecsRestore PROVE Spec => [](ReadsFit => ArchiveHoldsWhatWasRead)
  OBVIOUS
<1>1. IInv => (ReadsFit => ArchiveHoldsWhatWasRead)
  BY ArchiveFollows
<1>2. Spec => []IInv
  BY InvariantHolds
<1> QED
  BY <1>1, <1>2, PTL

\* A decompress that reads an archive while it comes into being ends well with
\* the whole contents or not at all (main.cpp:278-285, 350-407).
THEOREM HalfAnArchiveIsRefused ==
  CodecsRestore => (Spec => [](ReadsFit => NewArchiveIsWholeOrRefused))
<1> SUFFICES ASSUME CodecsRestore PROVE Spec => [](ReadsFit => NewArchiveIsWholeOrRefused)
  OBVIOUS
<1>1. IInv => (ReadsFit => NewArchiveIsWholeOrRefused)
  BY NewArchiveFollows
<1>2. Spec => []IInv
  BY InvariantHolds
<1> QED
  BY <1>1, <1>2, PTL

\* However the pieces of two compress commands with the same input and output
\* mix, one whole archive remains (main.cpp:278-290).
THEOREM SameArchiveRemains ==
  CodecsRestore => (Spec => [](ReadsFit => SameArchiveTwice))
<1> SUFFICES ASSUME CodecsRestore PROVE Spec => [](ReadsFit => SameArchiveTwice)
  OBVIOUS
<1>1. IInv => (ReadsFit => SameArchiveTwice)
  BY SameArchiveFollows
<1>2. Spec => []IInv
  BY InvariantHolds
<1> QED
  BY <1>1, <1>2, PTL

\* Without -o and without failures, any number of commands at once of which one
\* compresses, or all do, leave a file's contents in the file or in its archive
\* (main.cpp:196-211, 268-285, 350-407).
THEOREM NothingLost == CodecsRestore => (Spec => [](ReadsFit => NothingIsLost))
<1> SUFFICES ASSUME CodecsRestore PROVE Spec => [](ReadsFit => NothingIsLost)
  OBVIOUS
<1>1. IInv /\ NotesInv => (ReadsFit => NothingIsLost)
  BY NothingLostFollows
<1>2. Init => NotesInv
  BY NotesInit
<1>3. IInv /\ NotesInv /\ [Next]_vars => NotesInv'
  BY NotesNext
<1>4. Spec => []IInv
  BY InvariantHolds
<1> QED
  BY <1>1, <1>2, <1>3, <1>4, PTL DEF Spec
=============================================================================
