---------------------------- MODULE LacHeaderProofs ----------------------------
(***************************************************************************)
(* What write_header wrote, read_header reads, also from an archive that   *)
(* was cut off somewhere behind the header.                                *)
(***************************************************************************)
EXTENDS LacHeader, LittleEndianProofs

-----------------------------------------------------------------------------
\* Two byte sequences, one after the other.
LEMMA Joined ==
  ASSUME NEW s \in Seq(Byte), NEW t \in Seq(Byte)
  PROVE  /\ s \o t \in Seq(Byte) /\ Len(s) \in Nat /\ Len(t) \in Nat
         /\ Len(s \o t) = Len(s) + Len(t)
         /\ \A k \in 1 .. Len(s) : (s \o t)[k] = s[k]
         /\ \A k \in 1 .. Len(t) : (s \o t)[Len(s) + k] = t[k]
<1>1. Len(s) \in Nat /\ Len(t) \in Nat
  BY LenProperties
<1>2. /\ s \o t \in Seq(Byte) /\ Len(s \o t) = Len(s) + Len(t)
      /\ \A k \in 1 .. Len(s) + Len(t) :
           (s \o t)[k] = IF k <= Len(s) THEN s[k] ELSE t[k - Len(s)]
  BY ConcatProperties
<1>3. \A k \in 1 .. Len(s) : k \in 1 .. Len(s) + Len(t) /\ k <= Len(s)
  BY <1>1
<1>4. \A k \in 1 .. Len(t) :
        Len(s) + k \in 1 .. Len(s) + Len(t) /\ ~(Len(s) + k <= Len(s)) /\ Len(s) + k - Len(s) = k
  BY <1>1
<1> QED
  BY <1>1, <1>2, <1>3, <1>4

\* The fields of the header, one after the other.
LEMMA WriteHeaderFields ==
  ASSUME NEW algo \in Algorithms, NEW size \in Nat
  PROVE  LET header == WriteHeader(algo, size)
         IN  /\ header \in Seq(Byte) /\ Len(header) = HeaderLength
             /\ HeaderLength \in Nat /\ HeaderLength = Len(Magic) + 2 + SizeBytes
             /\ \A k \in 1 .. Len(Magic) : header[k] = Magic[k]
             /\ header[Len(Magic) + 1] = CurrentVersion
             /\ header[Len(Magic) + 2] = algo
             /\ \A k \in 1 .. SizeBytes : header[Len(Magic) + 2 + k] = ToBytes(size, SizeBytes)[k]
<1> DEFINE fields == <<CurrentVersion, algo>>
           front == Magic \o fields
           digits == ToBytes(size, SizeBytes)
<1>1. Magic \in Seq(Byte) /\ Len(Magic) \in Nat /\ SizeBytes \in Nat
  BY HeaderAssumption, LenProperties
<1>2. fields \in Seq(Byte) /\ Len(fields) = 2 /\ fields[1] = CurrentVersion /\ fields[2] = algo
  BY HeaderAssumption, ByteStreamAssumption DEF CurrentVersion, Algorithms, Rle, Huffman, Byte
<1>3. digits \in Seq(Byte) /\ Len(digits) = SizeBytes
  BY <1>1, ToBytesType
<1> HIDE DEF fields, digits
<1>4. /\ front \in Seq(Byte) /\ Len(front) = Len(Magic) + 2
      /\ \A k \in 1 .. Len(Magic) : front[k] = Magic[k]
      /\ front[Len(Magic) + 1] = CurrentVersion /\ front[Len(Magic) + 2] = algo
  <2>1. /\ front \in Seq(Byte) /\ Len(front) = Len(Magic) + Len(fields)
        /\ \A k \in 1 .. Len(Magic) : front[k] = Magic[k]
        /\ \A k \in 1 .. Len(fields) : front[Len(Magic) + k] = fields[k]
    BY <1>1, <1>2, Joined
  <2> HIDE DEF front
  <2> QED
    BY <1>2, <2>1
<1> HIDE DEF front
<1>5. /\ front \o digits \in Seq(Byte) /\ Len(front \o digits) = Len(front) + Len(digits)
      /\ \A k \in 1 .. Len(front) : (front \o digits)[k] = front[k]
      /\ \A k \in 1 .. Len(digits) : (front \o digits)[Len(front) + k] = digits[k]
  BY <1>3, <1>4, Joined
<1>6. WriteHeader(algo, size) = front \o digits
  BY DEF WriteHeader, front, fields, digits
<1>7. /\ \A k \in 1 .. Len(Magic) : k \in 1 .. Len(front)
      /\ Len(Magic) + 1 \in 1 .. Len(front) /\ Len(Magic) + 2 \in 1 .. Len(front)
  BY <1>1, <1>4
<1>8. HeaderLength \in Nat /\ HeaderLength = Len(Magic) + 2 + SizeBytes
  BY <1>1 DEF HeaderLength
<1> QED
  BY <1>3, <1>4, <1>5, <1>6, <1>7, <1>8 DEF digits

\* Bytes in front of others, element by element.
LEMMA PrefixElements ==
  ASSUME NEW bytes \in Seq(Byte), NEW whole \in Seq(Byte), IsPrefix(bytes, whole)
  PROVE  Len(bytes) <= Len(whole) /\ \A k \in 1 .. Len(bytes) : bytes[k] = whole[k]
<1>1. Len(bytes) \in Nat /\ Len(whole) \in Nat /\ Len(bytes) <= Len(whole)
  BY LenProperties DEF IsPrefix
<1>2. \A k \in 1 .. Len(whole) : whole[k] \in Byte
  BY ElementOfSeq
<1>3. /\ \A k \in 1 .. Len(bytes) : SubSeq(whole, 1, Len(bytes))[k] = whole[k]
  BY <1>1, <1>2, SubSeqProperties
<1>4. SubSeq(bytes, 1, Len(bytes)) = bytes
  BY SubSeqFull
<1> QED
  BY <1>1, <1>3, <1>4 DEF IsPrefix

\* The front part of a sequence.
LEMMA FrontPart ==
  ASSUME NEW S, NEW seq \in Seq(S), NEW n \in 0 .. Len(seq)
  PROVE  /\ SubSeq(seq, 1, n) \in Seq(S) /\ Len(SubSeq(seq, 1, n)) = n
         /\ \A i \in 1 .. n : SubSeq(seq, 1, n)[i] = seq[i]
<1> DEFINE front == SubSeq(seq, 1, n)
<1>1. Len(seq) \in Nat /\ n \in Nat /\ n <= Len(seq) /\ \A i \in 1 .. Len(seq) : seq[i] \in S
  BY LenProperties, ElementOfSeq
<1>2. \A i \in 1 .. n : seq[i] \in S
  BY <1>1
<1>3. /\ front \in Seq(S)
      /\ Len(front) = IF 1 <= n THEN n - 1 + 1 ELSE 0
      /\ \A i \in 1 .. n - 1 + 1 : front[i] = seq[1 + i - 1]
  BY <1>1, <1>2, SubSeqProperties
<1> HIDE DEF front
<1>4. \A i \in 1 .. n : i \in 1 .. n - 1 + 1 /\ 1 + i - 1 = i
  BY <1>1
<1>5. Len(front) = n
  BY <1>1, <1>3
<1> QED
  BY <1>3, <1>4, <1>5 DEF front

\* What is behind the header.
LEMMA AfterHeaderType ==
  ASSUME NEW bytes \in Seq(Byte)
  PROVE  AfterHeader(bytes) \in Seq(Byte)
<1>1. HeaderLength \in Nat /\ Len(bytes) \in Nat
  BY HeaderAssumption, LenProperties DEF HeaderLength
<1>2. \A k \in HeaderLength + 1 .. Len(bytes) : bytes[k] \in Byte
  BY <1>1, ElementOfSeq
<1> QED
  BY <1>1, <1>2, SubSeqProperties DEF AfterHeader

\* More bytes behind a valid header change only what is behind it.
LEMMA HeaderStays ==
  ASSUME NEW bytes \in Seq(Byte), NEW more \in Seq(Byte), HeaderIsValid(bytes)
  PROVE  /\ HeaderIsValid(bytes \o more)
         /\ AlgorithmId(bytes \o more) = AlgorithmId(bytes)
         /\ OriginalSize(bytes \o more) = OriginalSize(bytes)
         /\ AfterHeader(bytes \o more) = AfterHeader(bytes) \o more
<1> DEFINE whole == bytes \o more
           m == Len(Magic)
           h == HeaderLength
<1>1. /\ m \in Nat /\ SizeBytes \in Nat /\ h \in Nat /\ h = m + 2 + SizeBytes
      /\ Len(bytes) \in Nat /\ Len(more) \in Nat /\ h <= Len(bytes)
  BY HeaderAssumption, LenProperties DEF HeaderLength, HeaderIsValid
<1>2. /\ whole \in Seq(Byte) /\ Len(whole) = Len(bytes) + Len(more)
      /\ \A k \in 1 .. Len(bytes) : whole[k] = bytes[k]
      /\ \A k \in 1 .. Len(more) : whole[Len(bytes) + k] = more[k]
  BY Joined
<1> HIDE DEF whole
<1>3. \A k \in 1 .. Len(bytes) : bytes[k] \in Byte
  BY ElementOfSeq
<1>4. \A a \in Nat \ {0}, b \in Nat : b <= Len(bytes) => SubSeq(whole, a, b) = SubSeq(bytes, a, b)
  <2> TAKE a \in Nat \ {0}, b \in Nat
  <2> HAVE b <= Len(bytes)
  <2>1. \A k \in a .. b : k \in 1 .. Len(bytes)
    BY <1>1
  <2>2. \A k \in a .. b : bytes[k] \in Byte /\ whole[k] \in Byte
    BY <1>2, <1>3, <2>1
  <2>3. /\ SubSeq(whole, a, b) \in Seq(Byte) /\ SubSeq(bytes, a, b) \in Seq(Byte)
        /\ Len(SubSeq(whole, a, b)) = Len(SubSeq(bytes, a, b))
    BY <2>2, SubSeqProperties
  <2>4. \A k \in 1 .. b - a + 1 : /\ SubSeq(whole, a, b)[k] = whole[a + k - 1]
                                /\ SubSeq(bytes, a, b)[k] = bytes[a + k - 1]
    BY <2>2, SubSeqProperties
  <2>5. \A k \in 1 .. Len(SubSeq(whole, a, b)) :
          k \in 1 .. b - a + 1 /\ a + k - 1 \in 1 .. Len(bytes)
    <3>1. Len(SubSeq(whole, a, b)) = IF a <= b THEN b - a + 1 ELSE 0
      BY <2>2, SubSeqProperties
    <3> QED
      BY <1>1, <3>1
  <2>6. \A k \in 1 .. Len(SubSeq(whole, a, b)) : SubSeq(whole, a, b)[k] = SubSeq(bytes, a, b)[k]
    BY <1>2, <2>4, <2>5
  <2> QED
    BY <2>3, <2>6, SeqEqual
<1>5. m + 1 \in 1 .. Len(bytes) /\ m + 2 \in 1 .. Len(bytes) /\ m + 3 \in Nat \ {0} /\ m <= Len(bytes)
  BY <1>1
<1>6. IsPrefix(Magic, whole)
  <2>1. IsPrefix(Magic, bytes)
    BY DEF HeaderIsValid
  <2>2. m <= Len(whole)
    BY <1>1, <1>2
  <2>3. SubSeq(whole, 1, m) = SubSeq(bytes, 1, m)
    <3>1. 1 \in Nat \ {0} /\ m \in Nat /\ m <= Len(bytes)
      BY <1>1, <1>5
    <3> QED
      BY <1>4, <3>1
  <2> QED
    BY <2>1, <2>2, <2>3 DEF IsPrefix
<1>7. whole[m + 1] = bytes[m + 1] /\ whole[m + 2] = bytes[m + 2]
  BY <1>2, <1>5
<1>8. HeaderIsValid(whole)
  BY <1>1, <1>2, <1>6, <1>7 DEF HeaderIsValid
<1>9. OriginalSize(whole) = OriginalSize(bytes)
  BY <1>1, <1>4, <1>5 DEF OriginalSize
<1>10. AfterHeader(whole) = AfterHeader(bytes) \o more
  <2> DEFINE rest == SubSeq(whole, h + 1, Len(whole))
             known == SubSeq(bytes, h + 1, Len(bytes))
  <2>1. /\ \A k \in h + 1 .. Len(whole) : whole[k] \in Byte
        /\ \A k \in h + 1 .. Len(bytes) : bytes[k] \in Byte
    BY <1>1, <1>2, <1>3, ElementOfSeq
  <2>2. /\ known \in Seq(Byte) /\ Len(known) = Len(bytes) - h
        /\ \A k \in 1 .. Len(bytes) - h : known[k] = bytes[h + k]
    <3>1. /\ known \in Seq(Byte)
          /\ Len(known) = IF h + 1 <= Len(bytes) THEN Len(bytes) - (h + 1) + 1 ELSE 0
          /\ \A k \in 1 .. Len(bytes) - (h + 1) + 1 : known[k] = bytes[(h + 1) + k - 1]
      BY <1>1, <2>1, SubSeqProperties
    <3> HIDE DEF known
    <3>2. \A k \in 1 .. Len(bytes) - h : k \in 1 .. Len(bytes) - (h + 1) + 1 /\ (h + 1) + k - 1 = h + k
      BY <1>1
    <3> QED
      BY <1>1, <3>1, <3>2
  <2>3. /\ rest \in Seq(Byte) /\ Len(rest) = Len(bytes) - h + Len(more)
        /\ \A k \in 1 .. Len(bytes) - h + Len(more) : rest[k] = whole[h + k]
    <3>1. /\ rest \in Seq(Byte)
          /\ Len(rest) = IF h + 1 <= Len(whole) THEN Len(whole) - (h + 1) + 1 ELSE 0
          /\ \A k \in 1 .. Len(whole) - (h + 1) + 1 : rest[k] = whole[(h + 1) + k - 1]
      BY <1>1, <1>2, <2>1, SubSeqProperties
    <3> HIDE DEF rest
    <3>2. \A k \in 1 .. Len(bytes) - h + Len(more) :
            k \in 1 .. Len(whole) - (h + 1) + 1 /\ (h + 1) + k - 1 = h + k
      BY <1>1, <1>2
    <3>3. Len(rest) = Len(bytes) - h + Len(more)
      <4>1. \A x, y, z \in Nat : z <= x =>
              (IF z + 1 <= x + y THEN (x + y) - (z + 1) + 1 ELSE 0) = x - z + y
        OBVIOUS
      <4>2. Len(rest) = IF h + 1 <= Len(bytes) + Len(more)
                          THEN (Len(bytes) + Len(more)) - (h + 1) + 1 ELSE 0
        BY <1>2, <3>1
      <4> QED
        BY <1>1, <4>1, <4>2
    <3> QED
      BY <3>1, <3>2, <3>3
  <2> HIDE DEF rest, known
  <2>4. /\ known \o more \in Seq(Byte) /\ Len(known \o more) = Len(bytes) - h + Len(more)
        /\ \A k \in 1 .. Len(bytes) - h : (known \o more)[k] = known[k]
        /\ \A k \in 1 .. Len(more) : (known \o more)[Len(bytes) - h + k] = more[k]
    <3>1. /\ known \o more \in Seq(Byte) /\ Len(known \o more) = Len(known) + Len(more)
          /\ \A k \in 1 .. Len(known) : (known \o more)[k] = known[k]
          /\ \A k \in 1 .. Len(more) : (known \o more)[Len(known) + k] = more[k]
      BY <2>2, Joined
    <3> QED
      BY <2>2, <3>1
  <2>5. \A k \in 1 .. Len(bytes) - h + Len(more) : rest[k] = (known \o more)[k]
    <3> TAKE k \in 1 .. Len(bytes) - h + Len(more)
    <3>1. CASE k <= Len(bytes) - h
      <4>1. k \in 1 .. Len(bytes) - h /\ h + k \in 1 .. Len(bytes)
        BY <1>1, <3>1
      <4> QED
        BY <1>2, <2>2, <2>3, <2>4, <4>1
    <3>2. CASE ~(k <= Len(bytes) - h)
      <4> DEFINE j == k - (Len(bytes) - h)
      <4>1. j \in 1 .. Len(more) /\ k = Len(bytes) - h + j /\ h + k = Len(bytes) + j
        BY <1>1, <3>2
      <4> HIDE DEF j
      <4> QED
        BY <1>2, <2>3, <2>4, <4>1
    <3> QED
      BY <3>1, <3>2
  <2>6. rest = known \o more
    BY <1>1, <2>3, <2>4, <2>5, SeqEqual
  <2> QED
    BY <2>6 DEF AfterHeader, rest, known
<1> QED
  BY <1>7, <1>8, <1>9, <1>10 DEF AlgorithmId, whole

\* Whatever part of an archive read_header is given, if it holds the header at
\* all the fields are those that were written, and behind them is the front part
\* of the payload (file_io.cpp:10-32, 34-75).
THEOREM HeaderIsReadBack ==
  ASSUME NEW algo \in Algorithms, NEW size \in Size, NEW payload \in Seq(Byte),
         NEW bytes \in Seq(Byte),
         IsPrefix(bytes, WriteHeader(algo, size) \o payload),
         Len(bytes) >= HeaderLength
  PROVE  /\ HeaderIsValid(bytes)
         /\ AlgorithmId(bytes) = algo
         /\ OriginalSize(bytes) = size
         /\ AfterHeader(bytes) = SubSeq(payload, 1, Len(bytes) - HeaderLength)
<1> DEFINE header == WriteHeader(algo, size)
           archive == header \o payload
           m == Len(Magic)
<1>1. size \in Nat /\ m \in Nat /\ SizeBytes \in Nat /\ Len(bytes) \in Nat /\ Len(payload) \in Nat
  BY HeaderAssumption, ByteStreamAssumption, LenProperties DEF Size
<1>2. /\ header \in Seq(Byte) /\ Len(header) = HeaderLength
      /\ HeaderLength \in Nat /\ HeaderLength = m + 2 + SizeBytes
      /\ \A k \in 1 .. m : header[k] = Magic[k]
      /\ header[m + 1] = CurrentVersion
      /\ header[m + 2] = algo
      /\ \A k \in 1 .. SizeBytes : header[m + 2 + k] = ToBytes(size, SizeBytes)[k]
  BY <1>1, WriteHeaderFields
<1> HIDE DEF header
<1>3. /\ archive \in Seq(Byte) /\ Len(archive) = HeaderLength + Len(payload)
      /\ \A k \in 1 .. HeaderLength : archive[k] = header[k]
      /\ \A k \in 1 .. Len(payload) : archive[HeaderLength + k] = payload[k]
  <2>1. /\ archive \in Seq(Byte) /\ Len(archive) = Len(header) + Len(payload)
        /\ \A k \in 1 .. Len(header) : archive[k] = header[k]
        /\ \A k \in 1 .. Len(payload) : archive[Len(header) + k] = payload[k]
    BY <1>2, Joined
  <2> HIDE DEF archive
  <2> QED
    BY <1>2, <2>1
<1>4. /\ Len(bytes) <= HeaderLength + Len(payload)
      /\ \A k \in 1 .. Len(bytes) : bytes[k] = archive[k]
  BY <1>3, PrefixElements DEF header
<1> HIDE DEF archive
<1>5. \A k \in 1 .. HeaderLength : bytes[k] = header[k]
  <2>1. \A k \in 1 .. HeaderLength : k \in 1 .. Len(bytes)
    BY <1>1, <1>2
  <2> QED
    BY <1>3, <1>4, <2>1
<1>6. bytes[m + 1] = CurrentVersion /\ bytes[m + 2] = algo
  BY <1>1, <1>2, <1>5
<1>7. IsPrefix(Magic, bytes)
  <2>1. Magic \in Seq(Byte)
    BY HeaderAssumption
  <2>2. \A k \in 1 .. m : bytes[k] = Magic[k] /\ bytes[k] \in Byte
    BY <1>1, <1>2, <1>5, <2>1, ElementOfSeq
  <2>3. /\ SubSeq(bytes, 1, m) \in Seq(Byte) /\ Len(SubSeq(bytes, 1, m)) = m
        /\ \A k \in 1 .. m : SubSeq(bytes, 1, m)[k] = bytes[k]
    BY <1>1, <2>2, SubSeqProperties
  <2>4. SubSeq(bytes, 1, m) = Magic
    BY <2>1, <2>2, <2>3, SeqEqual
  <2>5. SubSeq(Magic, 1, m) = Magic
    BY <2>1, SubSeqFull
  <2> QED
    BY <1>1, <1>2, <2>4, <2>5 DEF IsPrefix
<1>8. OriginalSize(bytes) = size
  <2> DEFINE field == SubSeq(bytes, m + 3, HeaderLength)
             digits == ToBytes(size, SizeBytes)
  <2>1. digits \in Seq(Byte) /\ Len(digits) = SizeBytes
    BY <1>1, ToBytesType
  <2>2. \A k \in m + 3 .. HeaderLength : bytes[k] \in Byte
    BY <1>1, <1>2, ElementOfSeq
  <2>3. /\ field \in Seq(Byte) /\ Len(field) = SizeBytes
        /\ \A k \in 1 .. SizeBytes : field[k] = bytes[m + 2 + k]
    <3>1. /\ field \in Seq(Byte)
          /\ Len(field) = IF m + 3 <= HeaderLength THEN HeaderLength - (m + 3) + 1 ELSE 0
          /\ \A k \in 1 .. HeaderLength - (m + 3) + 1 : field[k] = bytes[(m + 3) + k - 1]
      BY <1>1, <1>2, <2>2, SubSeqProperties
    <3> HIDE DEF field
    <3>2. \A k \in 1 .. SizeBytes : (m + 3) + k - 1 = m + 2 + k
      BY <1>1
    <3> QED
      BY <1>1, <1>2, <3>1, <3>2
  <2> HIDE DEF field
  <2>4. \A k \in 1 .. SizeBytes : field[k] = digits[k]
    <3> TAKE k \in 1 .. SizeBytes
    <3>1. m + 2 + k \in 1 .. HeaderLength
      BY <1>1, <1>2
    <3> QED
      BY <1>2, <1>5, <2>3, <3>1
  <2>5. field = digits
    BY <2>1, <2>3, <2>4, SeqEqual
  <2>6. FromBytes(digits) = size
    BY HeaderAssumption, BytesAreReadBack DEF Size
  <2> QED
    BY <2>5, <2>6 DEF OriginalSize, field
<1>9. AfterHeader(bytes) = SubSeq(payload, 1, Len(bytes) - HeaderLength)
  <2> DEFINE rest == SubSeq(bytes, HeaderLength + 1, Len(bytes))
             n == Len(bytes) - HeaderLength
             front == SubSeq(payload, 1, n)
  <2>1. \A k \in HeaderLength + 1 .. Len(bytes) : bytes[k] \in Byte
    BY <1>1, <1>2, ElementOfSeq
  <2>2. n \in Nat /\ n <= Len(payload)
    BY <1>1, <1>2, <1>4
  <2>3. /\ rest \in Seq(Byte) /\ Len(rest) = n
        /\ \A k \in 1 .. n : rest[k] = bytes[HeaderLength + k]
    <3>1. /\ rest \in Seq(Byte)
          /\ Len(rest) = IF HeaderLength + 1 <= Len(bytes) THEN Len(bytes) - (HeaderLength + 1) + 1 ELSE 0
          /\ \A k \in 1 .. Len(bytes) - (HeaderLength + 1) + 1 : rest[k] = bytes[(HeaderLength + 1) + k - 1]
      BY <1>1, <1>2, <2>1, SubSeqProperties
    <3> HIDE DEF rest
    <3>2. \A k \in 1 .. n : (HeaderLength + 1) + k - 1 = HeaderLength + k
      BY <1>2, <2>2
    <3> QED
      BY <1>1, <1>2, <2>2, <3>1, <3>2
  <2>4. \A k \in 1 .. n : payload[k] \in Byte
    BY <1>1, <2>2, ElementOfSeq
  <2>5. front \in Seq(Byte) /\ Len(front) = n /\ \A k \in 1 .. n : front[k] = payload[k]
    BY <2>2, <2>4, SubSeqProperties
  <2>6. \A k \in 1 .. n : rest[k] = front[k]
    <3> TAKE k \in 1 .. n
    <3>1. HeaderLength + k \in 1 .. Len(bytes) /\ k \in 1 .. Len(payload)
      BY <1>1, <1>2, <2>2
    <3> HIDE DEF rest, front
    <3> QED
      BY <1>3, <1>4, <2>3, <2>5, <3>1
  <2> QED
    BY <2>3, <2>5, <2>6, SeqEqual DEF AfterHeader
<1> QED
  BY <1>6, <1>7, <1>8, <1>9 DEF HeaderIsValid, AlgorithmId
=============================================================================
