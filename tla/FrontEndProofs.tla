----------------------------- MODULE FrontEndProofs -----------------------------
(***************************************************************************)
(* Proofs about the program's front end: Levenshtein and Suggestion, for   *)
(* words of any length over any characters and any candidates, and         *)
(* CommandLine, for command lines of any length.  Each of the facts about  *)
(* the filled part of Levenshtein's table is inductive by itself, given    *)
(* the types: FillCell adds one cell, whose neighbours above, to the left  *)
(* and on the diagonal are filled.                                         *)
(***************************************************************************)
EXTENDS Suggestion, CommandLine, WellFoundedInduction, FiniteSetTheorems, TLAPS

\* The types of one table, whichever words it is for.
TableOK ==
  /\ s1 \in Seq(Letter) /\ s2 \in Seq(Letter)
  /\ d \in [Cells -> Nat]
  /\ i \in 0 .. Len(s1) + 1
  /\ j \in 0 .. Len(s2) + 1


\* The sizes of the table are natural numbers.
LEMMA LengthsAreNat ==
  ASSUME TableOK
  PROVE  Len(s1) \in Nat /\ Len(s2) \in Nat /\ s1 \in Seq(Letter) /\ s2 \in Seq(Letter)
BY DEF TableOK

\* The number FillCell writes is one more than the least of its neighbours'
\* or that of the diagonal one.
LEMMA LeastOfThree ==
  ASSUME NEW a \in Nat, NEW b \in Nat, NEW c \in Nat
  PROVE  /\ Least(a, b, c) \in Nat
         /\ Least(a, b, c) <= a /\ Least(a, b, c) <= b /\ Least(a, b, c) <= c
         /\ Least(a, b, c) \in {a, b, c}
BY DEF Least

\* What FillCell reads is filled, and what it writes is the one new cell.
LEMMA CellIsAdded ==
  ASSUME TableOK, FillCell
  PROVE  /\ <<i - 1, j>> \in Filled /\ <<i, j - 1>> \in Filled /\ <<i - 1, j - 1>> \in Filled
         /\ <<i, j>> \in Cells /\ <<i, j>> \notin Filled
         /\ Filled' = Filled \cup {<<i, j>>}
         /\ d'[<<i, j>>] = Least(d[<<i - 1, j>>] + 1, d[<<i, j - 1>>] + 1,
                                 d[<<i - 1, j - 1>>] + Cost)
         /\ \A cell \in Cells : cell # <<i, j>> => d'[cell] = d[cell]
<1>1. Len(s1) \in Nat /\ Len(s2) \in Nat /\ i \in 1 .. Len(s1) /\ j \in 1 .. Len(s2)
  BY LengthsAreNat DEF FillCell
<1>2. s1' = s1 /\ s2' = s2 /\ i' = i /\ j' = j + 1 /\ Cells' = Cells
  BY DEF FillCell, Cells
<1>3. /\ <<i - 1, j>> \in Cells /\ <<i, j - 1>> \in Cells /\ <<i - 1, j - 1>> \in Cells
      /\ <<i, j>> \in Cells
  BY <1>1 DEF Cells
<1>4. /\ <<i - 1, j>> \in Filled /\ <<i, j - 1>> \in Filled /\ <<i - 1, j - 1>> \in Filled
      /\ <<i, j>> \notin Filled
  BY <1>1, <1>3 DEF Filled
<1>5. Filled' = Filled \cup {<<i, j>>}
  <2>1. \A row \in 0 .. Len(s1), column \in 0 .. Len(s2) :
          <<row, column>> \in Filled' <=> <<row, column>> \in Filled \/ (row = i /\ column = j)
    BY <1>1, <1>2 DEF Filled, Cells
  <2>2. Filled' \subseteq Cells /\ Filled \subseteq Cells
    BY <1>2 DEF Filled
  <2> QED
    BY <1>3, <2>1, <2>2 DEF Cells
<1>6. d \in [Cells -> Nat] /\ <<i, j>> \in Cells
  BY <1>3 DEF TableOK
<1> QED
  BY <1>3, <1>4, <1>5, <1>6 DEF FillCell

\* The cost of a pair of characters.
LEMMA CostIsZeroOrOne == Cost \in 0 .. 1 /\ (Cost = 0 <=> s1[i] = s2[j])
BY DEF Cost

\* Every step keeps the types.
LEMMA TypeStep ==
  ASSUME TableOK, [Next]_tableVars
  PROVE  TableOK'
<1>1. Len(s1) \in Nat /\ Len(s2) \in Nat
  BY LengthsAreNat
<1>2. CASE FillBorders
  BY <1>1, <1>2 DEF TableOK, FillBorders, Cells
<1>3. CASE FillCell
  <2>1. /\ d[<<i - 1, j>>] \in Nat /\ d[<<i, j - 1>>] \in Nat /\ d[<<i - 1, j - 1>>] \in Nat
    BY <1>3, CellIsAdded DEF TableOK, Filled
  <2>2. Least(d[<<i - 1, j>>] + 1, d[<<i, j - 1>>] + 1, d[<<i - 1, j - 1>>] + Cost) \in Nat
    <3>1. /\ d[<<i - 1, j>>] + 1 \in Nat /\ d[<<i, j - 1>>] + 1 \in Nat
          /\ d[<<i - 1, j - 1>>] + Cost \in Nat
      BY <2>1, CostIsZeroOrOne
    <3> QED
      BY <3>1, LeastOfThree
  <2>3. d' \in [Cells -> Nat]
    BY <1>3, <2>2 DEF TableOK, FillCell
  <2> QED
    BY <1>1, <1>3, <2>3 DEF TableOK, FillCell, Cells
<1>4. CASE NextRow
  BY <1>1, <1>4 DEF TableOK, NextRow, Cells
<1>5. CASE UNCHANGED tableVars
  BY <1>5 DEF TableOK, tableVars, Cells
<1> QED
  BY <1>2, <1>3, <1>4, <1>5 DEF Next

\* The table, the counters and the words keep their types (terminal.cpp:147-168).
THEOREM TypeCorrect == Spec => []TypeOK
<1>1. Init => TypeOK
  BY WordsAssumption DEF Init, TypeOK, EmptyTable, Cells
<1>2. TypeOK <=> TableOK /\ s1 \in Words /\ s2 \in Words
  BY WordsAssumption DEF TypeOK, TableOK
<1>3. TypeOK /\ [Next]_tableVars => TypeOK'
  <2> SUFFICES ASSUME TypeOK, [Next]_tableVars PROVE TypeOK'
    OBVIOUS
  <2>1. TableOK'
    BY <1>2, TypeStep
  <2>2. s1' = s1 /\ s2' = s2
    BY DEF Next, FillBorders, FillCell, NextRow, tableVars
  <2>3. d' \in [Cells' -> Nat] /\ i' \in 0 .. Len(s1)' + 1 /\ j' \in 0 .. Len(s2)' + 1
    BY <2>1 DEF TableOK
  <2> QED
    BY <2>2, <2>3 DEF TypeOK
<1> QED
  BY <1>1, <1>3, PTL DEF Spec

\* What the lemmas need of the types.
LEMMA TableIsOK == Spec => []TableOK
<1>1. TypeOK => TableOK
  BY WordsAssumption DEF TypeOK, TableOK
<1> QED
  BY <1>1, TypeCorrect, PTL

-----------------------------------------------------------------------------
\* When a row is complete, going to the next one fills nothing.
LEMMA RowIsComplete ==
  ASSUME TableOK, NextRow
  PROVE  Filled' = Filled /\ Cells' = Cells /\ d' = d /\ s1' = s1 /\ s2' = s2
<1>1. Len(s1) \in Nat /\ Len(s2) \in Nat
  BY LengthsAreNat
<1>2. s1' = s1 /\ s2' = s2 /\ d' = d /\ Cells' = Cells /\ i' = i + 1 /\ j' = 1
  BY DEF NextRow, Cells
<1>3. \A row \in 0 .. Len(s1), column \in 0 .. Len(s2) :
        <<row, column>> \in Filled' <=> <<row, column>> \in Filled
  <2> SUFFICES ASSUME NEW row \in 0 .. Len(s1), NEW column \in 0 .. Len(s2)
               PROVE  <<row, column>> \in Filled' <=> <<row, column>> \in Filled
    OBVIOUS
  <2>1. <<row, column>> \in Filled <=> i > 0 /\ (row < i \/ column = 0 \/ (row = i /\ column < j))
    BY DEF Filled, Cells
  <2>2. <<row, column>> \in Cells' /\ <<row, column>> \in Cells
    BY <1>2 DEF Cells
  <2>3. <<row, column>> \in Filled' <=>
          i' > 0 /\ (row < i' \/ column = 0 \/ (row = i' /\ column < j'))
    BY <2>2 DEF Filled
  <2> QED
    BY <1>1, <1>2, <2>1, <2>3 DEF NextRow, TableOK
<1>4. Filled' \subseteq Cells /\ Filled \subseteq Cells
  BY <1>2 DEF Filled
<1>5. Filled' = Filled
  <2>1. \A cell \in Cells : /\ cell = <<cell[1], cell[2]>>
                            /\ cell[1] \in 0 .. Len(s1) /\ cell[2] \in 0 .. Len(s2)
    BY DEF Cells
  <2>2. \A cell \in Cells : cell \in Filled' <=> cell \in Filled
    BY <1>3, <2>1
  <2> QED
    BY <1>4, <2>2
<1> QED
  BY <1>2, <1>5

\* After the loops over the borders, the borders are filled and nothing else.
LEMMA BordersAreFilled ==
  ASSUME TableOK, FillBorders
  PROVE  /\ Cells' = Cells /\ s1' = s1 /\ s2' = s2
         /\ \A row \in 0 .. Len(s1), column \in 0 .. Len(s2) :
              /\ <<row, column>> \in Filled' => row = 0 \/ column = 0
              /\ column = 0 => d'[<<row, column>>] = row
              /\ row = 0 => d'[<<row, column>>] = column
<1>1. Len(s1) \in Nat /\ Len(s2) \in Nat
  BY LengthsAreNat
<1>2. s1' = s1 /\ s2' = s2 /\ Cells' = Cells /\ i' = 1 /\ j' = 1
  BY DEF FillBorders, Cells
<1> QED
  BY <1>1, <1>2 DEF FillBorders, Filled, Cells

\* A step that does not fill a cell.
LEMMA StutterKeeps ==
  ASSUME UNCHANGED tableVars
  PROVE  Filled' = Filled /\ Cells' = Cells /\ d' = d /\ s1' = s1 /\ s2' = s2
BY DEF tableVars, Filled, Cells

-----------------------------------------------------------------------------
\* A new cell is as far from the difference and the maximum of the lengths as
\* its neighbours allow.
LEMMA WithinLengthsStep ==
  ASSUME TableOK, WithinLengths, [Next]_tableVars
  PROVE  WithinLengths'
<1>1. Len(s1) \in Nat /\ Len(s2) \in Nat
  BY LengthsAreNat
<1>2. CASE FillBorders
  <2> SUFFICES ASSUME NEW row \in 0 .. Len(s1), NEW column \in 0 .. Len(s2),
                      <<row, column>> \in Filled'
               PROVE  /\ d'[<<row, column>>] >= row - column
                      /\ d'[<<row, column>>] >= column - row
                      /\ d'[<<row, column>>] <= row \/ d'[<<row, column>>] <= column
    BY <1>2, BordersAreFilled DEF WithinLengths, Filled, Cells
  <2> QED
    BY <1>1, <1>2, BordersAreFilled
<1>3. CASE FillCell
  <2> DEFINE above == d[<<i - 1, j>>]
             left == d[<<i, j - 1>>]
             diagonal == d[<<i - 1, j - 1>>]
  <2>1. i \in 1 .. Len(s1) /\ j \in 1 .. Len(s2)
    BY <1>3 DEF FillCell
  <2>2. above \in Nat /\ left \in Nat /\ diagonal \in Nat
    BY <1>3, CellIsAdded DEF TableOK, Filled
  <2>3. /\ above >= i - 1 - j /\ above >= j - i + 1 /\ (above <= i - 1 \/ above <= j)
        /\ left >= i - j + 1 /\ left >= j - 1 - i /\ (left <= i \/ left <= j - 1)
        /\ diagonal >= i - j /\ diagonal >= j - i /\ (diagonal <= i - 1 \/ diagonal <= j - 1)
    BY <1>1, <1>3, <2>1, CellIsAdded DEF WithinLengths
  <2>4. d'[<<i, j>>] = Least(above + 1, left + 1, diagonal + Cost)
    BY <1>3, CellIsAdded
  <2>5. /\ d'[<<i, j>>] >= i - j /\ d'[<<i, j>>] >= j - i
        /\ d'[<<i, j>>] <= i \/ d'[<<i, j>>] <= j
    <3> HIDE DEF above, left, diagonal
    <3> QED
      BY <1>1, <2>1, <2>2, <2>3, <2>4, CostIsZeroOrOne DEF Least
  <2> QED
    BY <1>3, <2>5, CellIsAdded DEF WithinLengths, Filled
<1>4. CASE NextRow
  BY <1>4, RowIsComplete DEF WithinLengths
<1>5. CASE UNCHANGED tableVars
  BY <1>5, StutterKeeps DEF WithinLengths
<1> QED
  BY <1>2, <1>3, <1>4, <1>5 DEF Next

\* The distance of two prefixes lies between the difference of their lengths and
\* the longer length, for words of any length (terminal.cpp:151-165).
THEOREM WithinLengthsHolds == Spec => []WithinLengths
<1>1. Init => WithinLengths
  BY DEF Init, WithinLengths, Filled
<1>2. TableOK /\ WithinLengths /\ [Next]_tableVars => WithinLengths'
  BY WithinLengthsStep
<1> QED
  BY <1>1, <1>2, TableIsOK, PTL DEF Spec

-----------------------------------------------------------------------------
\* A neighbour of the new cell differs from it by one at most, because two
\* neighbours of that neighbour do.
LEMMA OneEditApartStep ==
  ASSUME TableOK, OneEditApart, [Next]_tableVars
  PROVE  OneEditApart'
<1>1. Len(s1) \in Nat /\ Len(s2) \in Nat
  BY LengthsAreNat
<1>2. CASE FillBorders
  <2> SUFFICES ASSUME NEW row \in 0 .. Len(s1), NEW column \in 0 .. Len(s2),
                      <<row, column>> \in Filled'
               PROVE  /\ row > 0 => d'[<<row, column>>] - d'[<<row - 1, column>>] \in -1 .. 1
                      /\ column > 0 => d'[<<row, column>>] - d'[<<row, column - 1>>] \in -1 .. 1
    BY <1>2, BordersAreFilled DEF OneEditApart
  <2>1. CASE row > 0
    <3>1. column = 0 /\ row - 1 \in 0 .. Len(s1)
      BY <1>1, <1>2, <2>1, BordersAreFilled
    <3> QED
      BY <1>1, <1>2, <3>1, BordersAreFilled
  <2>2. CASE column > 0
    <3>1. row = 0 /\ column - 1 \in 0 .. Len(s2)
      BY <1>1, <1>2, <2>2, BordersAreFilled
    <3> QED
      BY <1>1, <1>2, <3>1, BordersAreFilled
  <2> QED
    BY <2>1, <2>2
<1>3. CASE FillCell
  <2> DEFINE above == d[<<i - 1, j>>]
             left == d[<<i, j - 1>>]
             diagonal == d[<<i - 1, j - 1>>]
  <2>1. i \in 1 .. Len(s1) /\ j \in 1 .. Len(s2)
    BY <1>3 DEF FillCell
  <2>2. above \in Nat /\ left \in Nat /\ diagonal \in Nat
    BY <1>3, CellIsAdded DEF TableOK, Filled
  <2>3. /\ i - 1 \in 0 .. Len(s1) /\ j - 1 \in 0 .. Len(s2)
        /\ i \in 0 .. Len(s1) /\ j \in 0 .. Len(s2)
    BY <1>1, <2>1
  <2>4. above - diagonal \in -1 .. 1 /\ left - diagonal \in -1 .. 1
    <3>1. <<i - 1, j>> \in Filled /\ <<i, j - 1>> \in Filled /\ i > 0 /\ j > 0
      BY <1>1, <1>3, <2>1, CellIsAdded
    <3>2. d[<<i - 1, j>>] - d[<<i - 1, j - 1>>] \in -1 .. 1
      BY <2>3, <3>1 DEF OneEditApart
    <3>3. d[<<i, j - 1>>] - d[<<i - 1, j - 1>>] \in -1 .. 1
      BY <2>3, <3>1 DEF OneEditApart
    <3> QED
      BY <3>2, <3>3
  <2>5. d'[<<i, j>>] = Least(above + 1, left + 1, diagonal + Cost)
    BY <1>3, CellIsAdded
  <2>6. d'[<<i, j>>] - above \in -1 .. 1 /\ d'[<<i, j>>] - left \in -1 .. 1
    <3> HIDE DEF above, left, diagonal
    <3> QED
      BY <2>2, <2>4, <2>5, CostIsZeroOrOne DEF Least
  <2>7. d'[<<i - 1, j>>] = above /\ d'[<<i, j - 1>>] = left
    BY <1>1, <1>3, <2>1, <2>3, CellIsAdded DEF Cells
  <2> SUFFICES ASSUME NEW row \in 0 .. Len(s1), NEW column \in 0 .. Len(s2),
                      <<row, column>> \in Filled'
               PROVE  /\ row > 0 => d'[<<row, column>>] - d'[<<row - 1, column>>] \in -1 .. 1
                      /\ column > 0 => d'[<<row, column>>] - d'[<<row, column - 1>>] \in -1 .. 1
    BY <1>3 DEF OneEditApart, FillCell
  <2>8. CASE row = i /\ column = j
    BY <2>6, <2>7, <2>8
  <2>9. CASE ~(row = i /\ column = j)
    <3>1. <<row, column>> \in Filled
      BY <1>3, <2>9, CellIsAdded
    <3>2. /\ row > 0 => d[<<row, column>>] - d[<<row - 1, column>>] \in -1 .. 1
          /\ column > 0 => d[<<row, column>>] - d[<<row, column - 1>>] \in -1 .. 1
      BY <3>1 DEF OneEditApart
    <3>3. d'[<<row, column>>] = d[<<row, column>>]
      BY <1>3, <2>9, CellIsAdded DEF Cells
    <3>4. row > 0 => d'[<<row - 1, column>>] = d[<<row - 1, column>>]
      <4> HAVE row > 0
      <4>1. <<row - 1, column>> \in Cells /\ <<row - 1, column>> # <<i, j>>
        <5>1. ~(row - 1 = i /\ column = j)
          BY <1>1, <2>1, <3>1 DEF Filled
        <5> QED
          BY <1>1, <5>1 DEF Cells
      <4> QED
        BY <1>3, <4>1, CellIsAdded
    <3>5. column > 0 => d'[<<row, column - 1>>] = d[<<row, column - 1>>]
      <4> HAVE column > 0
      <4>1. <<row, column - 1>> \in Cells /\ <<row, column - 1>> # <<i, j>>
        <5>1. ~(row = i /\ column - 1 = j)
          BY <1>1, <2>1, <3>1 DEF Filled
        <5> QED
          BY <1>1, <5>1 DEF Cells
      <4> QED
        BY <1>3, <4>1, CellIsAdded
    <3> QED
      BY <3>2, <3>3, <3>4, <3>5
  <2> QED
    BY <2>8, <2>9
<1>4. CASE NextRow
  BY <1>4, RowIsComplete DEF OneEditApart
<1>5. CASE UNCHANGED tableVars
  BY <1>5, StutterKeeps DEF OneEditApart
<1> QED
  BY <1>2, <1>3, <1>4, <1>5 DEF Next

\* One more character changes the distance by one at most, for words of any
\* length (terminal.cpp:163).
THEOREM OneEditApartHolds == Spec => []OneEditApart
<1>1. Init => OneEditApart
  BY DEF Init, OneEditApart, Filled
<1>2. TableOK /\ OneEditApart /\ [Next]_tableVars => OneEditApart'
  BY OneEditApartStep
<1> QED
  BY <1>1, <1>2, TableIsOK, PTL DEF Spec

-----------------------------------------------------------------------------
\* The new cell is 0 exactly if the diagonal one is and the characters agree.
LEMMA ZeroIffEqualStep ==
  ASSUME TableOK, ZeroIffEqual, [Next]_tableVars
  PROVE  ZeroIffEqual'
<1>1. Len(s1) \in Nat /\ Len(s2) \in Nat
  BY LengthsAreNat
<1>2. CASE FillBorders
  <2> SUFFICES ASSUME NEW row \in 0 .. Len(s1), NEW column \in 0 .. Len(s2),
                      <<row, column>> \in Filled'
               PROVE  d'[<<row, column>>] = 0 <=> row = column /\ \A k \in 1 .. row : s1[k] = s2[k]
    BY <1>2, BordersAreFilled DEF ZeroIffEqual
  <2> QED
    BY <1>1, <1>2, BordersAreFilled
<1>3. CASE FillCell
  <2> DEFINE diagonal == d[<<i - 1, j - 1>>]
  <2>1. i \in 1 .. Len(s1) /\ j \in 1 .. Len(s2)
    BY <1>3 DEF FillCell
  <2>2. /\ d[<<i - 1, j>>] \in Nat /\ d[<<i, j - 1>>] \in Nat /\ diagonal \in Nat
    BY <1>3, CellIsAdded DEF TableOK, Filled
  <2>3. diagonal = 0 <=> i - 1 = j - 1 /\ \A k \in 1 .. i - 1 : s1[k] = s2[k]
    <3>1. i - 1 \in 0 .. Len(s1) /\ j - 1 \in 0 .. Len(s2)
      BY <1>1, <2>1
    <3> QED
      BY <1>3, <3>1, CellIsAdded DEF ZeroIffEqual
  <2>4. d'[<<i, j>>] = Least(d[<<i - 1, j>>] + 1, d[<<i, j - 1>>] + 1, diagonal + Cost)
    BY <1>3, CellIsAdded
  <2>5. d'[<<i, j>>] = 0 <=> diagonal = 0 /\ s1[i] = s2[j]
    BY <2>2, <2>4, CostIsZeroOrOne DEF Least
  <2>6. (i = j /\ \A k \in 1 .. i : s1[k] = s2[k]) <=>
          (i - 1 = j - 1 /\ (\A k \in 1 .. i - 1 : s1[k] = s2[k]) /\ s1[i] = s2[j])
    <3>1. 1 .. i = (1 .. i - 1) \cup {i} /\ (i = j <=> i - 1 = j - 1)
      BY <1>1, <2>1
    <3> QED
      BY <3>1
  <2>7. d'[<<i, j>>] = 0 <=> i = j /\ \A k \in 1 .. i : s1[k] = s2[k]
    BY <2>3, <2>5, <2>6
  <2> SUFFICES ASSUME NEW row \in 0 .. Len(s1), NEW column \in 0 .. Len(s2),
                      <<row, column>> \in Filled'
               PROVE  d'[<<row, column>>] = 0 <=> row = column /\ \A k \in 1 .. row : s1[k] = s2[k]
    <3>1. s1' = s1 /\ s2' = s2
      BY <1>3 DEF FillCell
    <3> QED
      BY <3>1 DEF ZeroIffEqual
  <2>8. CASE row = i /\ column = j
    BY <2>7, <2>8
  <2>9. CASE ~(row = i /\ column = j)
    <3>1. <<row, column>> \in Filled
      BY <1>3, <2>9, CellIsAdded
    <3>2. d'[<<row, column>>] = d[<<row, column>>]
      BY <1>3, <2>9, CellIsAdded DEF Cells
    <3> QED
      BY <3>1, <3>2 DEF ZeroIffEqual
  <2> QED
    BY <2>8, <2>9
<1>4. CASE NextRow
  BY <1>4, RowIsComplete DEF ZeroIffEqual
<1>5. CASE UNCHANGED tableVars
  BY <1>5, StutterKeeps DEF ZeroIffEqual
<1> QED
  BY <1>2, <1>3, <1>4, <1>5 DEF Next

\* The distance is 0 for equal words only, of any length (terminal.cpp:162-163).
THEOREM ZeroIffEqualHolds == Spec => []ZeroIffEqual
<1>1. Init => ZeroIffEqual
  BY DEF Init, ZeroIffEqual, Filled
<1>2. TableOK /\ ZeroIffEqual /\ [Next]_tableVars => ZeroIffEqual'
  BY ZeroIffEqualStep
<1> QED
  BY <1>1, <1>2, TableIsOK, PTL DEF Spec

-----------------------------------------------------------------------------
(***************************************************************************)
(* The distance of prefixes: the first m characters of a, n of b.          *)
(***************************************************************************)
Kept(n, from) == {k \in 1 .. n : from[k] > 0}

Changed(a, b, n, from) == {k \in 1 .. n : from[k] = 0 \/ a[from[k]] # b[k]}

PartAlignments(m, n) ==
  {from \in [1 .. n -> 0 .. m] :
     \A k, l \in 1 .. n : k < l /\ from[k] > 0 /\ from[l] > 0 => from[k] < from[l]}

PartEdits(a, b, m, n, from) == m - Cardinality(Kept(n, from)) + Cardinality(Changed(a, b, n, from))

\* x edits are needed, and they are enough.
IsDistance(a, b, m, n, x) ==
  /\ \E from \in PartAlignments(m, n) : PartEdits(a, b, m, n, from) = x
  /\ \A from \in PartAlignments(m, n) : x <= PartEdits(a, b, m, n, from)

\* What it costs to take character l of b from character k of a.
Replacement(a, b, k, l) == IF a[k] = b[l] THEN 0 ELSE 1

\* An alignment without its last character.
Shorter(n, from) == [k \in 1 .. n - 1 |-> from[k]]

LEMMA CountsAreNat ==
  ASSUME NEW a, NEW b, NEW n \in Nat, NEW from
  PROVE  /\ IsFiniteSet(Kept(n, from)) /\ Cardinality(Kept(n, from)) \in Nat
         /\ IsFiniteSet(Changed(a, b, n, from)) /\ Cardinality(Changed(a, b, n, from)) \in Nat
<1>1. IsFiniteSet(1 .. n)
  BY FS_Interval
<1>2. Kept(n, from) \subseteq 1 .. n /\ Changed(a, b, n, from) \subseteq 1 .. n
  BY DEF Kept, Changed
<1>3. IsFiniteSet(Kept(n, from)) /\ IsFiniteSet(Changed(a, b, n, from))
  BY <1>1, <1>2, FS_Subset
<1> QED
  BY <1>3, FS_CardinalityType

\* The last character of b adds one to the counts it belongs to.
LEMMA LastCounted ==
  ASSUME NEW a, NEW b, NEW n \in Nat \ {0}, NEW from, from[n] \in Nat
  PROVE  LET kept == Cardinality(Kept(n - 1, Shorter(n, from)))
             changed == Cardinality(Changed(a, b, n - 1, Shorter(n, from)))
         IN  /\ from[n] = 0 => Cardinality(Kept(n, from)) = kept
             /\ from[n] # 0 => Cardinality(Kept(n, from)) = kept + 1
             /\ from[n] = 0 => Cardinality(Changed(a, b, n, from)) = changed + 1
             /\ from[n] # 0 =>
                  Cardinality(Changed(a, b, n, from)) = changed + Replacement(a, b, from[n], n)
<1> DEFINE kept == Kept(n - 1, Shorter(n, from))
           changed == Changed(a, b, n - 1, Shorter(n, from))
<1>1. n - 1 \in Nat /\ 1 .. n = (1 .. n - 1) \cup {n} /\ n \notin 1 .. n - 1
  OBVIOUS
<1>2. /\ IsFiniteSet(kept) /\ Cardinality(kept) \in Nat
      /\ IsFiniteSet(changed) /\ Cardinality(changed) \in Nat
  BY <1>1, CountsAreNat
<1>3. n \notin kept /\ n \notin changed
  BY <1>1 DEF Kept, Changed
<1>4. \A k \in 1 .. n - 1 : Shorter(n, from)[k] = from[k]
  BY DEF Shorter
<1>5. Kept(n, from) = IF from[n] > 0 THEN kept \cup {n} ELSE kept
  BY <1>1, <1>4 DEF Kept
<1>6. Changed(a, b, n, from) = IF from[n] = 0 \/ a[from[n]] # b[n] THEN changed \cup {n} ELSE changed
  BY <1>1, <1>4 DEF Changed
<1> HIDE DEF kept, changed
<1>7. Cardinality(kept \cup {n}) = Cardinality(kept) + 1
  BY <1>2, <1>3, FS_AddElement
<1>8. Cardinality(changed \cup {n}) = Cardinality(changed) + 1
  BY <1>2, <1>3, FS_AddElement
<1>9. /\ from[n] = 0 => Cardinality(Kept(n, from)) = Cardinality(kept)
      /\ from[n] # 0 => Cardinality(Kept(n, from)) = Cardinality(kept) + 1
  BY <1>5, <1>7
<1>10. /\ from[n] = 0 => Cardinality(Changed(a, b, n, from)) = Cardinality(changed) + 1
       /\ from[n] # 0 =>
            Cardinality(Changed(a, b, n, from)) = Cardinality(changed) + Replacement(a, b, from[n], n)
  BY <1>2, <1>6, <1>8 DEF Replacement
<1> QED
  BY <1>9, <1>10 DEF kept, changed

LEMMA PartEditsType ==
  ASSUME NEW a, NEW b, NEW m \in Nat, NEW n \in Nat, NEW from
  PROVE  PartEdits(a, b, m, n, from) \in Int
BY CountsAreNat DEF PartEdits

\* The last character of b is inserted.
LEMMA LastInserted ==
  ASSUME NEW a, NEW b, NEW m \in Nat, NEW n \in Nat \ {0},
         NEW from \in PartAlignments(m, n), from[n] = 0
  PROVE  /\ Shorter(n, from) \in PartAlignments(m, n - 1)
         /\ PartEdits(a, b, m, n, from) = PartEdits(a, b, m, n - 1, Shorter(n, from)) + 1
<1>1. from \in [1 .. n -> 0 .. m] /\ n - 1 \in Nat /\ 1 .. n - 1 \subseteq 1 .. n
  BY DEF PartAlignments
<1>2. Shorter(n, from) \in PartAlignments(m, n - 1)
  BY <1>1 DEF PartAlignments, Shorter
<1>3. /\ Cardinality(Kept(n - 1, Shorter(n, from))) \in Nat
      /\ Cardinality(Changed(a, b, n - 1, Shorter(n, from))) \in Nat
  BY <1>1, CountsAreNat
<1>4. /\ Cardinality(Kept(n, from)) = Cardinality(Kept(n - 1, Shorter(n, from)))
      /\ Cardinality(Changed(a, b, n, from)) = Cardinality(Changed(a, b, n - 1, Shorter(n, from))) + 1
  BY LastCounted
<1> QED
  BY <1>2, <1>3, <1>4 DEF PartEdits

\* The last character of b comes from the last one of a.
LEMMA LastMatched ==
  ASSUME NEW a, NEW b, NEW m \in Nat \ {0}, NEW n \in Nat \ {0},
         NEW from \in PartAlignments(m, n), from[n] = m
  PROVE  /\ Shorter(n, from) \in PartAlignments(m - 1, n - 1)
         /\ PartEdits(a, b, m, n, from) =
              PartEdits(a, b, m - 1, n - 1, Shorter(n, from)) + Replacement(a, b, m, n)
<1>1. /\ from \in [1 .. n -> 0 .. m] /\ n - 1 \in Nat /\ m - 1 \in Nat
      /\ \A k, l \in 1 .. n : k < l /\ from[k] > 0 /\ from[l] > 0 => from[k] < from[l]
  BY DEF PartAlignments
<1>2. \A k \in 1 .. n - 1 : k \in 1 .. n /\ from[k] \in 0 .. m - 1
  BY <1>1
<1>3. Shorter(n, from) \in PartAlignments(m - 1, n - 1)
  BY <1>1, <1>2 DEF PartAlignments, Shorter
<1>4. /\ Cardinality(Kept(n - 1, Shorter(n, from))) \in Nat
      /\ Cardinality(Changed(a, b, n - 1, Shorter(n, from))) \in Nat
  BY <1>1, CountsAreNat
<1>5. /\ Cardinality(Kept(n, from)) = Cardinality(Kept(n - 1, Shorter(n, from))) + 1
      /\ Cardinality(Changed(a, b, n, from)) =
           Cardinality(Changed(a, b, n - 1, Shorter(n, from))) + Replacement(a, b, m, n)
  <2>1. from[n] # 0 /\ from[n] \in Nat
    OBVIOUS
  <2> QED
    BY <2>1, LastCounted
<1>6. Replacement(a, b, m, n) \in Nat
  BY DEF Replacement
<1> QED
  BY <1>3, <1>4, <1>5, <1>6 DEF PartEdits

\* The last character of a is deleted.
LEMMA LastDeleted ==
  ASSUME NEW a, NEW b, NEW m \in Nat \ {0}, NEW n \in Nat,
         NEW from \in PartAlignments(m, n), \A k \in 1 .. n : from[k] < m
  PROVE  /\ from \in PartAlignments(m - 1, n)
         /\ PartEdits(a, b, m, n, from) = PartEdits(a, b, m - 1, n, from) + 1
<1>1. from \in [1 .. n -> 0 .. m - 1]
  BY DEF PartAlignments
<1>2. from \in PartAlignments(m - 1, n)
  BY <1>1 DEF PartAlignments
<1>3. Cardinality(Kept(n, from)) \in Nat /\ Cardinality(Changed(a, b, n, from)) \in Nat
  BY CountsAreNat
<1> QED
  BY <1>2, <1>3 DEF PartEdits

\* The distances at the borders.
LEMMA BorderDistances ==
  ASSUME NEW a, NEW b, NEW m \in Nat
  PROVE  IsDistance(a, b, m, 0, m) /\ IsDistance(a, b, 0, m, m)
<1>1. \A from \in PartAlignments(m, 0) : PartEdits(a, b, m, 0, from) = m
  <2> TAKE from \in PartAlignments(m, 0)
  <2>1. Kept(0, from) = {} /\ Changed(a, b, 0, from) = {}
    BY DEF Kept, Changed
  <2> QED
    BY <2>1, FS_EmptySet DEF PartEdits
<1>2. [k \in 1 .. 0 |-> 0] \in PartAlignments(m, 0)
  BY DEF PartAlignments
<1>3. \A from \in PartAlignments(0, m) : PartEdits(a, b, 0, m, from) = m
  <2> TAKE from \in PartAlignments(0, m)
  <2>1. \A k \in 1 .. m : from[k] = 0
    BY DEF PartAlignments
  <2>2. Kept(m, from) = {} /\ Changed(a, b, m, from) = 1 .. m
    BY <2>1 DEF Kept, Changed
  <2>3. Cardinality(1 .. m) = m
    BY FS_Interval
  <2> QED
    BY <2>2, <2>3, FS_EmptySet DEF PartEdits
<1>4. [k \in 1 .. m |-> 0] \in PartAlignments(0, m)
  BY DEF PartAlignments
<1> QED
  BY <1>1, <1>2, <1>3, <1>4 DEF IsDistance

\* The equation FillCell computes by: the distance of two prefixes from those of
\* their neighbours.
LEMMA DistanceFromNeighbours ==
  ASSUME NEW a, NEW b, NEW m \in Nat \ {0}, NEW n \in Nat \ {0},
         NEW x \in Nat, IsDistance(a, b, m - 1, n, x),
         NEW y \in Nat, IsDistance(a, b, m, n - 1, y),
         NEW z \in Nat, IsDistance(a, b, m - 1, n - 1, z),
         NEW cost, cost = Replacement(a, b, m, n)
  PROVE  IsDistance(a, b, m, n, Least(x + 1, y + 1, z + cost))
<1> DEFINE least == Least(x + 1, y + 1, z + cost)
<1>1. x + 1 \in Nat /\ y + 1 \in Nat /\ z + cost \in Nat /\ cost \in Nat /\ m - 1 \in Nat /\ n - 1 \in Nat
  BY DEF Replacement
<1>2. /\ least \in Nat /\ least <= x + 1 /\ least <= y + 1 /\ least <= z + cost
      /\ least \in {x + 1, y + 1, z + cost}
  BY <1>1, LeastOfThree
<1> HIDE DEF least
<1>3. ASSUME NEW from \in PartAlignments(m, n)
      PROVE  least <= PartEdits(a, b, m, n, from)
  <2>1. /\ from \in [1 .. n -> 0 .. m] /\ from[n] \in 0 .. m
        /\ \A k, l \in 1 .. n : k < l /\ from[k] > 0 /\ from[l] > 0 => from[k] < from[l]
    BY DEF PartAlignments
  <2>2. CASE from[n] = 0
    <3>1. /\ Shorter(n, from) \in PartAlignments(m, n - 1)
          /\ PartEdits(a, b, m, n, from) = PartEdits(a, b, m, n - 1, Shorter(n, from)) + 1
      BY <2>2, LastInserted
    <3>2. y <= PartEdits(a, b, m, n - 1, Shorter(n, from))
      BY <3>1 DEF IsDistance
    <3>3. PartEdits(a, b, m, n - 1, Shorter(n, from)) \in Int
      BY <1>1, PartEditsType
    <3> QED
      BY <1>2, <3>1, <3>2, <3>3
  <2>3. CASE from[n] = m
    <3>1. /\ Shorter(n, from) \in PartAlignments(m - 1, n - 1)
          /\ PartEdits(a, b, m, n, from) = PartEdits(a, b, m - 1, n - 1, Shorter(n, from)) + cost
      BY <2>3, LastMatched
    <3>2. z <= PartEdits(a, b, m - 1, n - 1, Shorter(n, from))
      BY <3>1 DEF IsDistance
    <3>3. PartEdits(a, b, m - 1, n - 1, Shorter(n, from)) \in Int
      BY <1>1, PartEditsType
    <3> QED
      BY <1>1, <1>2, <3>1, <3>2, <3>3
  <2>4. CASE ~(from[n] = 0) /\ ~(from[n] = m)
    <3>1. \A k \in 1 .. n : from[k] < m
      <4> TAKE k \in 1 .. n
      <4>1. n \in 1 .. n /\ from[n] < m /\ from[n] > 0 /\ from[k] \in 0 .. m
        BY <2>1, <2>4
      <4>2. k = n \/ k < n
        OBVIOUS
      <4>3. CASE from[k] = 0
        BY <4>3
      <4>4. CASE from[k] > 0
        BY <2>1, <4>1, <4>2, <4>4
      <4> QED
        BY <4>1, <4>3, <4>4
    <3>2. /\ from \in PartAlignments(m - 1, n)
          /\ PartEdits(a, b, m, n, from) = PartEdits(a, b, m - 1, n, from) + 1
      BY <3>1, LastDeleted
    <3>3. x <= PartEdits(a, b, m - 1, n, from)
      BY <3>2 DEF IsDistance
    <3>4. PartEdits(a, b, m - 1, n, from) \in Int
      BY <1>1, PartEditsType
    <3> QED
      BY <1>2, <3>2, <3>3, <3>4
  <2> QED
    BY <2>2, <2>3, <2>4
<1>4. \E from \in PartAlignments(m, n) : PartEdits(a, b, m, n, from) = x + 1
  <2>1. PICK from \in PartAlignments(m - 1, n) : PartEdits(a, b, m - 1, n, from) = x
    BY DEF IsDistance
  <2>2. from \in [1 .. n -> 0 .. m - 1]
    BY DEF PartAlignments
  <2>3. from \in [1 .. n -> 0 .. m] /\ \A k \in 1 .. n : from[k] < m
    BY <2>2
  <2>4. from \in PartAlignments(m, n)
    BY <2>3 DEF PartAlignments
  <2> QED
    BY <2>1, <2>3, <2>4, LastDeleted
<1>5. \E from \in PartAlignments(m, n) : PartEdits(a, b, m, n, from) = y + 1
  <2>1. PICK short \in PartAlignments(m, n - 1) : PartEdits(a, b, m, n - 1, short) = y
    BY DEF IsDistance
  <2> DEFINE from == [k \in 1 .. n |-> IF k = n THEN 0 ELSE short[k]]
  <2>2. short \in [1 .. n - 1 -> 0 .. m]
    BY DEF PartAlignments
  <2>3. \A k \in 1 .. n : k # n => k \in 1 .. n - 1
    OBVIOUS
  <2>4. from \in [1 .. n -> 0 .. m] /\ from[n] = 0 /\ Shorter(n, from) = short
    BY <2>2, <2>3 DEF Shorter
  <2>5. from \in PartAlignments(m, n)
    BY <2>3, <2>4 DEF PartAlignments
  <2> HIDE DEF from
  <2> QED
    BY <2>1, <2>4, <2>5, LastInserted
<1>6. \E from \in PartAlignments(m, n) : PartEdits(a, b, m, n, from) = z + cost
  <2>1. PICK short \in PartAlignments(m - 1, n - 1) : PartEdits(a, b, m - 1, n - 1, short) = z
    BY DEF IsDistance
  <2> DEFINE from == [k \in 1 .. n |-> IF k = n THEN m ELSE short[k]]
  <2>2. short \in [1 .. n - 1 -> 0 .. m - 1]
    BY DEF PartAlignments
  <2>3. \A k \in 1 .. n : k # n => k \in 1 .. n - 1
    OBVIOUS
  <2>4. from \in [1 .. n -> 0 .. m] /\ from[n] = m /\ Shorter(n, from) = short
    BY <2>2, <2>3 DEF Shorter
  <2>5. from \in PartAlignments(m, n)
    <3> SUFFICES ASSUME NEW k \in 1 .. n, NEW l \in 1 .. n, k < l, from[k] > 0, from[l] > 0
                 PROVE  from[k] < from[l]
      BY <2>4 DEF PartAlignments
    <3>1. k \in 1 .. n - 1 /\ from[k] = short[k] /\ short[k] \in 0 .. m - 1
      BY <2>2
    <3>2. CASE l = n
      BY <3>1, <3>2
    <3>3. CASE l # n
      BY <2>3, <3>1, <3>3 DEF PartAlignments
    <3> QED
      BY <3>2, <3>3
  <2> HIDE DEF from
  <2>6. PartEdits(a, b, m, n, from) = PartEdits(a, b, m - 1, n - 1, Shorter(n, from)) + cost
    BY <2>4, <2>5, LastMatched
  <2> QED
    BY <2>1, <2>4, <2>5, <2>6
<1>7. \E from \in PartAlignments(m, n) : PartEdits(a, b, m, n, from) = least
  BY <1>2, <1>4, <1>5, <1>6
<1>8. IsDistance(a, b, m, n, least)
  BY <1>3, <1>7 DEF IsDistance
<1> QED
  BY <1>8 DEF least

\* There is one distance, and it is what the reference definition says.
LEMMA DistanceIsEditDistance ==
  ASSUME NEW a \in Seq(Letter), NEW b \in Seq(Letter), NEW x \in Nat,
         IsDistance(a, b, Len(a), Len(b), x)
  PROVE  EditDistance(a, b) = x
<1> DEFINE all == {Edits(a, b, from) : from \in Alignments(a, b)}
<1>1. Alignments(a, b) = PartAlignments(Len(a), Len(b))
  BY DEF Alignments, PartAlignments
<1>2. \A from \in Alignments(a, b) : Edits(a, b, from) = PartEdits(a, b, Len(a), Len(b), from)
  BY DEF Edits, PartEdits, Kept, Changed
<1>3. x \in all /\ \A y \in all : x <= y
  BY <1>1, <1>2 DEF IsDistance
<1>4. \A y \in all : y \in Int
  <2>1. Len(a) \in Nat /\ Len(b) \in Nat
    OBVIOUS
  <2> QED
    BY <1>2, <2>1, PartEditsType
<1> HIDE DEF all
<1>5. \A y \in all : (\A z \in all : y <= z) => y = x
  BY <1>3, <1>4
<1>6. Min(all) = x
  BY <1>3, <1>5 DEF Min
<1> QED
  BY <1>6 DEF EditDistance, all

-----------------------------------------------------------------------------
(***************************************************************************)
(* The table holds the distances.                                          *)
(***************************************************************************)
CellsAreDistances ==
  \A row \in 0 .. Len(s1), column \in 0 .. Len(s2) :
    <<row, column>> \in Filled => IsDistance(s1, s2, row, column, d[<<row, column>>])

\* It is enough to look at each filled cell of the new table.
LEMMA NewCells ==
  ASSUME s1' = s1, s2' = s2,
         \A row \in 0 .. Len(s1), column \in 0 .. Len(s2) :
           <<row, column>> \in Filled' => IsDistance(s1, s2, row, column, d'[<<row, column>>])
  PROVE  CellsAreDistances'
BY DEF CellsAreDistances

LEMMA CellsStep ==
  ASSUME TableOK, CellsAreDistances, [Next]_tableVars
  PROVE  CellsAreDistances'
<1>1. Len(s1) \in Nat /\ Len(s2) \in Nat
  BY LengthsAreNat
<1>2. CASE FillBorders
  <2> SUFFICES ASSUME NEW row \in 0 .. Len(s1), NEW column \in 0 .. Len(s2),
                      <<row, column>> \in Filled'
               PROVE  IsDistance(s1, s2, row, column, d'[<<row, column>>])
    BY <1>2, BordersAreFilled, NewCells
  <2>1. row \in Nat /\ column \in Nat
    BY <1>1
  <2>2. (column = 0 /\ d'[<<row, column>>] = row) \/ (row = 0 /\ d'[<<row, column>>] = column)
    BY <1>2, BordersAreFilled
  <2>3. IsDistance(s1, s2, row, 0, row) /\ IsDistance(s1, s2, 0, column, column)
    BY <2>1, BorderDistances
  <2> QED
    BY <2>2, <2>3
<1>3. CASE FillCell
  <2>1. i \in Nat \ {0} /\ j \in Nat \ {0} /\ i \in 1 .. Len(s1) /\ j \in 1 .. Len(s2)
    BY <1>1, <1>3 DEF FillCell
  <2>2. /\ d[<<i - 1, j>>] \in Nat /\ d[<<i, j - 1>>] \in Nat /\ d[<<i - 1, j - 1>>] \in Nat
    BY <1>3, CellIsAdded DEF TableOK, Filled
  <2>3. /\ IsDistance(s1, s2, i - 1, j, d[<<i - 1, j>>])
        /\ IsDistance(s1, s2, i, j - 1, d[<<i, j - 1>>])
        /\ IsDistance(s1, s2, i - 1, j - 1, d[<<i - 1, j - 1>>])
    <3>1. /\ i - 1 \in 0 .. Len(s1) /\ j - 1 \in 0 .. Len(s2)
          /\ i \in 0 .. Len(s1) /\ j \in 0 .. Len(s2)
      BY <1>1, <2>1
    <3> QED
      BY <1>3, <3>1, CellIsAdded DEF CellsAreDistances
  <2>4. Cost = Replacement(s1, s2, i, j)
    BY DEF Cost, Replacement
  <2>5. IsDistance(s1, s2, i, j, Least(d[<<i - 1, j>>] + 1, d[<<i, j - 1>>] + 1,
                                       d[<<i - 1, j - 1>>] + Cost))
    BY <2>1, <2>2, <2>3, <2>4, DistanceFromNeighbours
  <2>6. IsDistance(s1, s2, i, j, d'[<<i, j>>])
    BY <1>3, <2>5, CellIsAdded
  <2>7. s1' = s1 /\ s2' = s2
    BY <1>3 DEF FillCell
  <2> SUFFICES ASSUME NEW row \in 0 .. Len(s1), NEW column \in 0 .. Len(s2),
                      <<row, column>> \in Filled'
               PROVE  IsDistance(s1, s2, row, column, d'[<<row, column>>])
    BY <2>7, NewCells
  <2>8. CASE row = i /\ column = j
    BY <2>6, <2>8
  <2>9. CASE ~(row = i /\ column = j)
    <3>1. <<row, column>> \in Filled
      BY <1>3, <2>9, CellIsAdded
    <3>2. d'[<<row, column>>] = d[<<row, column>>]
      BY <1>3, <2>9, CellIsAdded DEF Cells
    <3> QED
      BY <3>1, <3>2 DEF CellsAreDistances
  <2> QED
    BY <2>8, <2>9
<1>4. CASE NextRow
  BY <1>4, RowIsComplete DEF CellsAreDistances
<1>5. CASE UNCHANGED tableVars
  BY <1>5, StutterKeeps DEF CellsAreDistances
<1> QED
  BY <1>2, <1>3, <1>4, <1>5 DEF Next

\* What is returned is the last cell, and it is filled.
LEMMA LastIsFilled ==
  ASSUME TableOK, Returned
  PROVE  <<Len(s1), Len(s2)>> \in Filled
<1>1. Len(s1) \in Nat /\ Len(s2) \in Nat
  BY LengthsAreNat
<1>2. <<Len(s1), Len(s2)>> \in Cells
  BY <1>1 DEF Cells
<1>3. i > 0 /\ Len(s1) < i
  BY <1>1 DEF TableOK, Returned
<1> QED
  BY <1>2, <1>3 DEF Filled

LEMMA ReturnedIsDistance ==
  ASSUME TableOK, CellsAreDistances, Returned
  PROVE  Distance \in Nat /\ Distance = EditDistance(s1, s2)
<1>1. Len(s1) \in Nat /\ Len(s2) \in Nat /\ s1 \in Seq(Letter) /\ s2 \in Seq(Letter)
  BY LengthsAreNat
<1>2. <<Len(s1), Len(s2)>> \in Filled
  BY LastIsFilled
<1>3. Distance \in Nat
  BY <1>2 DEF Distance, Filled, TableOK
<1>4. IsDistance(s1, s2, Len(s1), Len(s2), Distance)
  BY <1>1, <1>2 DEF CellsAreDistances, Distance
<1> QED
  BY <1>1, <1>3, <1>4, DistanceIsEditDistance

\* levenshtein_distance returns the smallest number of edits of any alignment,
\* for words of any length over any characters (terminal.cpp:147-168).
THEOREM DistanceIsMinimalHolds == Spec => []DistanceIsMinimal
<1>1. Init => CellsAreDistances
  BY DEF Init, CellsAreDistances, Filled
<1>2. TableOK /\ CellsAreDistances /\ [Next]_tableVars => CellsAreDistances'
  BY CellsStep
<1>3. TableOK /\ CellsAreDistances => DistanceIsMinimal
  BY ReturnedIsDistance DEF DistanceIsMinimal
<1> QED
  BY <1>1, <1>2, <1>3, TableIsOK, PTL DEF Spec

-----------------------------------------------------------------------------
(***************************************************************************)
(* The search for a suggestion.                                            *)
(***************************************************************************)
TableInv ==
  TableOK /\ WithinLengths /\ ZeroIffEqual /\ CellsAreDistances

\* word is the first of the n first candidates that are nearest, x edits away.
NearestOf(n, word, x) ==
  \E k \in 1 .. n :
    /\ word = Candidates[k] /\ x = EditDistance(s1, Candidates[k])
    /\ \A l \in 1 .. n :
         /\ EditDistance(s1, Candidates[l]) \in Nat
         /\ \/ EditDistance(s1, Candidates[k]) < EditDistance(s1, Candidates[l])
            \/ EditDistance(s1, Candidates[k]) = EditDistance(s1, Candidates[l]) /\ k <= l

\* What the loop over the candidates has found, and what is answered.
LoopInv ==
  /\ s1 \in Words
  /\ next \in 1 .. Len(Candidates) + 1
  /\ next <= Len(Candidates) => s2 = Candidates[next]
  /\ IF next = 1 THEN minDist = NoDistance /\ best = <<>> ELSE NearestOf(next - 1, best, minDist)
  /\ minDist \in Nat
  /\ phase \in {"comparing", "answered"}
  /\ phase = "comparing" => suggestion = <<>>
  /\ phase = "answered" =>
       IF s1 = <<>> \/ Candidates = <<>> THEN suggestion = <<>>
       ELSE next = Len(Candidates) + 1 /\ suggestion = IF minDist <= Threshold THEN best ELSE <<>>

SearchInv == TableInv /\ LoopInv

LEMMA CandidatesAreWords ==
  /\ Len(Candidates) \in Nat /\ DOMAIN Candidates = 1 .. Len(Candidates)
  /\ \A k \in 1 .. Len(Candidates) :
       /\ Candidates[k] \in Seq(Letter) /\ Candidates[k] # <<>>
       /\ Candidates[k] \in Range(Candidates)
       /\ Len(Candidates[k]) < NoDistance
  /\ NoDistance \in Nat
<1>1. Candidates \in Seq(Seq(Letter) \ {<<>>})
  BY CandidatesAssumption
<1>2. Len(Candidates) \in Nat /\ DOMAIN Candidates = 1 .. Len(Candidates)
  BY <1>1
<1>3. \A k \in 1 .. Len(Candidates) : Candidates[k] \in Seq(Letter) \ {<<>>}
  BY <1>1
<1>4. \A k \in 1 .. Len(Candidates) : Candidates[k] \in Range(Candidates)
  BY <1>2 DEF Range
<1> QED
  BY <1>2, <1>3, <1>4, CandidatesAssumption

\* A new table has no filled cell.
LEMMA NewTable ==
  ASSUME s1' \in Seq(Letter), s2' \in Seq(Letter), d' = EmptyTable(s1', s2'), i' = 0, j' = 0
  PROVE  TableInv'
<1>1. TableOK'
  BY DEF TableOK, EmptyTable, Cells
<1>2. Filled' = {}
  BY DEF Filled
<1> QED
  BY <1>1, <1>2 DEF TableInv, WithinLengths, ZeroIffEqual, CellsAreDistances

LEMMA SearchStarts == SearchInit => SearchInv
<1> SUFFICES ASSUME SearchInit PROVE SearchInv
  OBVIOUS
<1>1. s1 \in Seq(Letter) /\ s2 \in Seq(Letter)
  <2>1. CASE Candidates = <<>>
    BY <2>1, WordsAssumption DEF SearchInit
  <2>2. CASE Candidates # <<>>
    <3>1. 1 \in 1 .. Len(Candidates)
      BY <2>2, CandidatesAssumption
    <3> QED
      BY <2>2, <3>1, WordsAssumption, CandidatesAreWords DEF SearchInit
  <2> QED
    BY <2>1, <2>2
<1>2. TableOK
  BY <1>1 DEF SearchInit, TableOK, EmptyTable, Cells
<1>3. Filled = {}
  BY DEF SearchInit, Filled
<1>4. TableInv
  BY <1>2, <1>3 DEF TableInv, WithinLengths, ZeroIffEqual, CellsAreDistances
<1>5. next <= Len(Candidates) => s2 = Candidates[next]
  BY CandidatesAssumption DEF SearchInit
<1>6. LoopInv
  BY <1>5, CandidatesAreWords DEF SearchInit, LoopInv
<1> QED
  BY <1>4, <1>6 DEF SearchInv

\* The steps of levenshtein_distance, and those that leave its table alone.
LEMMA TableKeeps ==
  ASSUME TableInv, [Next]_tableVars
  PROVE  TableInv'
BY TypeStep, WithinLengthsStep, ZeroIffEqualStep, CellsStep DEF TableInv

LEMMA MeasureKeeps ==
  ASSUME SearchInv, Measure
  PROVE  SearchInv'
<1>1. Next /\ UNCHANGED ownVars
  BY DEF Measure, Next
<1>2. TableInv'
  BY <1>1, TableKeeps DEF SearchInv
<1>3. s1' = s1 /\ s2' = s2
  BY <1>1 DEF Next, FillBorders, FillCell, NextRow
<1>4. LoopInv'
  BY <1>1, <1>3 DEF SearchInv, LoopInv, ownVars, NearestOf, Threshold
<1> QED
  BY <1>2, <1>4 DEF SearchInv

LEMMA CompareKeeps ==
  ASSUME SearchInv, Compare
  PROVE  SearchInv'
<1> DEFINE near(k) == EditDistance(s1, Candidates[k])
<1>1. next \in 1 .. Len(Candidates) /\ Len(Candidates) \in Nat /\ s1 \in Words /\ s1' = s1
  BY CandidatesAreWords DEF Compare, Compared, SearchInv, LoopInv
<1>2. Distance \in Nat /\ Distance = near(next) /\ Distance < NoDistance
  <2>1. TableOK /\ CellsAreDistances /\ WithinLengths /\ s2 = Candidates[next]
    BY <1>1 DEF SearchInv, TableInv, LoopInv
  <2>2. Returned
    BY DEF Compare
  <2>3. Distance \in Nat /\ Distance = near(next)
    BY <2>1, <2>2, ReturnedIsDistance
  <2>4. Distance <= Len(s1) \/ Distance <= Len(s2)
    <3>1. Len(s1) \in Nat /\ Len(s2) \in Nat
      BY <2>1, LengthsAreNat
    <3>2. <<Len(s1), Len(s2)>> \in Filled
      BY <2>1, <2>2, LastIsFilled
    <3> QED
      BY <2>1, <3>1, <3>2 DEF WithinLengths, Distance
  <2>5. Len(s1) < NoDistance /\ Len(s2) < NoDistance /\ NoDistance \in Nat
    BY <1>1, <2>1, CandidatesAreWords, CandidatesAssumption
  <2>6. Len(s1) \in Nat /\ Len(s2) \in Nat
    BY <2>1, LengthsAreNat
  <2> QED
    BY <2>3, <2>4, <2>5, <2>6
<1>3. TableInv'
  <2>1. s2' \in Seq(Letter)
    <3>1. CASE next < Len(Candidates)
      <4>1. next + 1 \in 1 .. Len(Candidates) /\ s2' = Candidates[next + 1]
        BY <1>1, <3>1 DEF Compare
      <4> QED
        BY <4>1, CandidatesAreWords
    <3>2. CASE ~(next < Len(Candidates))
      BY <3>2 DEF Compare, SearchInv, TableInv, TableOK
    <3> QED
      BY <3>1, <3>2
  <2>2. s1' \in Seq(Letter)
    BY <1>1, WordsAssumption
  <2>3. d' = EmptyTable(s1', s2') /\ i' = 0 /\ j' = 0
    BY <1>1 DEF Compare
  <2> QED
    BY <2>1, <2>2, <2>3, NewTable
<1>4. next' = next + 1 /\ next' \in 1 .. Len(Candidates) + 1 /\ next' # 1 /\ next' - 1 = next
  BY <1>1 DEF Compare
<1>5. next' <= Len(Candidates) => s2' = Candidates[next']
  BY <1>1, <1>4 DEF Compare
<1>6. NearestOf(next, best', minDist') /\ minDist' \in Nat
  <2>1. CASE next = 1
    <3>1. minDist' = Distance /\ best' = Candidates[1]
      BY <1>1, <1>2, <2>1 DEF Compare, KeepNearer, IsNearer, SearchInv, LoopInv
    <3> QED
      BY <1>2, <2>1, <3>1 DEF NearestOf
  <2>2. CASE next # 1
    <3>1. NearestOf(next - 1, best, minDist) /\ minDist \in Nat
      BY <2>2 DEF SearchInv, LoopInv
    <3>2. PICK k \in 1 .. next - 1 :
            /\ best = Candidates[k] /\ minDist = near(k)
            /\ \A l \in 1 .. next - 1 :
                 near(l) \in Nat /\ (near(k) < near(l) \/ (near(k) = near(l) /\ k <= l))
      BY <3>1 DEF NearestOf
    <3>3. \A l \in 1 .. next : l \in 1 .. next - 1 \/ l = next
      BY <1>1
    <3>4. k \in 1 .. next /\ next \in 1 .. next /\ k < next
      BY <1>1, <3>2
    <3>5. \A l \in 1 .. next : near(l) \in Nat
      BY <1>2, <3>2, <3>3
    <3> HIDE DEF near
    <3>6. CASE Distance < minDist
      <4>1. minDist' = Distance /\ best' = Candidates[next]
        BY <1>1, <3>6 DEF Compare, KeepNearer, IsNearer, SearchInv, LoopInv
      <4>2. \A l \in 1 .. next : near(next) < near(l) \/ (near(next) = near(l) /\ next <= l)
        <5> TAKE l \in 1 .. next
        <5>1. CASE l = next
          BY <1>1, <5>1
        <5>2. CASE l \in 1 .. next - 1
          BY <1>2, <3>1, <3>2, <3>6, <5>2
        <5> QED
          BY <3>3, <5>1, <5>2
      <4> QED
        BY <1>2, <3>4, <3>5, <4>1, <4>2 DEF NearestOf, near
    <3>7. CASE ~(Distance < minDist)
      <4>1. minDist' = minDist /\ best' = best
        BY <3>7 DEF Compare, KeepNearer, IsNearer
      <4>2. near(k) < near(next) \/ (near(k) = near(next) /\ k <= next)
        BY <1>2, <3>1, <3>2, <3>4, <3>7
      <4>3. \A l \in 1 .. next : near(k) < near(l) \/ (near(k) = near(l) /\ k <= l)
        BY <3>2, <3>3, <4>2
      <4> QED
        BY <3>1, <3>2, <3>4, <3>5, <4>1, <4>3 DEF NearestOf, near
    <3> QED
      BY <3>6, <3>7
  <2> QED
    BY <2>1, <2>2
<1>7. phase = "comparing" /\ phase' = "comparing" /\ suggestion' = <<>>
  BY DEF Compare, SearchInv, LoopInv
<1>8. LoopInv'
  <2>1. NearestOf(next' - 1, best', minDist')
    BY <1>4, <1>6
  <2> QED
    BY <1>1, <1>4, <1>5, <1>6, <1>7, <2>1 DEF LoopInv, NearestOf
<1> QED
  BY <1>3, <1>8 DEF SearchInv

LEMMA AnswerKeeps ==
  ASSUME SearchInv, NoSuggestion \/ Answer \/ UNCHANGED searchVars
  PROVE  SearchInv'
<1>1. UNCHANGED tableVars
  BY DEF NoSuggestion, Answer, searchVars
<1>2. TableInv'
  BY <1>1, TableKeeps DEF SearchInv
<1>3. s1' = s1 /\ s2' = s2
  BY <1>1 DEF tableVars
<1>4. LoopInv'
  <2>1. CASE NoSuggestion
    BY <1>3, <2>1 DEF NoSuggestion, SearchInv, LoopInv, NearestOf
  <2>2. CASE Answer
    <3>1. next = Len(Candidates) + 1
      BY <2>2, CandidatesAreWords DEF Answer, Compared, SearchInv, LoopInv
    <3> QED
      BY <1>3, <2>2, <3>1 DEF Answer, SearchInv, LoopInv, NearestOf, Threshold
  <2>3. CASE UNCHANGED searchVars
    BY <1>3, <2>3 DEF searchVars, ownVars, SearchInv, LoopInv, NearestOf, Threshold
  <2> QED
    BY <2>1, <2>2, <2>3
<1> QED
  BY <1>2, <1>4 DEF SearchInv

\* The invariant of find_suggestion (terminal.cpp:170-194).
LEMMA SearchInvHolds == SearchSpec => []SearchInv
<1>1. SearchInit => SearchInv
  BY SearchStarts
<1>2. SearchInv /\ [SearchNext]_searchVars => SearchInv'
  BY MeasureKeeps, CompareKeeps, AnswerKeeps DEF SearchNext
<1> QED
  BY <1>1, <1>2, PTL DEF SearchSpec

LEMMA ThresholdMeaning ==
  ASSUME NEW word \in Seq(Letter), NEW x \in Nat
  PROVE  x <= Max({2, Len(word) \div 2}) <=> x <= 2 \/ 2 * x <= Len(word)
<1> DEFINE half == Len(word) \div 2
           m == IF half <= 2 THEN 2 ELSE half
<1>1. Len(word) \in Nat /\ half \in Nat /\ (x <= half <=> 2 * x <= Len(word))
  OBVIOUS
<1> HIDE DEF half
<1>2. m \in {2, half} /\ \A y \in {2, half} : m >= y
  BY <1>1
<1>3. \A y \in {2, half} : (\A z \in {2, half} : y >= z) => y = m
  BY <1>1
<1> HIDE DEF m
<1>4. Max({2, half}) = m
  BY <1>2, <1>3 DEF Max
<1> QED
  BY <1>1, <1>4 DEF m, half

\* What the code does: the first of the nearest candidates is proposed if it is
\* within two edits or half of the input's length.
ProposedUpToHalf ==
  phase = "answered" =>
    LET distance == [k \in DOMAIN Candidates |-> EditDistance(s1, Candidates[k])]
        near == {k \in DOMAIN Candidates : distance[k] <= 2 \/ 2 * distance[k] <= Len(s1)}
    IN  IF s1 = <<>> \/ near = {}
          THEN suggestion = <<>>
          ELSE \E k \in near :
                 /\ suggestion = Candidates[k]
                 /\ \A other \in DOMAIN Candidates :
                      distance[k] < distance[other] \/ (distance[k] = distance[other] /\ k <= other)

LEMMA UpToHalfFollows == SearchInv => ProposedUpToHalf
<1> SUFFICES ASSUME SearchInv, phase = "answered" PROVE ProposedUpToHalf
  BY DEF ProposedUpToHalf
<1> DEFINE distance == [k \in DOMAIN Candidates |-> EditDistance(s1, Candidates[k])]
           near == {k \in DOMAIN Candidates : distance[k] <= 2 \/ 2 * distance[k] <= Len(s1)}
           Goal == IF s1 = <<>> \/ near = {}
                     THEN suggestion = <<>>
                     ELSE \E k \in near :
                            /\ suggestion = Candidates[k]
                            /\ \A other \in DOMAIN Candidates :
                                 distance[k] < distance[other]
                                   \/ (distance[k] = distance[other] /\ k <= other)
<1>1. Len(Candidates) \in Nat /\ DOMAIN Candidates = 1 .. Len(Candidates) /\ s1 \in Seq(Letter)
  BY CandidatesAreWords, WordsAssumption DEF SearchInv, LoopInv
<1>2. CASE s1 = <<>> \/ Candidates = <<>>
  <2>1. suggestion = <<>>
    BY <1>2 DEF SearchInv, LoopInv
  <2>2. Candidates = <<>> => near = {}
    OBVIOUS
  <2>3. Goal
    BY <1>2, <2>1, <2>2
  <2> QED
    BY <2>3 DEF ProposedUpToHalf
<1>3. CASE ~(s1 = <<>> \/ Candidates = <<>>)
  <2>1. next = Len(Candidates) + 1 /\ suggestion = IF minDist <= Threshold THEN best ELSE <<>>
    BY <1>3 DEF SearchInv, LoopInv
  <2>2. Len(Candidates) # 0
    BY <1>3, CandidatesAssumption
  <2>3. NearestOf(Len(Candidates), best, minDist) /\ minDist \in Nat
    <3>1. next # 1 /\ next - 1 = Len(Candidates)
      BY <1>1, <2>1, <2>2
    <3>2. NearestOf(next - 1, best, minDist) /\ minDist \in Nat
      BY <3>1 DEF SearchInv, LoopInv
    <3> QED
      BY <3>1, <3>2
  <2>4. PICK k \in DOMAIN Candidates :
          /\ best = Candidates[k] /\ minDist = distance[k]
          /\ \A l \in DOMAIN Candidates :
               /\ distance[l] \in Nat
               /\ distance[k] < distance[l] \/ (distance[k] = distance[l] /\ k <= l)
    BY <1>1, <2>3 DEF NearestOf
  <2>5. minDist <= Threshold <=> distance[k] <= 2 \/ 2 * distance[k] <= Len(s1)
    BY <1>1, <2>3, <2>4, ThresholdMeaning DEF Threshold
  <2>6. Len(s1) \in Nat
    BY <1>1
  <2> HIDE DEF distance
  <2>7. CASE minDist <= Threshold
    <3>1. k \in near /\ suggestion = Candidates[k]
      BY <2>1, <2>4, <2>5, <2>7
    <3>2. Goal
      BY <1>3, <2>4, <3>1
    <3> QED
      BY <3>2 DEF ProposedUpToHalf, distance
  <2>8. CASE ~(minDist <= Threshold)
    <3>1. \A l \in DOMAIN Candidates : ~(distance[l] <= 2 \/ 2 * distance[l] <= Len(s1))
      BY <2>4, <2>5, <2>6, <2>8
    <3>2. near = {} /\ suggestion = <<>>
      BY <2>1, <2>8, <3>1
    <3>3. Goal
      BY <3>2
    <3> QED
      BY <3>3 DEF ProposedUpToHalf, distance
  <2> QED
    BY <2>7, <2>8
<1> QED
  BY <1>2, <1>3

\* 40% of a length is at most half of it.
LEMMA NearestFollows == SearchInv => NearestIsProposed
<1> SUFFICES ASSUME SearchInv, phase = "answered" PROVE NearestIsProposed
  BY DEF NearestIsProposed
<1> DEFINE distance == [k \in DOMAIN Candidates |-> EditDistance(s1, Candidates[k])]
           near == {k \in DOMAIN Candidates : distance[k] <= 2 \/ 5 * distance[k] <= 2 * Len(s1)}
           nearer == {k \in DOMAIN Candidates : distance[k] <= 2 \/ 2 * distance[k] <= Len(s1)}
           first(k) ==
             \A other \in DOMAIN Candidates :
               distance[k] < distance[other] \/ (distance[k] = distance[other] /\ k <= other)
<1>1. IF s1 = <<>> \/ nearer = {}
        THEN suggestion = <<>>
        ELSE \E k \in nearer : suggestion = Candidates[k] /\ first(k)
  BY UpToHalfFollows DEF ProposedUpToHalf
<1>2. s1 # <<>> => near \subseteq nearer
  <2> SUFFICES ASSUME s1 # <<>> PROVE near \subseteq nearer
    OBVIOUS
  <2>1. Len(s1) \in Nat
    <3>1. s1 \in Seq(Letter)
      BY WordsAssumption DEF SearchInv, LoopInv
    <3> QED
      BY <3>1
  <2>2. ASSUME NEW k \in DOMAIN Candidates PROVE distance[k] \in Nat
    <3>1. Candidates # <<>> /\ Len(Candidates) # 0
      BY CandidatesAssumption
    <3>2. next = Len(Candidates) + 1
      BY <3>1 DEF SearchInv, LoopInv
    <3>3. next # 1 /\ next - 1 = Len(Candidates)
      BY <3>1, <3>2, CandidatesAreWords
    <3>4. NearestOf(Len(Candidates), best, minDist)
      BY <3>3 DEF SearchInv, LoopInv
    <3>5. \A l \in 1 .. Len(Candidates) : EditDistance(s1, Candidates[l]) \in Nat
      BY <3>4 DEF NearestOf
    <3> QED
      BY <3>5, CandidatesAreWords
  <2> HIDE DEF distance
  <2> QED
    BY <2>1, <2>2
<1>3. \A k \in DOMAIN Candidates : Candidates[k] # <<>>
  BY CandidatesAreWords
<1> HIDE DEF distance
<1>4. IF suggestion = <<>>
        THEN s1 = <<>> \/ near = {}
        ELSE s1 # <<>> /\ \E k \in DOMAIN Candidates : suggestion = Candidates[k] /\ first(k)
  BY <1>1, <1>2, <1>3
<1> QED
  BY <1>4 DEF NearestIsProposed, distance

\* The table is indexed within its bounds, and only a candidate is ever kept
\* (terminal.cpp:176-194).
THEOREM SearchTypeCorrect == SearchSpec => []SearchTypeOK
<1>1. SearchInv => SearchTypeOK
  <2> SUFFICES ASSUME SearchInv PROVE SearchTypeOK
    OBVIOUS
  <2>1. best \in Range(Candidates) \cup {<<>>}
    <3>1. CASE next = 1
      BY <3>1 DEF SearchInv, LoopInv
    <3>2. CASE next # 1
      <4>1. next \in 1 .. Len(Candidates) + 1 /\ NearestOf(next - 1, best, minDist)
        BY <3>2 DEF SearchInv, LoopInv
      <4>2. PICK k \in 1 .. next - 1 : best = Candidates[k]
        BY <4>1 DEF NearestOf
      <4>3. k \in 1 .. Len(Candidates)
        BY <4>1, <4>2, CandidatesAreWords
      <4> QED
        BY <4>2, <4>3, CandidatesAreWords
    <3> QED
      BY <3>1, <3>2
  <2>2. suggestion \in {<<>>, best}
    BY DEF SearchInv, LoopInv
  <2> QED
    BY <2>1, <2>2 DEF SearchInv, TableInv, TableOK, LoopInv, SearchTypeOK
<1> QED
  BY <1>1, SearchInvHolds, PTL

\* Within a search too, the distance is 0 for equal words only.
THEOREM SearchZeroIffEqual == SearchSpec => []ZeroIffEqual
<1>1. SearchInv => ZeroIffEqual
  BY DEF SearchInv, TableInv
<1> QED
  BY <1>1, SearchInvHolds, PTL

\* Within a search too, every distance that is looked at is minimal, though one
\* table follows the other (terminal.cpp:147-185).
THEOREM SearchDistanceIsMinimal == SearchSpec => []DistanceIsMinimal
<1>1. SearchInv => DistanceIsMinimal
  BY ReturnedIsDistance DEF SearchInv, TableInv, DistanceIsMinimal
<1> QED
  BY <1>1, SearchInvHolds, PTL

\* What is proposed is the first of the nearest candidates, and whoever has one
\* within two edits or 40% of the length gets it, for any input and any list of
\* candidates (terminal.cpp:170-194).
THEOREM NearestIsProposedHolds == SearchSpec => []NearestIsProposed
<1>1. SearchInv => NearestIsProposed
  BY NearestFollows
<1> QED
  BY <1>1, SearchInvHolds, PTL

-----------------------------------------------------------------------------
(***************************************************************************)
(* CommandLine: what parse_cli_args makes of a command line of any length. *)
(* The values of options are found from left to right, all other           *)
(* definitions speak of the places in front of a bound; each branch of the *)
(* loop moves the bound and what the options hold in the same way.         *)
(***************************************************************************)
\* Min of a non-empty set of natural numbers is its least element.
LEMMA MinIsLeast ==
  ASSUME NEW S, S \subseteq Nat, S # {}
  PROVE  Min(S) \in S /\ \A y \in S : Min(S) <= y
<1>. DEFINE Less == {ss \in Nat \X Nat : ss[1] < ss[2]}
<1>1. IsWellFoundedOn(Less, Nat)
  BY NatLessThanWellFounded DEF OpToRel
<1>2. PICK x \in S : \A y \in S : ~(<<y, x>> \in Less)
  <2>. HIDE DEF Less
  <2>. QED
    BY <1>1, WFMin
<1>3. ASSUME NEW y \in S PROVE x <= y
  <2>1. x \in Nat /\ y \in Nat
    OBVIOUS
  <2>2. y < x => <<y, x>> \in Less
    BY <2>1
  <2>. HIDE DEF Less
  <2>. QED
    BY <1>2, <2>1, <2>2
<1>. HIDE DEF Less
<1>. QED
  BY <1>3 DEF Min

\* Which positions hold values is decided from left to right.
ValuesUpTo(n, isValue) ==
  /\ DOMAIN isValue = 1 .. n
  /\ \A p \in 1 .. n :
       isValue[p] = (p > 1 /\ args[p - 1] \in OutputOptions \cup AlgorithmOptions /\ ~isValue[p - 1])

LEMMA ValuesExist ==
  ASSUME NEW m \in Nat
  PROVE  \E isValue : ValuesUpTo(m, isValue)
<1>. DEFINE open == {n \in Nat : ~ \E isValue : ValuesUpTo(n, isValue)}
<1>. SUFFICES ASSUME open # {} PROVE FALSE
  OBVIOUS
<1>1. PICK n \in open : \A k \in open : n <= k
  <2>. open \in SUBSET Nat
    OBVIOUS
  <2>. HIDE DEF open
  <2>. QED
    BY MinIsLeast
<1>2. n # 0
  <2>1. ValuesUpTo(0, [p \in 1 .. 0 |-> FALSE])
    BY DEF ValuesUpTo
  <2>. QED
    BY <2>1
<1>3. n - 1 \in Nat /\ n - 1 \notin open
  BY <1>1, <1>2
<1>4. PICK before : ValuesUpTo(n - 1, before)
  BY <1>3
<1>. DEFINE longer == [p \in 1 .. n |->
              IF p < n THEN before[p]
              ELSE p > 1 /\ args[p - 1] \in OutputOptions \cup AlgorithmOptions /\ ~before[p - 1]]
<1>5. ValuesUpTo(n, longer)
  <2>1. ASSUME NEW p \in 1 .. n
        PROVE  longer[p] = (p > 1 /\ args[p - 1] \in OutputOptions \cup AlgorithmOptions
                                  /\ ~longer[p - 1])
    <3>1. CASE p < n
      <4>1. p \in 1 .. n - 1 /\ (p > 1 => p - 1 \in 1 .. n /\ p - 1 < n)
        BY <3>1
      <4>2. before[p] = (p > 1 /\ args[p - 1] \in OutputOptions \cup AlgorithmOptions
                               /\ ~before[p - 1])
        BY <1>4, <4>1 DEF ValuesUpTo
      <4>. QED
        BY <3>1, <4>1, <4>2
    <3>2. CASE p = n
      <4>1. p > 1 => p - 1 \in 1 .. n /\ p - 1 < n
        BY <3>2
      <4>. QED
        BY <3>2, <4>1
    <3>. QED
      BY <3>1, <3>2
  <2>. QED
    BY <2>1 DEF ValuesUpTo
<1>. QED
  BY <1>1, <1>5

LEMMA ValuesDecided ==
  ASSUME Len(args) \in Nat
  PROVE  /\ DOMAIN IsValue = 1 .. Len(args)
         /\ \A p \in 1 .. Len(args) :
              IsValue[p] = (p > 1 /\ args[p - 1] \in OutputOptions \cup AlgorithmOptions
                                  /\ ~IsValue[p - 1])
<1>. DEFINE def(f) == [p \in 1 .. Len(args) |->
              p > 1 /\ args[p - 1] \in OutputOptions \cup AlgorithmOptions /\ ~f[p - 1]]
<1>1. PICK isValue : ValuesUpTo(Len(args), isValue)
  BY ValuesExist
<1>. DEFINE f == [p \in 1 .. Len(args) |-> isValue[p]]
<1>2. f = def(f)
  <2>1. ASSUME NEW p \in 1 .. Len(args)
        PROVE  isValue[p] = (p > 1 /\ args[p - 1] \in OutputOptions \cup AlgorithmOptions
                                   /\ ~f[p - 1])
    <3>1. p > 1 => p - 1 \in 1 .. Len(args)
      OBVIOUS
    <3>. QED
      BY <1>1, <3>1 DEF ValuesUpTo
  <2>. QED
    BY <2>1
<1>3. IsValue = def(IsValue)
  BY <1>2 DEF IsValue
<1>. QED
  BY <1>3

-----------------------------------------------------------------------------
(***************************************************************************)
(* Places on the command line.                                             *)
(***************************************************************************)
LEMMA LineIsWords ==
  ASSUME args \in ArgumentLists
  PROVE  /\ Len(args) \in Nat /\ End \in Nat \ {0}
         /\ \A p \in 1 .. Len(args) : args[p] \in STRING /\ args[p] # NoValue
BY ArgumentsAssumption DEF End

\* Facts of arithmetic, stated apart from the words of the command line.
LEMMA NotBelowItself ==
  ASSUME NEW n \in Nat
  PROVE  ~(n < n) /\ \A p \in Nat : p < n => ~(n < p)
OBVIOUS

LEMMA FurtherIsBehind ==
  ASSUME NEW n \in Nat, NEW m \in Nat, n + 1 <= m
  PROVE  n <= m
OBVIOUS

\* Places one further, and up to a bound.
LEMMA PlaceArithmetic ==
  ASSUME NEW m \in Nat
  PROVE  /\ 1 \in 1 .. m + 1
         /\ \A n \in 1 .. m : n + 1 \in 1 .. m + 1
         /\ \A n \in 1 .. m + 1 : n <= m => n \in 1 .. m
OBVIOUS

LEMMA PlaceIsNat ==
  ASSUME args \in ArgumentLists, NEW n \in 1 .. Len(args)
  PROVE  n \in Nat /\ n + 1 \in Nat /\ n <= n + 1 /\ n + 1 <= End
BY LineIsWords DEF End

\* A first place is the only one.
LEMMA FirstIsOne ==
  ASSUME NEW S \in SUBSET Nat, S # {}
  PROVE  /\ First(S) = {Min(S)} /\ Min(S) \in S /\ \A q \in S : Min(S) <= q
         /\ Min(First(S)) = Min(S)
<1>1. Min(S) \in S /\ \A q \in S : Min(S) <= q
  BY MinIsLeast
<1>2. Min(S) \in Nat /\ S \subseteq Nat
  BY <1>1
<1>. DEFINE m == Min(S)
<1>3. First(S) = {m}
  <2>. HIDE DEF m
  <2>1. m \in S /\ \A q \in S : m <= q
    BY <1>1 DEF m
  <2>2. \A p \in First(S) : p \in Nat /\ p <= m /\ m <= p
    BY <1>2, <2>1 DEF First
  <2>3. \A p \in First(S) : p = m
    BY <1>2, <2>2 DEF m
  <2>. QED
    BY <2>1, <2>3 DEF First
<1>4. Min({m}) = m
  <2>. HIDE DEF m
  <2>1. {m} \subseteq Nat /\ {m} # {}
    BY <1>2 DEF m
  <2>. QED
    BY <2>1, MinIsLeast
<1>. QED
  BY <1>1, <1>3, <1>4

\* Places without a first one, and with one only.
LEMMA NoFirst == First({}) = {}
BY DEF First

LEMMA FirstNone ==
  ASSUME NEW S \in SUBSET Nat, First(S) = {}
  PROVE  S = {}
BY FirstIsOne

LEMMA OnlyFirst == ASSUME NEW n \in Nat PROVE First({n}) = {n}
BY DEF First

\* What is added behind a first place leaves it the first.
LEMMA FirstStays ==
  ASSUME NEW S \in SUBSET Nat, NEW T \in SUBSET Nat, S # {}, S \subseteq T,
         \A p \in S : \A q \in T \ S : p <= q
  PROVE  First(T) = First(S)
<1>1. \A p \in T : p \in First(T) => p \in S
  <2>. SUFFICES ASSUME NEW p \in First(T), p \notin S PROVE FALSE
    OBVIOUS
  <2>1. PICK q \in S : TRUE
    OBVIOUS
  <2>2. p \in T \ S /\ p <= q /\ q <= p
    BY <2>1 DEF First
  <2>3. p \in Nat /\ q \in Nat
    BY DEF First
  <2>. QED
    BY <2>2, <2>3
<1>2. First(T) \subseteq First(S)
  BY <1>1 DEF First
<1>3. First(S) \subseteq First(T)
  BY DEF First
<1>. QED
  BY <1>2, <1>3

\* The last of some places is one that stands behind them all.
LEMMA LastIsNew ==
  ASSUME NEW S \in SUBSET Nat, NEW n \in Nat, \A p \in S : p < n
  PROVE  LastOf(S \cup {n}) = args[n]
<1>1. \A p \in S \cup {n} : p \in Nat /\ n >= p
  OBVIOUS
<1>2. ASSUME NEW x \in S \cup {n}, \A y \in S \cup {n} : x >= y PROVE x = n
  <2>1. x >= n /\ n >= x /\ x \in Nat
    BY <1>1, <1>2
  <2>. QED
    BY <2>1
<1>3. Max(S \cup {n}) = n
  BY <1>1, <1>2 DEF Max
<1>. QED
  BY <1>3 DEF LastOf

\* A place that holds no value.
LEMMA NextPlace ==
  ASSUME args \in ArgumentLists, NEW n \in 1 .. Len(args), ~IsValue[n]
  PROVE  /\ \A words : args[n] \in words => Bare(words, n + 1) = Bare(words, n) \cup {n}
         /\ \A words : args[n] \notin words => Bare(words, n + 1) = Bare(words, n)
         /\ \A options : ValuesOf(options, n + 1) = ValuesOf(options, n)
         /\ args[n] \in Options => Positionals(n + 1) = Positionals(n)
         /\ args[n] \notin Options => Positionals(n + 1) = Positionals(n) \cup {n}
<1>1. n \in Nat /\ \A p : p \in 1 .. (n + 1) - 1 <=> p \in 1 .. n - 1 \/ p = n
  BY LineIsWords
<1>2. \A p : p \in 2 .. (n + 1) - 1 <=> p \in 2 .. n - 1 \/ (p = n /\ n > 1)
  BY LineIsWords
<1>. QED
  BY <1>1, <1>2 DEF Bare, ValuesOf, Positionals

\* A place that holds a value.
LEMMA NextValue ==
  ASSUME args \in ArgumentLists, NEW n \in 2 .. Len(args), IsValue[n]
  PROVE  /\ \A words : Bare(words, n + 1) = Bare(words, n)
         /\ \A options : args[n - 1] \in options =>
              ValuesOf(options, n + 1) = ValuesOf(options, n) \cup {n}
         /\ \A options : args[n - 1] \notin options => ValuesOf(options, n + 1) = ValuesOf(options, n)
         /\ Positionals(n + 1) = Positionals(n)
<1>1. n \in Nat /\ \A p : p \in 1 .. (n + 1) - 1 <=> p \in 1 .. n - 1 \/ p = n
  BY LineIsWords
<1>2. \A p : p \in 2 .. (n + 1) - 1 <=> p \in 2 .. n - 1 \/ p = n
  BY LineIsWords
<1>. QED
  BY <1>1, <1>2 DEF Bare, ValuesOf, Positionals

\* Places up to n are in front of n.
LEMMA PlacesInFront ==
  ASSUME NEW n \in Nat
  PROVE  /\ \A options : \A p \in ValuesOf(options, n) : p \in Nat /\ p < n
         /\ \A p \in Positionals(n) : p \in Nat /\ p < n
         /\ \A p \in Named(n) : p \in Nat /\ p < n
         /\ Named(n) \in SUBSET Nat
         /\ \A p \in CommandPlace(n) : p \in Named(n)
         /\ \A p \in TargetPlace(n) : p \in Named(n) /\ p \in Nat /\ p < n
         /\ \A p \in AlgorithmsGiven(n) : p \in Nat /\ p < n
         /\ AlgorithmsGiven(n) \in SUBSET Nat
         /\ \A options : ValuesOf(options, n) \in SUBSET Nat
<1>1. \A options : \A p \in ValuesOf(options, n) : p \in Nat /\ p < n
  BY DEF ValuesOf
<1>2. \A p \in Positionals(n) : p \in Nat /\ p < n
  BY DEF Positionals
<1>3. \A p \in Named(n) : p \in Nat /\ p < n
  BY <1>2 DEF Named
<1>4. \A p \in CommandPlace(n) : p \in Named(n)
  BY DEF CommandPlace, First
<1>5. \A p \in TargetPlace(n) : p \in Named(n) /\ p \in Nat /\ p < n
  BY <1>3 DEF TargetPlace, First
<1>6. \A p \in AlgorithmsGiven(n) : p \in Nat /\ p < n
  BY <1>1, <1>2 DEF AlgorithmsGiven, Extras
<1>. QED
  BY <1>1, <1>2, <1>3, <1>4, <1>5, <1>6

\* What the places of arguments say depends on nothing else.
LEMMA SameArguments ==
  ASSUME NEW m, NEW n, Positionals(m) = Positionals(n)
  PROVE  /\ CommandPlace(m) = CommandPlace(n) /\ TargetPlace(m) = TargetPlace(n)
         /\ Extras(m) = Extras(n)
<1>1. Named(m) = Named(n)
  BY DEF Named
<1>2. CommandPlace(m) = CommandPlace(n)
  BY <1>1 DEF CommandPlace
<1>3. TargetPlace(m) = TargetPlace(n)
  BY <1>1, <1>2 DEF TargetPlace
<1>. QED
  BY <1>2, <1>3 DEF Extras

\* An argument without characters is none of the first two.
LEMMA EmptyArgument ==
  ASSUME NEW n \in Nat, args[n] = "", Positionals(n + 1) = Positionals(n) \cup {n}
  PROVE  /\ CommandPlace(n + 1) = CommandPlace(n) /\ TargetPlace(n + 1) = TargetPlace(n)
         /\ TargetPlace(n) = {} => Extras(n) = {} /\ Extras(n + 1) = {}
<1>1. Named(n + 1) = Named(n)
  BY DEF Named
<1>2. CommandPlace(n + 1) = CommandPlace(n)
  BY <1>1 DEF CommandPlace
<1>3. TargetPlace(n + 1) = TargetPlace(n)
  BY <1>1, <1>2 DEF TargetPlace
<1>. QED
  BY <1>2, <1>3 DEF Extras

\* The first argument that is not empty.
LEMMA CommandArgument ==
  ASSUME args \in ArgumentLists, NEW n \in 1 .. Len(args), args[n] # "", CommandPlace(n) = {},
         Positionals(n + 1) = Positionals(n) \cup {n}
  PROVE  /\ CommandPlace(n + 1) = {n}
         /\ TargetPlace(n) = {} /\ TargetPlace(n + 1) = {}
         /\ Extras(n) = {} /\ Extras(n + 1) = {}
<1>. n \in Nat /\ n + 1 \in Nat /\ n <= n + 1
  BY PlaceIsNat
<1>1. Named(n) \in SUBSET Nat
  BY PlacesInFront
<1>2. Named(n) = {}
  <2>1. First(Named(n)) = {}
    BY DEF CommandPlace
  <2>. QED
    BY <1>1, <2>1, FirstNone, Zenon
<1>3. Named(n + 1) = {n}
  BY <1>2 DEF Named
<1>4. CommandPlace(n + 1) = {n}
  BY <1>3, OnlyFirst DEF CommandPlace
<1>5. TargetPlace(n) = {} /\ TargetPlace(n + 1) = {}
  <2>1. Named(n) \ CommandPlace(n) = {} /\ Named(n + 1) \ CommandPlace(n + 1) = {}
    BY <1>2, <1>3, <1>4
  <2>. QED
    BY <2>1, NoFirst DEF TargetPlace
<1>. QED
  BY <1>4, <1>5 DEF Extras

\* Reading on finds more arguments, behind those found.
LEMMA ArgumentsStay ==
  ASSUME NEW m \in Nat, NEW n \in Nat, n <= m
  PROVE  /\ \A p \in Positionals(n) : p \in Positionals(m)
         /\ \A p \in Named(n) : p \in Named(m)
         /\ \A p \in Named(n) : \A q \in Named(m) : q \notin Named(n) => p <= q
<1>1. \A p : p \in 1 .. n - 1 => p \in 1 .. m - 1
  OBVIOUS
<1>2. \A p \in Positionals(n) : p \in Positionals(m)
  BY <1>1, Zenon DEF Positionals
<1>3. \A p \in Named(n) : p \in Named(m)
  BY <1>2, Zenon DEF Named
<1>4. ASSUME NEW p \in Named(n), NEW q \in Named(m), q \notin Named(n) PROVE p <= q
  <2>1. q \notin 1 .. n - 1
    BY <1>4, Zenon DEF Named, Positionals
  <2>2. q \in Nat /\ q # 0 /\ p \in Nat /\ p < n
    <3>1. p \in 1 .. n - 1 /\ q \in 1 .. m - 1
      BY Zenon DEF Named, Positionals
    <3>. QED
      BY <3>1
  <2>. QED
    BY <2>1, <2>2
<1>. QED
  BY <1>2, <1>3, <1>4

\* Later arguments leave the command the command.
LEMMA CommandStays ==
  ASSUME NEW m \in Nat, NEW n \in Nat, n <= m, CommandPlace(n) # {}
  PROVE  CommandPlace(m) = CommandPlace(n)
<1>1. Named(n) \in SUBSET Nat /\ Named(m) \in SUBSET Nat
  BY PlacesInFront
<1>2. Named(n) # {}
  BY NoFirst DEF CommandPlace
<1>3. /\ Named(n) \subseteq Named(m)
      /\ \A p \in Named(n) : \A q \in Named(m) \ Named(n) : p <= q
  BY ArgumentsStay
<1>. QED
  BY <1>1, <1>2, <1>3, FirstStays DEF CommandPlace

\* The second argument that is not empty.
LEMMA TargetArgument ==
  ASSUME args \in ArgumentLists, NEW n \in 1 .. Len(args), args[n] # "",
         CommandPlace(n) # {}, TargetPlace(n) = {},
         Positionals(n + 1) = Positionals(n) \cup {n}
  PROVE  /\ CommandPlace(n + 1) = CommandPlace(n)
         /\ TargetPlace(n + 1) = {n}
         /\ Extras(n) = {} /\ Extras(n + 1) = {}
<1>. n \in Nat /\ n + 1 \in Nat /\ n <= n + 1
  BY PlaceIsNat
<1>1. Named(n) \in SUBSET Nat /\ \A p \in Positionals(n) : p \in Nat /\ p < n
  BY PlacesInFront
<1>2. CommandPlace(n + 1) = CommandPlace(n)
  BY <1>1, CommandStays
<1>3. Named(n) \ CommandPlace(n) = {}
  <2>. DEFINE S == Named(n) \ CommandPlace(n)
  <2>1. S \in SUBSET Nat /\ First(S) = {}
    BY <1>1 DEF TargetPlace
  <2>. HIDE DEF S
  <2>2. S = {}
    BY <2>1, FirstNone
  <2>. QED
    BY <2>2 DEF S
<1>4. n \notin CommandPlace(n)
  <2>1. ~(n < n)
    BY NotBelowItself
  <2>. QED
    BY <2>1, PlacesInFront
<1>5. Named(n + 1) = Named(n) \cup {n}
  BY DEF Named
<1>6. Named(n + 1) \ CommandPlace(n + 1) = {n}
  BY <1>2, <1>3, <1>4, <1>5
<1>7. TargetPlace(n + 1) = {n}
  BY <1>6, OnlyFirst DEF TargetPlace
<1>8. Extras(n) = {}
  BY NoFirst DEF Extras
<1>9. Extras(n + 1) = {}
  <2>1. \A p \in Positionals(n) : ~(n < p)
    BY <1>1, NotBelowItself
  <2>2. ~(n < n)
    BY NotBelowItself
  <2>. QED
    BY <1>7, <2>1, <2>2, Zenon DEF Extras
<1>. QED
  BY <1>2, <1>7, <1>8, <1>9

\* Nor do later arguments take the target's place, and what was too much remains so.
LEMMA TargetStays ==
  ASSUME NEW m \in Nat, NEW n \in Nat, n <= m, TargetPlace(n) # {}
  PROVE  /\ CommandPlace(m) = CommandPlace(n) /\ TargetPlace(m) = TargetPlace(n)
         /\ Extras(n) \subseteq Extras(m)
<1>. DEFINE S == Named(n) \ CommandPlace(n)
            T == Named(m) \ CommandPlace(m)
<1>1. Named(n) \in SUBSET Nat /\ Named(m) \in SUBSET Nat
  BY PlacesInFront
<1>2. S # {}
  BY NoFirst DEF TargetPlace
<1>3. CommandPlace(n) # {}
  <2>1. Named(n) # {}
    BY <1>2
  <2>. QED
    BY <1>1, <2>1, FirstIsOne DEF CommandPlace
<1>4. CommandPlace(m) = CommandPlace(n)
  BY <1>3, CommandStays
<1>5. S \in SUBSET Nat /\ T \in SUBSET Nat /\ S \subseteq T
  BY <1>1, <1>4, ArgumentsStay
<1>6. \A p \in S : \A q \in T \ S : p <= q
  <2>1. \A q \in T \ S : q \in Named(m) /\ q \notin Named(n)
    BY <1>4
  <2>. QED
    BY <2>1, ArgumentsStay
<1>7. First(T) = First(S)
  <2>. HIDE DEF S, T
  <2>. QED
    BY <1>2, <1>5, <1>6, FirstStays
<1>8. TargetPlace(m) = TargetPlace(n)
  BY <1>7 DEF TargetPlace
<1>9. Positionals(n) \subseteq Positionals(m)
  BY ArgumentsStay
<1>. QED
  BY <1>4, <1>8, <1>9 DEF Extras

\* An argument behind the target is one too many.
LEMMA ExtraArgument ==
  ASSUME args \in ArgumentLists, NEW n \in 1 .. Len(args), TargetPlace(n) # {},
         Positionals(n + 1) = Positionals(n) \cup {n}
  PROVE  /\ CommandPlace(n + 1) = CommandPlace(n) /\ TargetPlace(n + 1) = TargetPlace(n)
         /\ Extras(n + 1) = Extras(n) \cup {n}
<1>1. n \in Nat /\ n + 1 \in Nat /\ n <= n + 1
  BY PlaceIsNat
<1>2. CommandPlace(n + 1) = CommandPlace(n) /\ TargetPlace(n + 1) = TargetPlace(n)
  BY <1>1, TargetStays
<1>3. \A q \in TargetPlace(n) : q < n
  BY <1>1, PlacesInFront
<1>. QED
  BY <1>2, <1>3 DEF Extras

-----------------------------------------------------------------------------
(***************************************************************************)
(* What has been read when the n-th argument is next.                      *)
(***************************************************************************)
HelpOrVersion == HelpWords \cup VersionWords

ValueOptions == OutputOptions \cup AlgorithmOptions

\* The argument before is no option whose value is still to come.
Fresh(n) == n > 1 /\ args[n - 1] \in ValueOptions => IsValue[n - 1]

\* Nothing behind the target was too much.
Orderly(n) ==
  \A p \in Extras(n) :
    args[p] \in AlgorithmNames /\ \A q \in AlgorithmsGiven(n) : ~(q < p)

\* The command line so far is one to be read on.
Readable(n) ==
  n \in 1 .. End /\ Fresh(n) /\ Bare(HelpOrVersion, n) = {} /\ Orderly(n)

NamesUnderstood(o, n) ==
  o.command = WordAt(CommandPlace(n)) /\ o.target = WordAt(TargetPlace(n))

ValuesUnderstood(o, n) ==
  o.output = LastOf(ValuesOf(OutputOptions, n)) /\ o.algorithm = LastOf(AlgorithmsGiven(n))

FlagsUnderstood(o, n) ==
  /\ o.quiet = (Bare(QuietFlags, n) # {})
  /\ o.verbose = (Bare(VerboseFlags, n) # {})
  /\ o.json = (Bare(JsonFlags, n) # {})

\* The options hold what was read.
Understood(o, n) == NamesUnderstood(o, n) /\ ValuesUnderstood(o, n) /\ FlagsUnderstood(o, n)

\* All this is said of the command line alone, which no step changes.
LEMMA LineStays ==
  ASSUME args' = args
  PROVE  /\ IsValue' = IsValue /\ End' = End /\ Stop' = Stop
         /\ (IsRefused <=> IsRefused')
         /\ \A n : Readable(n)' <=> Readable(n)
         /\ \A n : \A o : Understood(o, n)' <=> Understood(o, n)
         /\ \A places : WordAt(places)' = WordAt(places)
         /\ \A places : LastOf(places)' = LastOf(places)
         /\ \A words, n : Bare(words, n)' = Bare(words, n)
         /\ \A words, n : ValuesOf(words, n)' = ValuesOf(words, n)
         /\ \A n : AlgorithmsGiven(n)' = AlgorithmsGiven(n)
         /\ \A n : CommandPlace(n)' = CommandPlace(n)
         /\ \A n : TargetPlace(n)' = TargetPlace(n)
<1>1. IsValue' = IsValue
  BY DEF IsValue
<1>2. End' = End
  BY DEF End
<1>3. \A words, n : Bare(words, n)' = Bare(words, n)
  BY <1>1 DEF Bare
<1>4. Stop' = Stop
  BY <1>2, <1>3 DEF Stop
<1>5. \A words, n : ValuesOf(words, n)' = ValuesOf(words, n)
  BY <1>1 DEF ValuesOf
<1>6. \A n : Positionals(n)' = Positionals(n)
  BY <1>1 DEF Positionals
<1>7. \A n : Named(n)' = Named(n)
  BY <1>6 DEF Named
<1>8. \A n : CommandPlace(n)' = CommandPlace(n)
  BY <1>7 DEF CommandPlace
<1>9. \A n : TargetPlace(n)' = TargetPlace(n)
  BY <1>7, <1>8 DEF TargetPlace
<1>10. \A n : Extras(n)' = Extras(n)
  BY <1>6, <1>9 DEF Extras
<1>11. \A n : AlgorithmsGiven(n)' = AlgorithmsGiven(n)
  BY <1>5, <1>10 DEF AlgorithmsGiven
<1>12. \A places : WordAt(places)' = WordAt(places)
  BY DEF WordAt
<1>13. \A places : LastOf(places)' = LastOf(places)
  BY DEF LastOf
<1>14. IsRefused <=> IsRefused'
  BY <1>2, <1>3, <1>4, <1>10, <1>11 DEF IsRefused
<1>15. \A n : Readable(n)' <=> Readable(n)
  BY <1>1, <1>2, <1>3, <1>10, <1>11 DEF Readable, Fresh, Orderly
<1>16. \A n : \A o : Understood(o, n)' <=> Understood(o, n)
  BY <1>3, <1>5, <1>8, <1>9, <1>11, <1>12, <1>13
  DEF Understood, NamesUnderstood, ValuesUnderstood, FlagsUnderstood
<1>. QED
  BY <1>1, <1>2, <1>3, <1>4, <1>5, <1>8, <1>9, <1>11, <1>12, <1>13, <1>14, <1>15, <1>16

-----------------------------------------------------------------------------
(***************************************************************************)
(* One argument further.                                                   *)
(***************************************************************************)
\* The argument to be read is no value.
LEMMA ReadableIsBare ==
  ASSUME args \in ArgumentLists, NEW n \in 1 .. Len(args), Readable(n)
  PROVE  ~IsValue[n]
<1>1. Len(args) \in Nat
  BY LineIsWords
<1>2. IsValue[n] = (n > 1 /\ args[n - 1] \in OutputOptions \cup AlgorithmOptions /\ ~IsValue[n - 1])
  BY <1>1, ValuesDecided
<1>. QED
  BY <1>2 DEF Readable, Fresh, ValueOptions

\* An argument that is no help word and no option with a value is read alone.
LEMMA ReadableFurther ==
  ASSUME args \in ArgumentLists, NEW n \in 1 .. Len(args), Readable(n),
         args[n] \notin HelpOrVersion, args[n] \notin ValueOptions,
         Orderly(n + 1)
  PROVE  Readable(n + 1)
<1>1. ~IsValue[n]
  BY ReadableIsBare
<1>2. n + 1 \in 1 .. End
  BY LineIsWords DEF End
<1>3. Bare(HelpOrVersion, n + 1) = {}
  BY <1>1, NextPlace DEF Readable
<1>4. Fresh(n + 1)
  <2>1. (n + 1) - 1 = n
    BY LineIsWords
  <2>. QED
    BY <2>1 DEF Fresh
<1>. QED
  BY <1>2, <1>3, <1>4 DEF Readable

\* An option with its value is read with it.
LEMMA ValueFurther ==
  ASSUME args \in ArgumentLists, NEW n \in 1 .. Len(args), n < Len(args), Readable(n),
         args[n] \in ValueOptions, args[n] \notin HelpOrVersion
  PROVE  /\ Positionals(n + 2) = Positionals(n)
         /\ \A words : args[n] \notin words => Bare(words, n + 2) = Bare(words, n)
         /\ \A options : args[n] \in options =>
              ValuesOf(options, n + 2) = ValuesOf(options, n) \cup {n + 1}
         /\ \A options : args[n] \notin options => ValuesOf(options, n + 2) = ValuesOf(options, n)
         /\ n + 2 \in 1 .. End /\ Fresh(n + 2) /\ Bare(HelpOrVersion, n + 2) = {}
<1>. DEFINE m == n + 1
<1>1. ~IsValue[n]
  BY ReadableIsBare
<1>2. m \in 2 .. Len(args) /\ m \in 1 .. Len(args) /\ m - 1 = n /\ m > 1 /\ n + 2 = m + 1
      /\ n + 2 \in 1 .. End /\ (n + 2) - 1 = m
  BY LineIsWords DEF End
<1>3. IsValue[m]
  BY <1>1, <1>2, LineIsWords, ValuesDecided DEF ValueOptions
<1>4. args[n] \in Options
  BY DEF ValueOptions, Options
<1>. HIDE DEF m
<1>5. /\ \A words : args[n] \notin words => Bare(words, m) = Bare(words, n)
      /\ \A options : ValuesOf(options, m) = ValuesOf(options, n)
      /\ Positionals(m) = Positionals(n)
  BY <1>1, <1>4, NextPlace DEF m
<1>6. /\ \A words : Bare(words, m + 1) = Bare(words, m)
      /\ \A options : args[n] \in options => ValuesOf(options, m + 1) = ValuesOf(options, m) \cup {m}
      /\ \A options : args[n] \notin options => ValuesOf(options, m + 1) = ValuesOf(options, m)
      /\ Positionals(m + 1) = Positionals(m)
  BY <1>2, <1>3, NextValue
<1>7. Fresh(n + 2)
  BY <1>2, <1>3 DEF Fresh
<1>8. Bare(HelpOrVersion, n + 2) = {}
  BY <1>2, <1>5, <1>6 DEF Readable
<1>. QED
  BY <1>2, <1>5, <1>6, <1>7, <1>8 DEF m

\* What the options hold while nothing but values and flags is read.
LEMMA FlagRead ==
  ASSUME args \in ArgumentLists, NEW n \in 1 .. Len(args), Readable(n),
         NEW o \in CliOptions, Understood(o, n),
         args[n] \in QuietFlags \cup VerboseFlags \cup JsonFlags
  PROVE  /\ Readable(n + 1)
         /\ args[n] \in QuietFlags => Understood([o EXCEPT !.quiet = TRUE], n + 1)
         /\ args[n] \in VerboseFlags => Understood([o EXCEPT !.verbose = TRUE], n + 1)
         /\ args[n] \in JsonFlags => Understood([o EXCEPT !.json = TRUE], n + 1)
<1>1. args[n] \in Options /\ args[n] \notin HelpOrVersion /\ args[n] \notin ValueOptions
  BY DEF QuietFlags, VerboseFlags, JsonFlags, Options, HelpOrVersion, HelpWords, VersionWords,
         ValueOptions, OutputOptions, AlgorithmOptions
<1>2. ~IsValue[n]
  BY ReadableIsBare
<1>3. /\ \A words : args[n] \in words => Bare(words, n + 1) = Bare(words, n) \cup {n}
      /\ \A words : args[n] \notin words => Bare(words, n + 1) = Bare(words, n)
      /\ \A options : ValuesOf(options, n + 1) = ValuesOf(options, n)
      /\ Positionals(n + 1) = Positionals(n)
  BY <1>1, <1>2, NextPlace
<1>4. /\ CommandPlace(n + 1) = CommandPlace(n) /\ TargetPlace(n + 1) = TargetPlace(n)
      /\ Extras(n + 1) = Extras(n)
  BY <1>3, SameArguments
<1>5. AlgorithmsGiven(n + 1) = AlgorithmsGiven(n)
  BY <1>3, <1>4 DEF AlgorithmsGiven
<1>6. Readable(n + 1)
  BY <1>1, <1>4, <1>5, ReadableFurther DEF Readable, Orderly
<1>7. ASSUME NEW o2 \in CliOptions, o2.command = o.command, o2.target = o.target,
             o2.output = o.output, o2.algorithm = o.algorithm
      PROVE  NamesUnderstood(o2, n + 1) /\ ValuesUnderstood(o2, n + 1)
  BY <1>3, <1>4, <1>5, <1>7 DEF Understood, NamesUnderstood, ValuesUnderstood
<1>8. CASE args[n] \in QuietFlags
  <2>. DEFINE o2 == [o EXCEPT !.quiet = TRUE]
  <2>1. /\ o2 \in CliOptions /\ o2.quiet = TRUE /\ o2.verbose = o.verbose /\ o2.json = o.json
        /\ o2.command = o.command /\ o2.target = o.target
        /\ o2.output = o.output /\ o2.algorithm = o.algorithm
    BY DEF CliOptions
  <2>2. args[n] \notin VerboseFlags /\ args[n] \notin JsonFlags
    BY <1>8 DEF QuietFlags, VerboseFlags, JsonFlags
  <2>. HIDE DEF o2
  <2>3. FlagsUnderstood(o2, n + 1)
    BY <1>3, <1>8, <2>1, <2>2 DEF Understood, FlagsUnderstood
  <2>4. Understood(o2, n + 1)
    BY <1>7, <2>1, <2>3 DEF Understood
  <2>. QED
    BY <1>6, <2>2, <2>4 DEF o2
<1>9. CASE args[n] \in VerboseFlags
  <2>. DEFINE o2 == [o EXCEPT !.verbose = TRUE]
  <2>1. /\ o2 \in CliOptions /\ o2.quiet = o.quiet /\ o2.verbose = TRUE /\ o2.json = o.json
        /\ o2.command = o.command /\ o2.target = o.target
        /\ o2.output = o.output /\ o2.algorithm = o.algorithm
    BY DEF CliOptions
  <2>2. args[n] \notin QuietFlags /\ args[n] \notin JsonFlags
    BY <1>9 DEF QuietFlags, VerboseFlags, JsonFlags
  <2>. HIDE DEF o2
  <2>3. FlagsUnderstood(o2, n + 1)
    BY <1>3, <1>9, <2>1, <2>2 DEF Understood, FlagsUnderstood
  <2>4. Understood(o2, n + 1)
    BY <1>7, <2>1, <2>3 DEF Understood
  <2>. QED
    BY <1>6, <2>2, <2>4 DEF o2
<1>10. CASE args[n] \in JsonFlags
  <2>. DEFINE o2 == [o EXCEPT !.json = TRUE]
  <2>1. /\ o2 \in CliOptions /\ o2.quiet = o.quiet /\ o2.verbose = o.verbose /\ o2.json = TRUE
        /\ o2.command = o.command /\ o2.target = o.target
        /\ o2.output = o.output /\ o2.algorithm = o.algorithm
    BY DEF CliOptions
  <2>2. args[n] \notin QuietFlags /\ args[n] \notin VerboseFlags
    BY <1>10 DEF QuietFlags, VerboseFlags, JsonFlags
  <2>. HIDE DEF o2
  <2>3. FlagsUnderstood(o2, n + 1)
    BY <1>3, <1>10, <2>1, <2>2 DEF Understood, FlagsUnderstood
  <2>4. Understood(o2, n + 1)
    BY <1>7, <2>1, <2>3 DEF Understood
  <2>. QED
    BY <1>6, <2>2, <2>4 DEF o2
<1>. QED
  BY <1>8, <1>9, <1>10

\* The value of an option replaces the one given before.
LEMMA ValueRead ==
  ASSUME args \in ArgumentLists, NEW n \in 1 .. Len(args), n < Len(args), Readable(n),
         NEW o \in CliOptions, Understood(o, n), args[n] \in ValueOptions
  PROVE  /\ Readable(n + 2)
         /\ args[n] \in OutputOptions => Understood([o EXCEPT !.output = args[n + 1]], n + 2)
         /\ args[n] \in AlgorithmOptions => Understood([o EXCEPT !.algorithm = args[n + 1]], n + 2)
<1>1. /\ args[n] \notin HelpOrVersion /\ args[n] \notin QuietFlags
      /\ args[n] \notin VerboseFlags /\ args[n] \notin JsonFlags
      /\ args[n] \in OutputOptions => args[n] \notin AlgorithmOptions
      /\ args[n] \in OutputOptions \/ args[n] \in AlgorithmOptions
  BY DEF QuietFlags, VerboseFlags, JsonFlags, Options, HelpOrVersion, HelpWords, VersionWords,
         ValueOptions, OutputOptions, AlgorithmOptions
<1>2. /\ Positionals(n + 2) = Positionals(n)
      /\ \A words : args[n] \notin words => Bare(words, n + 2) = Bare(words, n)
      /\ \A options : args[n] \in options =>
           ValuesOf(options, n + 2) = ValuesOf(options, n) \cup {n + 1}
      /\ \A options : args[n] \notin options => ValuesOf(options, n + 2) = ValuesOf(options, n)
      /\ n + 2 \in 1 .. End /\ Fresh(n + 2) /\ Bare(HelpOrVersion, n + 2) = {}
  BY <1>1, ValueFurther
<1>3. /\ CommandPlace(n + 2) = CommandPlace(n) /\ TargetPlace(n + 2) = TargetPlace(n)
      /\ Extras(n + 2) = Extras(n)
  BY <1>2, SameArguments
<1>4. n \in Nat /\ n + 1 \in Nat /\ (\A p \in Nat : p < n => p < n + 1 /\ ~(n + 1 < p))
  BY PlaceIsNat
<1>5. /\ \A p \in AlgorithmsGiven(n) : p < n + 1
      /\ \A p \in ValuesOf(OutputOptions, n) : p < n + 1
      /\ \A p \in Extras(n) : ~(n + 1 < p)
      /\ AlgorithmsGiven(n) \in SUBSET Nat /\ ValuesOf(OutputOptions, n) \in SUBSET Nat
  BY <1>4, PlacesInFront DEF Extras
<1>6. /\ args[n] \in AlgorithmOptions => AlgorithmsGiven(n + 2) = AlgorithmsGiven(n) \cup {n + 1}
      /\ args[n] \notin AlgorithmOptions => AlgorithmsGiven(n + 2) = AlgorithmsGiven(n)
  BY <1>2, <1>3 DEF AlgorithmsGiven
<1>7. Orderly(n + 2)
  BY <1>3, <1>5, <1>6 DEF Orderly, Readable
<1>8. Readable(n + 2)
  BY <1>2, <1>7 DEF Readable
<1>9. FlagsUnderstood(o, n + 2) /\ NamesUnderstood(o, n + 2)
  BY <1>1, <1>2, <1>3 DEF Understood, FlagsUnderstood, NamesUnderstood
<1>10. args[n + 1] \in STRING
  BY LineIsWords
<1>11. CASE args[n] \in OutputOptions
  <2>. DEFINE o2 == [o EXCEPT !.output = args[n + 1]]
  <2>1. /\ o2.quiet = o.quiet /\ o2.verbose = o.verbose /\ o2.json = o.json
        /\ o2.command = o.command /\ o2.target = o.target
        /\ o2.output = args[n + 1] /\ o2.algorithm = o.algorithm
    BY DEF CliOptions
  <2>. HIDE DEF o2
  <2>2. LastOf(ValuesOf(OutputOptions, n + 2)) = args[n + 1]
    BY <1>2, <1>4, <1>5, <1>11, LastIsNew
  <2>3. AlgorithmsGiven(n + 2) = AlgorithmsGiven(n)
    BY <1>1, <1>6, <1>11
  <2>4. ValuesUnderstood(o2, n + 2)
    BY <2>1, <2>2, <2>3 DEF Understood, ValuesUnderstood
  <2>5. Understood(o2, n + 2)
    BY <1>9, <2>1, <2>4 DEF Understood, FlagsUnderstood, NamesUnderstood
  <2>. QED
    BY <1>1, <1>8, <1>11, <2>5 DEF o2
<1>12. CASE args[n] \in AlgorithmOptions
  <2>. DEFINE o2 == [o EXCEPT !.algorithm = args[n + 1]]
  <2>1. /\ o2.quiet = o.quiet /\ o2.verbose = o.verbose /\ o2.json = o.json
        /\ o2.command = o.command /\ o2.target = o.target
        /\ o2.output = o.output /\ o2.algorithm = args[n + 1]
    BY DEF CliOptions
  <2>. HIDE DEF o2
  <2>2. LastOf(AlgorithmsGiven(n + 2)) = args[n + 1]
    BY <1>4, <1>5, <1>6, <1>12, LastIsNew
  <2>3. ValuesOf(OutputOptions, n + 2) = ValuesOf(OutputOptions, n)
    BY <1>1, <1>2, <1>12
  <2>4. ValuesUnderstood(o2, n + 2)
    BY <2>1, <2>2, <2>3 DEF Understood, ValuesUnderstood
  <2>5. Understood(o2, n + 2)
    BY <1>9, <2>1, <2>4 DEF Understood, FlagsUnderstood, NamesUnderstood
  <2>. QED
    BY <1>1, <1>8, <1>12, <2>5 DEF o2
<1>. QED
  BY <1>1, <1>11, <1>12

\* An argument that is no option.
LEMMA PositionalRead ==
  ASSUME args \in ArgumentLists, NEW n \in 1 .. Len(args), Readable(n), args[n] \notin Options
  PROVE  /\ args[n] \notin HelpOrVersion /\ args[n] \notin ValueOptions
         /\ \A words : args[n] \notin words => Bare(words, n + 1) = Bare(words, n)
         /\ \A options : ValuesOf(options, n + 1) = ValuesOf(options, n)
         /\ Positionals(n + 1) = Positionals(n) \cup {n}
         /\ \A o : FlagsUnderstood(o, n) => FlagsUnderstood(o, n + 1)
<1>1. /\ args[n] \notin HelpOrVersion /\ args[n] \notin ValueOptions
      /\ args[n] \notin QuietFlags /\ args[n] \notin VerboseFlags /\ args[n] \notin JsonFlags
  BY DEF HelpOrVersion, ValueOptions, Options
<1>2. ~IsValue[n]
  BY ReadableIsBare
<1>3. /\ \A words : args[n] \notin words => Bare(words, n + 1) = Bare(words, n)
      /\ \A options : ValuesOf(options, n + 1) = ValuesOf(options, n)
      /\ Positionals(n + 1) = Positionals(n) \cup {n}
  BY <1>2, NextPlace
<1>4. \A o : FlagsUnderstood(o, n) => FlagsUnderstood(o, n + 1)
  BY <1>1, <1>3 DEF FlagsUnderstood
<1>. QED
  BY <1>1, <1>3, <1>4

\* The words that stand for a command, for a target and for no algorithm.
LEMMA WordOfPlace ==
  ASSUME args \in ArgumentLists, NEW n \in Nat
  PROVE  /\ CommandPlace(n) # {} => WordAt(CommandPlace(n)) # ""
         /\ CommandPlace(n) = {} => WordAt(CommandPlace(n)) = ""
         /\ TargetPlace(n) # {} => WordAt(TargetPlace(n)) # ""
         /\ TargetPlace(n) = {} => WordAt(TargetPlace(n)) = ""
         /\ WordAt({n}) = args[n]
<1>1. /\ CommandPlace(n) \in SUBSET Nat /\ TargetPlace(n) \in SUBSET Nat
      /\ CommandPlace(n) \subseteq Named(n) /\ TargetPlace(n) \subseteq Named(n)
  BY PlacesInFront
<1>2. \A p \in Named(n) : args[p] # ""
  BY DEF Named
<1>3. \A S \in SUBSET Nat : S # {} => Min(S) \in S
  BY MinIsLeast
<1>4. Min({n}) = n
  BY <1>3
<1>5. WordAt({n}) = args[n]
  BY <1>4 DEF WordAt
<1>. QED
  BY <1>1, <1>2, <1>3, <1>5 DEF WordAt

\* Max of some places in front of n is the last of them.
LEMMA MaxIsLast ==
  ASSUME NEW n \in Nat, NEW S \in SUBSET Nat, S # {}, \A p \in S : p < n
  PROVE  Max(S) \in S /\ \A p \in S : p <= Max(S)
<1>. DEFINE T == {n - p : p \in S}
<1>1. T \subseteq Nat /\ T # {}
  <2>1. \A p \in S : n - p \in Nat
    OBVIOUS
  <2>. QED
    BY <2>1, Zenon
<1>2. PICK x \in S : \A p \in S : n - x <= n - p
  <2>. HIDE DEF T
  <2>1. Min(T) \in T /\ \A y \in T : Min(T) <= y
    BY <1>1, MinIsLeast
  <2>. QED
    BY <2>1 DEF T
<1>. HIDE DEF T
<1>3. \A p \in S : p <= x /\ x >= p
  BY <1>2
<1>. QED
  BY <1>3 DEF Max

\* No algorithm is known exactly if none was given.
LEMMA AlgorithmIsGiven ==
  ASSUME args \in ArgumentLists, NEW n \in 1 .. End
  PROVE  LastOf(AlgorithmsGiven(n)) = NoValue <=> AlgorithmsGiven(n) = {}
<1>1. n \in Nat /\ \A p \in Nat : p < n /\ p # 0 => p \in 1 .. Len(args)
  BY LineIsWords DEF End
<1>2. \A p \in AlgorithmsGiven(n) : p \in Nat /\ p < n /\ p # 0
  <2>1. \A p \in ValuesOf(AlgorithmOptions, n) : p # 0
    BY <1>1 DEF ValuesOf
  <2>2. \A p \in Extras(n) : p # 0
    BY <1>1 DEF Extras, Positionals
  <2>. QED
    BY <1>1, <2>1, <2>2, PlacesInFront DEF AlgorithmsGiven
<1>3. ASSUME AlgorithmsGiven(n) # {}
      PROVE  args[Max(AlgorithmsGiven(n))] # NoValue
  <2>1. AlgorithmsGiven(n) \in SUBSET Nat
    BY <1>2
  <2>2. Max(AlgorithmsGiven(n)) \in AlgorithmsGiven(n)
    BY <1>1, <1>2, <1>3, <2>1, MaxIsLast
  <2>. QED
    BY <1>1, <1>2, <2>2, LineIsWords
<1>. QED
  BY <1>3 DEF LastOf

\* The first argument that is not empty is the command; empty ones before it
\* leave the command empty.
LEMMA CommandRead ==
  ASSUME args \in ArgumentLists, NEW n \in 1 .. Len(args), Readable(n), args[n] \notin Options,
         NEW o \in CliOptions, Understood(o, n), o.command = ""
  PROVE  Readable(n + 1) /\ Understood([o EXCEPT !.command = args[n]], n + 1)
<1>. DEFINE o2 == [o EXCEPT !.command = args[n]]
<1>. n \in Nat /\ n + 1 \in Nat
  BY PlaceIsNat
<1>1. /\ args[n] \notin HelpOrVersion /\ args[n] \notin ValueOptions
      /\ \A options : ValuesOf(options, n + 1) = ValuesOf(options, n)
      /\ Positionals(n + 1) = Positionals(n) \cup {n}
      /\ FlagsUnderstood(o, n + 1)
  BY PositionalRead DEF Understood
<1>2. /\ o2.quiet = o.quiet /\ o2.verbose = o.verbose /\ o2.json = o.json
      /\ o2.command = args[n] /\ o2.target = o.target
      /\ o2.output = o.output /\ o2.algorithm = o.algorithm
  BY DEF CliOptions
<1>. HIDE DEF o2
<1>3. CommandPlace(n) = {}
  BY WordOfPlace DEF Understood, NamesUnderstood
<1>4. /\ TargetPlace(n) = {} /\ TargetPlace(n + 1) = {}
      /\ Extras(n) = {} /\ Extras(n + 1) = {}
      /\ WordAt(CommandPlace(n + 1)) = args[n]
  <2>1. CASE args[n] = ""
    <3>1. CommandPlace(n + 1) = CommandPlace(n) /\ TargetPlace(n + 1) = TargetPlace(n)
      BY <1>1, <2>1, EmptyArgument
    <3>2. Named(n) = {}
      <4>1. First(Named(n)) = {} /\ Named(n) \in SUBSET Nat
        BY <1>3, PlacesInFront DEF CommandPlace
      <4>. QED
        BY <4>1, FirstNone, Zenon
    <3>3. TargetPlace(n) = {}
      <4>1. Named(n) \ CommandPlace(n) = {}
        BY <3>2
      <4>. QED
        BY <4>1, NoFirst DEF TargetPlace
    <3>. QED
      BY <1>1, <1>3, <2>1, <3>1, <3>3, EmptyArgument DEF WordAt
  <2>2. CASE args[n] # ""
    BY <1>1, <1>3, <2>2, CommandArgument, WordOfPlace
  <2>. QED
    BY <2>1, <2>2
<1>5. AlgorithmsGiven(n + 1) = AlgorithmsGiven(n)
  BY <1>1, <1>4 DEF AlgorithmsGiven
<1>6. Readable(n + 1)
  BY <1>1, <1>4, ReadableFurther DEF Orderly
<1>7. NamesUnderstood(o2, n + 1)
  BY <1>2, <1>4 DEF Understood, NamesUnderstood
<1>8. ValuesUnderstood(o2, n + 1)
  BY <1>1, <1>2, <1>5 DEF Understood, ValuesUnderstood
<1>9. FlagsUnderstood(o2, n + 1)
  BY <1>1, <1>2 DEF FlagsUnderstood
<1>. QED
  BY <1>6, <1>7, <1>8, <1>9 DEF Understood, o2

\* The second one is the target.
LEMMA TargetRead ==
  ASSUME args \in ArgumentLists, NEW n \in 1 .. Len(args), Readable(n), args[n] \notin Options,
         NEW o \in CliOptions, Understood(o, n), o.command # "", o.target = ""
  PROVE  Readable(n + 1) /\ Understood([o EXCEPT !.target = args[n]], n + 1)
<1>. DEFINE o2 == [o EXCEPT !.target = args[n]]
<1>. n \in Nat /\ n + 1 \in Nat
  BY PlaceIsNat
<1>1. /\ args[n] \notin HelpOrVersion /\ args[n] \notin ValueOptions
      /\ \A options : ValuesOf(options, n + 1) = ValuesOf(options, n)
      /\ Positionals(n + 1) = Positionals(n) \cup {n}
      /\ FlagsUnderstood(o, n + 1)
  BY PositionalRead DEF Understood
<1>2. /\ o2.quiet = o.quiet /\ o2.verbose = o.verbose /\ o2.json = o.json
      /\ o2.command = o.command /\ o2.target = args[n]
      /\ o2.output = o.output /\ o2.algorithm = o.algorithm
  BY DEF CliOptions
<1>. HIDE DEF o2
<1>3. CommandPlace(n) # {} /\ TargetPlace(n) = {}
  BY WordOfPlace DEF Understood, NamesUnderstood
<1>4. /\ CommandPlace(n + 1) = CommandPlace(n)
      /\ Extras(n) = {} /\ Extras(n + 1) = {}
      /\ WordAt(TargetPlace(n + 1)) = args[n]
  <2>1. CASE args[n] = ""
    BY <1>1, <1>3, <2>1, EmptyArgument DEF WordAt
  <2>2. CASE args[n] # ""
    BY <1>1, <1>3, <2>2, TargetArgument, WordOfPlace
  <2>. QED
    BY <2>1, <2>2
<1>5. AlgorithmsGiven(n + 1) = AlgorithmsGiven(n)
  BY <1>1, <1>4 DEF AlgorithmsGiven
<1>6. Readable(n + 1)
  BY <1>1, <1>4, ReadableFurther DEF Orderly
<1>7. NamesUnderstood(o2, n + 1)
  BY <1>2, <1>4 DEF Understood, NamesUnderstood
<1>8. ValuesUnderstood(o2, n + 1)
  BY <1>1, <1>2, <1>5 DEF Understood, ValuesUnderstood
<1>9. FlagsUnderstood(o2, n + 1)
  BY <1>1, <1>2 DEF FlagsUnderstood
<1>. QED
  BY <1>6, <1>7, <1>8, <1>9 DEF Understood, o2

\* An algorithm's name behind the target, where none was given yet.
LEMMA LegacyRead ==
  ASSUME args \in ArgumentLists, NEW n \in 1 .. Len(args), Readable(n), args[n] \notin Options,
         NEW o \in CliOptions, Understood(o, n), o.command # "", o.target # "",
         o.algorithm = NoValue, args[n] \in AlgorithmNames
  PROVE  Readable(n + 1) /\ Understood([o EXCEPT !.algorithm = args[n]], n + 1)
<1>. DEFINE o2 == [o EXCEPT !.algorithm = args[n]]
<1>. n \in Nat /\ n + 1 \in Nat
  BY PlaceIsNat
<1>1. /\ args[n] \notin HelpOrVersion /\ args[n] \notin ValueOptions
      /\ \A options : ValuesOf(options, n + 1) = ValuesOf(options, n)
      /\ Positionals(n + 1) = Positionals(n) \cup {n}
      /\ FlagsUnderstood(o, n + 1)
  BY PositionalRead DEF Understood
<1>2. /\ o2.quiet = o.quiet /\ o2.verbose = o.verbose /\ o2.json = o.json
      /\ o2.command = o.command /\ o2.target = o.target
      /\ o2.output = o.output /\ o2.algorithm = args[n]
  BY DEF CliOptions
<1>. HIDE DEF o2
<1>3. TargetPlace(n) # {}
  BY WordOfPlace DEF Understood, NamesUnderstood
<1>4. /\ CommandPlace(n + 1) = CommandPlace(n) /\ TargetPlace(n + 1) = TargetPlace(n)
      /\ Extras(n + 1) = Extras(n) \cup {n}
  BY <1>1, <1>3, ExtraArgument
<1>5. AlgorithmsGiven(n) = {} /\ Extras(n) = {} /\ AlgorithmsGiven(n + 1) = {n}
  <2>1. AlgorithmsGiven(n) = {}
    BY AlgorithmIsGiven DEF Understood, ValuesUnderstood, Readable
  <2>. QED
    BY <1>1, <1>4, <2>1 DEF AlgorithmsGiven
<1>6. Orderly(n + 1)
  BY <1>4, <1>5, NotBelowItself DEF Orderly
<1>7. Readable(n + 1)
  BY <1>1, <1>6, ReadableFurther
<1>8. NamesUnderstood(o2, n + 1)
  BY <1>2, <1>4 DEF Understood, NamesUnderstood
<1>9. LastOf(AlgorithmsGiven(n + 1)) = args[n]
  <2>1. LastOf({} \cup {n}) = args[n]
    BY LastIsNew
  <2>. QED
    BY <1>5, <2>1
<1>10. ValuesUnderstood(o2, n + 1)
  BY <1>1, <1>2, <1>9 DEF Understood, ValuesUnderstood
<1>11. FlagsUnderstood(o2, n + 1)
  BY <1>1, <1>2 DEF FlagsUnderstood
<1>. QED
  BY <1>7, <1>8, <1>10, <1>11 DEF Understood, o2

-----------------------------------------------------------------------------
(***************************************************************************)
(* Where reading stops, and what is refused.                               *)
(***************************************************************************)
\* Up to n no help word was met: reading stops there or further on.
LEMMA StopBehind ==
  ASSUME args \in ArgumentLists, NEW n \in 1 .. End, Bare(HelpOrVersion, n) = {}
  PROVE  /\ Stop \in Nat /\ n <= Stop /\ Stop <= End
         /\ n \in Bare(HelpOrVersion, End) => Stop = n
         /\ n = End => Stop = n
<1>. DEFINE S == Bare(HelpOrVersion, End) \cup {End}
<1>1. End \in Nat /\ n \in Nat /\ n <= End
  BY LineIsWords
<1>2. \A p \in Bare(HelpOrVersion, End) : p \in Nat /\ (p < n => p \in Bare(HelpOrVersion, n))
  BY <1>1 DEF Bare
<1>3. \A p \in S : p \in Nat /\ n <= p
  <2>1. \A p \in Bare(HelpOrVersion, End) : p \in Nat /\ ~(p < n)
    BY <1>2
  <2>2. \A p \in Nat : ~(p < n) => n <= p
    BY <1>1
  <2>. QED
    BY <1>1, <2>1, <2>2
<1>4. End \in S /\ (n \in Bare(HelpOrVersion, End) => n \in S)
  OBVIOUS
<1>5. Stop = Min(S)
  BY DEF Stop, HelpOrVersion
<1>. HIDE DEF S
<1>6. Min(S) \in S /\ \A p \in S : Min(S) <= p
  BY <1>3, <1>4, MinIsLeast
<1>7. Stop \in Nat /\ n <= Stop /\ Stop <= End
  BY <1>3, <1>4, <1>5, <1>6
<1>8. \A p \in Nat : p <= n /\ n <= p => p = n
  BY <1>1
<1>. QED
  BY <1>4, <1>5, <1>6, <1>7, <1>8

\* What was found up to n is found up to any later place.
LEMMA PlacesStay ==
  ASSUME NEW m \in Nat, NEW n \in Nat, n <= m, TargetPlace(n) # {}
  PROVE  Extras(n) \subseteq Extras(m) /\ AlgorithmsGiven(n) \subseteq AlgorithmsGiven(m)
<1>1. Extras(n) \subseteq Extras(m)
  BY TargetStays
<1>2. \A p : p \in 2 .. n - 1 => p \in 2 .. m - 1
  OBVIOUS
<1>3. ValuesOf(AlgorithmOptions, n) \subseteq ValuesOf(AlgorithmOptions, m)
  BY <1>2, Zenon DEF ValuesOf
<1>. QED
  BY <1>1, <1>3 DEF AlgorithmsGiven

\* An argument behind the target that is not taken as the algorithm is too much.
LEMMA TooMuch ==
  ASSUME args \in ArgumentLists, NEW n \in 1 .. Len(args), Readable(n), args[n] \notin Options,
         NEW o \in CliOptions, Understood(o, n), o.target # "",
         o.algorithm # NoValue \/ args[n] \notin AlgorithmNames
  PROVE  IsRefused
<1>. n \in Nat /\ n + 1 \in Nat
  BY PlaceIsNat
<1>1. /\ args[n] \notin HelpOrVersion
      /\ \A words : args[n] \notin words => Bare(words, n + 1) = Bare(words, n)
      /\ Positionals(n + 1) = Positionals(n) \cup {n}
  BY PositionalRead
<1>2. TargetPlace(n) # {}
  BY WordOfPlace DEF Understood, NamesUnderstood
<1>3. /\ TargetPlace(n + 1) = TargetPlace(n)
      /\ Extras(n + 1) = Extras(n) \cup {n}
  BY <1>1, <1>2, ExtraArgument
<1>4. Stop \in Nat /\ n + 1 <= Stop /\ n <= Stop
  <2>1. Bare(HelpOrVersion, n + 1) = {} /\ n + 1 \in 1 .. End
    <3>1. n + 1 \in 1 .. End
      BY LineIsWords, PlaceArithmetic DEF End
    <3>. QED
      BY <1>1, <3>1 DEF Readable
  <2>. DEFINE m == n + 1
  <2>2. Stop \in Nat /\ m <= Stop
    <3>1. m \in 1 .. End /\ Bare(HelpOrVersion, m) = {}
      BY <2>1
    <3>. HIDE DEF m
    <3>. QED
      BY <3>1, StopBehind
  <2>. QED
    BY <2>2, FurtherIsBehind
<1>5. n \in Extras(Stop)
  <2>1. Extras(n + 1) \subseteq Extras(Stop)
    BY <1>2, <1>3, <1>4, PlacesStay
  <2>. QED
    BY <1>3, <2>1
<1>6. ASSUME o.algorithm # NoValue PROVE \E q \in AlgorithmsGiven(Stop) : q < n
  <2>1. AlgorithmsGiven(n) # {}
    BY <1>6, AlgorithmIsGiven DEF Understood, ValuesUnderstood, Readable
  <2>2. AlgorithmsGiven(n) \subseteq AlgorithmsGiven(Stop)
    BY <1>2, <1>4, PlacesStay
  <2>. QED
    BY <2>1, <2>2, PlacesInFront
<1>. QED
  BY <1>5, <1>6 DEF IsRefused

\* An option at the end, where its value should stand.
LEMMA NoValueLeft ==
  ASSUME args \in ArgumentLists, NEW n \in 1 .. Len(args), Readable(n), n = Len(args),
         args[n] \in ValueOptions
  PROVE  IsRefused
<1>1. args[n] \notin HelpOrVersion
  BY DEF HelpOrVersion, HelpWords, VersionWords, ValueOptions, OutputOptions, AlgorithmOptions
<1>2. ~IsValue[n] /\ args[n] \in Options
  BY ReadableIsBare DEF ValueOptions, Options
<1>3. n + 1 = End /\ End \in 1 .. End
  BY LineIsWords DEF End
<1>4. n \in Bare(ValueOptions, End) /\ Bare(HelpOrVersion, End) = {}
  BY <1>1, <1>2, <1>3, NextPlace DEF Readable
<1>5. Stop = End
  BY <1>3, <1>4, StopBehind
<1>. QED
  BY <1>4, <1>5 DEF IsRefused, ValueOptions

\* Everything else is not refused.
LEMMA NotRefused ==
  ASSUME args \in ArgumentLists, NEW n \in 1 .. End, Readable(n),
         n = End \/ (args[n] \in HelpOrVersion /\ n # End)
  PROVE  ~IsRefused /\ Stop = n
<1>. n \in Nat /\ Len(args) \in Nat /\ End = Len(args) + 1
  BY LineIsWords DEF End
<1>1. Stop = n
  <2>1. CASE n = End
    BY <2>1, StopBehind DEF Readable
  <2>2. CASE args[n] \in HelpOrVersion /\ n # End
    <3>1. n \in 1 .. Len(args) /\ n \in 1 .. End - 1
      BY <2>2
    <3>2. n \in Bare(HelpOrVersion, End)
      BY <2>2, <3>1, ReadableIsBare DEF Bare
    <3>. QED
      BY <3>2, StopBehind DEF Readable
  <2>. QED
    BY <2>1, <2>2
<1>2. ~(Stop = End /\ Len(args) \in Bare(OutputOptions \cup AlgorithmOptions, End))
  <2>. SUFFICES ASSUME n = End, Len(args) \in Bare(ValueOptions, End) PROVE FALSE
    BY <1>1 DEF ValueOptions
  <2>1. Len(args) \in 1 .. End - 1 /\ args[Len(args)] \in ValueOptions /\ ~IsValue[Len(args)]
    BY DEF Bare
  <2>2. End > 1 /\ End - 1 = Len(args)
    BY <2>1
  <2>. QED
    BY <2>1, <2>2 DEF Readable, Fresh
<1>3. ~ \E p \in Extras(Stop) :
          args[p] \notin AlgorithmNames \/ \E q \in AlgorithmsGiven(Stop) : q < p
  BY <1>1 DEF Readable, Orderly
<1>. QED
  BY <1>1, <1>2, <1>3 DEF IsRefused

-----------------------------------------------------------------------------
(***************************************************************************)
(* The inductive invariant.                                                *)
(***************************************************************************)
\* Nothing is asked for until a help or version word is met, and reading ends
\* there or at the end.
Answered ==
  \/ idx = End /\ ~opt.help /\ ~opt.version
  \/ idx # End /\ args[idx] \in HelpWords /\ opt.help /\ ~opt.version
  \/ idx # End /\ args[idx] \in VersionWords /\ ~opt.help /\ opt.version

ParseInv ==
  /\ ParseTypeOK
  /\ stage # "refused" => Readable(idx)
  /\ stage \in {"parsing", "parsed"} => Understood(opt, idx)
  /\ stage = "parsing" => ~opt.help /\ ~opt.version
  /\ stage = "parsed" => Answered
  /\ stage \in {"parsed", "dispatched"} => ~IsRefused
  /\ stage = "refused" => IsRefused
  /\ stage # "dispatched" => outcome = "none"
  /\ ReadAsWritten

LEMMA ParseInitInv == ParseInit => ParseInv
<1>. SUFFICES ASSUME ParseInit PROVE ParseInv
  OBVIOUS
<1>. USE DEF ParseInit
<1>1. /\ args \in ArgumentLists /\ Len(args) \in Nat /\ End = Len(args) + 1 /\ 1 \in 1 .. End
      /\ 1 \in 1 .. Len(args) + 1
  BY LineIsWords DEF End
<1>2. ParseTypeOK
  <2>1. NoOptions \in CliOptions
    <3>1. "" \in STRING /\ NoValue \in STRING \cup {NoValue} /\ FALSE \in BOOLEAN
      BY LiteralsAreStrings
    <3>. QED
      BY <3>1, Zenon DEF CliOptions, NoOptions
  <2>. QED
    BY <1>1, <2>1 DEF ParseTypeOK
<1>3. /\ \A words : Bare(words, 1) = {} /\ ValuesOf(words, 1) = {}
      /\ Positionals(1) = {}
  BY DEF Bare, ValuesOf, Positionals
<1>4. Named(1) = {} /\ CommandPlace(1) = {} /\ TargetPlace(1) = {} /\ Extras(1) = {}
  <2>1. Named(1) = {}
    BY <1>3 DEF Named
  <2>2. CommandPlace(1) = {}
    BY <2>1, NoFirst DEF CommandPlace
  <2>3. TargetPlace(1) = {}
    BY <2>1, <2>2, NoFirst DEF TargetPlace
  <2>. QED
    BY <2>1, <2>2, <2>3, <1>3 DEF Extras
<1>5. AlgorithmsGiven(1) = {}
  BY <1>3, <1>4 DEF AlgorithmsGiven
<1>6. Readable(1)
  BY <1>1, <1>3, <1>4 DEF Readable, Fresh, Orderly
<1>7. Understood(opt, 1)
  BY <1>3, <1>4, <1>5
  DEF Understood, NamesUnderstood, ValuesUnderstood, FlagsUnderstood, WordAt, LastOf, NoOptions
<1>8. ReadAsWritten
  BY DEF ReadAsWritten, Handlers
<1>. QED
  BY <1>2, <1>6, <1>7, <1>8 DEF ParseInv, NoOptions

\* What the invariant says of one step that reads an argument.
LEMMA ReadsOn ==
  ASSUME ParseInv, stage = "parsing", args' = args, stage' = stage, outcome' = outcome,
         opt' \in CliOptions, opt'.help = opt.help, opt'.version = opt.version,
         Readable(idx'), Understood(opt', idx')
  PROVE  ParseInv'
<1>. PICK n, o : n = idx' /\ o = opt'
  OBVIOUS
<1>1. Readable(idx)' /\ Understood(opt, idx)'
  <2>1. Readable(n) /\ Understood(o, n)
    OBVIOUS
  <2>2. Readable(n)' /\ Understood(o, n)'
    BY <2>1, LineStays
  <2>. QED
    BY <2>2
<1>2. ParseTypeOK'
  <2>1. idx' \in 1 .. Len(args) + 1
    BY DEF Readable, End
  <2>. QED
    BY <2>1 DEF ParseInv, ParseTypeOK
<1>3. ReadAsWritten'
  BY DEF ReadAsWritten, Handlers, ParseInv
<1>. QED
  BY <1>1, <1>2, <1>3 DEF ParseInv

\* There is an argument to read.
LEMMA ReadingPlace ==
  ASSUME ParseInv, stage = "parsing", idx <= Len(args)
  PROVE  /\ idx \in 1 .. Len(args) /\ args \in ArgumentLists /\ opt \in CliOptions
         /\ Readable(idx) /\ Understood(opt, idx)
<1>1. /\ args \in ArgumentLists /\ opt \in CliOptions /\ idx \in 1 .. Len(args) + 1
      /\ Readable(idx) /\ Understood(opt, idx)
  BY DEF ParseInv, ParseTypeOK
<1>2. idx \in 1 .. Len(args)
  BY <1>1, LineIsWords, PlaceArithmetic
<1>. QED
  BY <1>1, <1>2

LEMMA AskHelpInv == ASSUME ParseInv, AskHelp PROVE ParseInv'
<1>. PICK n, o : n = idx /\ o = opt'
  OBVIOUS
<1>1. /\ n \in 1 .. Len(args) /\ args \in ArgumentLists /\ opt \in CliOptions /\ Readable(n)
      /\ Understood(opt, n) /\ ~opt.version /\ args[n] \in HelpWords /\ n # End /\ n \in 1 .. End
  BY LineIsWords DEF AskHelp, Reading, ParseInv, ParseTypeOK, End
<1>2. /\ o \in CliOptions /\ o.help /\ ~o.version
      /\ o.command = opt.command /\ o.target = opt.target /\ o.output = opt.output
      /\ o.algorithm = opt.algorithm /\ o.quiet = opt.quiet /\ o.verbose = opt.verbose
      /\ o.json = opt.json
  BY <1>1 DEF AskHelp, CliOptions
<1>3. Understood(o, n)
  BY <1>1, <1>2 DEF Understood, NamesUnderstood, ValuesUnderstood, FlagsUnderstood
<1>4. ~IsRefused
  BY <1>1, NotRefused DEF HelpOrVersion
<1>5. args' = args /\ idx' = n /\ stage' = "parsed" /\ outcome' = "none"
  BY DEF AskHelp, Finish, ParseInv, Reading
<1>6. Readable(n)' /\ Understood(o, n)' /\ ~IsRefused' /\ End' = End
  BY <1>1, <1>3, <1>4, <1>5, LineStays
<1>7. ReadAsWritten'
  BY <1>5 DEF ReadAsWritten, Handlers
<1>8. ParseTypeOK'
  BY <1>1, <1>2, <1>5 DEF ParseTypeOK, ParseInv
<1>9. Answered'
  BY <1>1, <1>2, <1>5, <1>6 DEF Answered
<1>. QED
  BY <1>5, <1>6, <1>7, <1>8, <1>9 DEF ParseInv

LEMMA AskVersionInv == ASSUME ParseInv, AskVersion PROVE ParseInv'
<1>. PICK n, o : n = idx /\ o = opt'
  OBVIOUS
<1>1. /\ n \in 1 .. Len(args) /\ args \in ArgumentLists /\ opt \in CliOptions /\ Readable(n)
      /\ Understood(opt, n) /\ ~opt.help /\ args[n] \in VersionWords /\ n # End /\ n \in 1 .. End
  BY LineIsWords DEF AskVersion, Reading, ParseInv, ParseTypeOK, End
<1>2. /\ o \in CliOptions /\ ~o.help /\ o.version
      /\ o.command = opt.command /\ o.target = opt.target /\ o.output = opt.output
      /\ o.algorithm = opt.algorithm /\ o.quiet = opt.quiet /\ o.verbose = opt.verbose
      /\ o.json = opt.json
  BY <1>1 DEF AskVersion, CliOptions
<1>3. Understood(o, n)
  BY <1>1, <1>2 DEF Understood, NamesUnderstood, ValuesUnderstood, FlagsUnderstood
<1>4. ~IsRefused
  BY <1>1, NotRefused DEF HelpOrVersion
<1>5. args' = args /\ idx' = n /\ stage' = "parsed" /\ outcome' = "none"
  BY DEF AskVersion, Finish, ParseInv, Reading
<1>6. Readable(n)' /\ Understood(o, n)' /\ ~IsRefused' /\ End' = End
  BY <1>1, <1>3, <1>4, <1>5, LineStays
<1>7. ReadAsWritten'
  BY <1>5 DEF ReadAsWritten, Handlers
<1>8. ParseTypeOK'
  BY <1>1, <1>2, <1>5 DEF ParseTypeOK, ParseInv
<1>9. Answered'
  BY <1>1, <1>2, <1>5, <1>6 DEF Answered
<1>. QED
  BY <1>5, <1>6, <1>7, <1>8, <1>9 DEF ParseInv

LEMMA SetFlagInv == ASSUME ParseInv, SetFlag PROVE ParseInv'
<1>1. /\ idx \in 1 .. Len(args) /\ args \in ArgumentLists /\ opt \in CliOptions /\ Readable(idx)
      /\ Understood(opt, idx) /\ stage = "parsing"
      /\ args' = args /\ idx' = idx + 1 /\ stage' = stage /\ outcome' = outcome
      /\ args[idx] \in QuietFlags \cup VerboseFlags \cup JsonFlags
  BY ReadingPlace DEF SetFlag, Reading, Advance
<1>2. opt' \in CliOptions /\ opt'.help = opt.help /\ opt'.version = opt.version
  BY <1>1 DEF SetFlag, CliOptions
<1>3. Readable(idx')
  BY <1>1, FlagRead
<1>4. Understood(opt', idx')
  <2>1. CASE args[idx] \in QuietFlags /\ opt' = [opt EXCEPT !.quiet = TRUE]
    BY <1>1, <2>1, FlagRead
  <2>2. CASE args[idx] \in VerboseFlags /\ opt' = [opt EXCEPT !.verbose = TRUE]
    BY <1>1, <2>2, FlagRead
  <2>3. CASE args[idx] \in JsonFlags /\ opt' = [opt EXCEPT !.json = TRUE]
    BY <1>1, <2>3, FlagRead
  <2>. QED
    BY <2>1, <2>2, <2>3 DEF SetFlag, Reading
<1>. QED
  BY <1>1, <1>2, <1>3, <1>4, ReadsOn

LEMMA TakeOutputInv == ASSUME ParseInv, TakeOutput PROVE ParseInv'
<1>1. /\ idx \in 1 .. Len(args) /\ args \in ArgumentLists /\ opt \in CliOptions /\ Readable(idx)
      /\ Understood(opt, idx) /\ stage = "parsing" /\ idx < Len(args)
      /\ args' = args /\ idx' = idx + 2 /\ stage' = stage /\ outcome' = outcome
      /\ args[idx] \in OutputOptions /\ opt' = [opt EXCEPT !.output = args[idx + 1]]
  BY ReadingPlace DEF TakeOutput, Reading, Advance
<1>2. args[idx + 1] \in STRING
  BY <1>1, LineIsWords
<1>3. opt' \in CliOptions /\ opt'.help = opt.help /\ opt'.version = opt.version
  BY <1>1, <1>2 DEF CliOptions
<1>4. Readable(idx') /\ Understood(opt', idx')
  BY <1>1, ValueRead DEF ValueOptions
<1>. QED
  BY <1>1, <1>3, <1>4, ReadsOn

LEMMA TakeAlgorithmInv == ASSUME ParseInv, TakeAlgorithm PROVE ParseInv'
<1>1. /\ idx \in 1 .. Len(args) /\ args \in ArgumentLists /\ opt \in CliOptions /\ Readable(idx)
      /\ Understood(opt, idx) /\ stage = "parsing" /\ idx < Len(args)
      /\ args' = args /\ idx' = idx + 2 /\ stage' = stage /\ outcome' = outcome
      /\ args[idx] \in AlgorithmOptions /\ opt' = [opt EXCEPT !.algorithm = args[idx + 1]]
  BY ReadingPlace DEF TakeAlgorithm, Reading, Advance
<1>2. args[idx + 1] \in STRING
  BY <1>1, LineIsWords
<1>3. opt' \in CliOptions /\ opt'.help = opt.help /\ opt'.version = opt.version
  BY <1>1, <1>2 DEF CliOptions
<1>4. Readable(idx') /\ Understood(opt', idx')
  BY <1>1, ValueRead DEF ValueOptions
<1>. QED
  BY <1>1, <1>3, <1>4, ReadsOn

LEMMA TakeCommandInv == ASSUME ParseInv, TakeCommand PROVE ParseInv'
<1>1. /\ idx \in 1 .. Len(args) /\ args \in ArgumentLists /\ opt \in CliOptions /\ Readable(idx)
      /\ Understood(opt, idx) /\ stage = "parsing" /\ args[idx] \notin Options
      /\ args' = args /\ idx' = idx + 1 /\ stage' = stage /\ outcome' = outcome
      /\ opt.command = "" /\ opt' = [opt EXCEPT !.command = args[idx]]
  BY ReadingPlace DEF TakeCommand, ReadingPositional, Advance
<1>2. args[idx] \in STRING
  BY <1>1, LineIsWords
<1>3. opt' \in CliOptions /\ opt'.help = opt.help /\ opt'.version = opt.version
  BY <1>1, <1>2 DEF CliOptions
<1>4. Readable(idx') /\ Understood(opt', idx')
  BY <1>1, CommandRead
<1>. QED
  BY <1>1, <1>3, <1>4, ReadsOn

LEMMA TakeTargetInv == ASSUME ParseInv, TakeTarget PROVE ParseInv'
<1>1. /\ idx \in 1 .. Len(args) /\ args \in ArgumentLists /\ opt \in CliOptions /\ Readable(idx)
      /\ Understood(opt, idx) /\ stage = "parsing" /\ args[idx] \notin Options
      /\ args' = args /\ idx' = idx + 1 /\ stage' = stage /\ outcome' = outcome
      /\ opt.command # "" /\ opt.target = "" /\ opt' = [opt EXCEPT !.target = args[idx]]
  BY ReadingPlace DEF TakeTarget, ReadingPositional, Advance
<1>2. args[idx] \in STRING
  BY <1>1, LineIsWords
<1>3. opt' \in CliOptions /\ opt'.help = opt.help /\ opt'.version = opt.version
  BY <1>1, <1>2 DEF CliOptions
<1>4. Readable(idx') /\ Understood(opt', idx')
  BY <1>1, TargetRead
<1>. QED
  BY <1>1, <1>3, <1>4, ReadsOn

LEMMA TakeLegacyAlgorithmInv == ASSUME ParseInv, TakeLegacyAlgorithm PROVE ParseInv'
<1>1. /\ idx \in 1 .. Len(args) /\ args \in ArgumentLists /\ opt \in CliOptions /\ Readable(idx)
      /\ Understood(opt, idx) /\ stage = "parsing" /\ args[idx] \notin Options
      /\ args' = args /\ idx' = idx + 1 /\ stage' = stage /\ outcome' = outcome
      /\ opt.command # "" /\ opt.target # ""
      /\ opt.algorithm = NoValue /\ args[idx] \in AlgorithmNames
      /\ opt' = [opt EXCEPT !.algorithm = args[idx]]
  BY ReadingPlace
  DEF TakeLegacyAlgorithm, IsLegacyAlgorithm, ReadingPositional, Advance
<1>2. args[idx] \in STRING
  BY <1>1, LineIsWords
<1>3. opt' \in CliOptions /\ opt'.help = opt.help /\ opt'.version = opt.version
  BY <1>1, <1>2 DEF CliOptions
<1>4. Readable(idx') /\ Understood(opt', idx')
  BY <1>1, LegacyRead
<1>. QED
  BY <1>1, <1>3, <1>4, ReadsOn

\* A command line that is refused stays one.
LEMMA Refuses ==
  ASSUME ParseInv, IsRefused, UNCHANGED <<args, idx, opt, outcome>>, stage = "parsing",
         stage' = "refused"
  PROVE  ParseInv'
<1>1. IsRefused'
  BY LineStays
<1>2. outcome' = "none" /\ ParseTypeOK'
  BY DEF ParseInv, ParseTypeOK
<1>3. ReadAsWritten'
  BY <1>2 DEF ReadAsWritten, Handlers
<1>. QED
  BY <1>1, <1>2, <1>3 DEF ParseInv

LEMMA MissingValueInv == ASSUME ParseInv, MissingValue PROVE ParseInv'
<1>1. /\ idx \in 1 .. Len(args) /\ args \in ArgumentLists /\ Readable(idx) /\ stage = "parsing"
      /\ idx = Len(args) /\ args[idx] \in ValueOptions
      /\ UNCHANGED <<args, idx, opt, outcome>> /\ stage' = "refused"
  BY ReadingPlace DEF MissingValue, Reading, Finish, ValueOptions
<1>2. IsRefused
  BY <1>1, NoValueLeft
<1>. QED
  BY <1>1, <1>2, Refuses

LEMMA UnexpectedInv == ASSUME ParseInv, Unexpected PROVE ParseInv'
<1>1. /\ idx \in 1 .. Len(args) /\ args \in ArgumentLists /\ opt \in CliOptions /\ Readable(idx)
      /\ Understood(opt, idx) /\ stage = "parsing" /\ args[idx] \notin Options
      /\ opt.target # "" /\ (opt.algorithm # NoValue \/ args[idx] \notin AlgorithmNames)
      /\ UNCHANGED <<args, idx, opt, outcome>> /\ stage' = "refused"
  BY ReadingPlace
  DEF Unexpected, IsLegacyAlgorithm, ReadingPositional, Finish
<1>2. IsRefused
  BY <1>1, TooMuch
<1>. QED
  BY <1>1, <1>2, Refuses

LEMMA EndOfArgumentsInv == ASSUME ParseInv, EndOfArguments PROVE ParseInv'
<1>1. /\ args \in ArgumentLists /\ opt \in CliOptions /\ Readable(idx)
      /\ Understood(opt, idx) /\ ~opt.help /\ ~opt.version
      /\ UNCHANGED <<args, idx, opt, outcome>> /\ stage' = "parsed" /\ outcome = "none"
      /\ idx > Len(args)
  BY DEF EndOfArguments, Finish, ParseInv, ParseTypeOK
<1>2. idx = End /\ idx \in 1 .. End
  BY <1>1, LineIsWords DEF Readable, End
<1>. PICK n, o : n = idx /\ o = opt
  OBVIOUS
<1>3. ~IsRefused
  BY <1>1, <1>2, NotRefused
<1>4. Readable(n)' /\ Understood(o, n)' /\ ~IsRefused' /\ End' = End
  BY <1>1, <1>3, LineStays
<1>5. ReadAsWritten'
  BY <1>1 DEF ReadAsWritten, Handlers
<1>6. ParseTypeOK'
  BY <1>1 DEF ParseTypeOK, ParseInv
<1>7. Answered'
  BY <1>1, <1>2, <1>4 DEF Answered
<1>. QED
  BY <1>1, <1>4, <1>5, <1>6, <1>7 DEF ParseInv

\* What main does is what was asked for.
LEMMA DispatchInv == ASSUME ParseInv, Dispatch PROVE ParseInv'
<1>. DEFINE target == opt.target
<1>1. /\ args \in ArgumentLists /\ opt \in CliOptions /\ Readable(idx) /\ idx \in 1 .. End
      /\ Understood(opt, idx) /\ Answered /\ ~IsRefused
      /\ UNCHANGED <<args, idx>> /\ stage' = "dispatched" /\ outcome' = Choice
      /\ opt' = IF Choice = "benchmark" /\ opt.target = ""
                  THEN [opt EXCEPT !.target = WorkingDirectory] ELSE opt
  BY DEF Dispatch, ParseInv, ParseTypeOK, Readable
<1>2. /\ opt' \in CliOptions
      /\ opt'.command = opt.command /\ opt'.output = opt.output
      /\ opt'.algorithm = opt.algorithm /\ opt'.quiet = opt.quiet /\ opt'.verbose = opt.verbose
      /\ opt'.json = opt.json
      /\ opt'.target = opt.target
           \/ (opt.target = "" /\ Choice = "benchmark" /\ opt'.target = ".")
  <2>1. CASE Choice = "benchmark" /\ opt.target = ""
    <3>1. opt' = [opt EXCEPT !.target = "."] /\ "." \in STRING
      BY <1>1, <2>1, LiteralsAreStrings DEF WorkingDirectory
    <3>2. opt \in CliOptions
      BY <1>1
    <3>3. opt' \in CliOptions
      BY <3>1, <3>2, Zenon DEF CliOptions
    <3>4. /\ opt'.target = "." /\ opt'.command = opt.command /\ opt'.output = opt.output
          /\ opt'.algorithm = opt.algorithm /\ opt'.quiet = opt.quiet
          /\ opt'.verbose = opt.verbose /\ opt'.json = opt.json
      BY <3>1, <3>2 DEF CliOptions
    <3>. QED
      BY <2>1, <3>3, <3>4
  <2>2. CASE ~(Choice = "benchmark" /\ opt.target = "")
    BY <1>1, <2>2
  <2>. QED
    BY <2>1, <2>2
<1>3. Stop = idx
  BY <1>1, NotRefused DEF Answered, HelpOrVersion
<1>4. Choice \in Handlers =>
        /\ ~opt.help /\ ~opt.version /\ opt.command # "" /\ opt.command \in Names(Choice)
  <2>. SUFFICES ASSUME Choice \in Handlers
                PROVE  /\ ~opt.help /\ ~opt.version /\ opt.command # ""
                       /\ opt.command \in Names(Choice)
    OBVIOUS
  <2>1. ~opt.help /\ ~opt.version /\ opt.command # ""
    BY DEF Choice, Handlers
  <2>2. \E handler \in Handlers : opt.command \in Names(handler)
    BY <2>1 DEF Choice, Handlers
  <2>3. Choice = CHOOSE handler \in Handlers : opt.command \in Names(handler)
    BY <2>1, <2>2 DEF Choice
  <2>. QED
    BY <2>1, <2>2, <2>3
<1>5. Choice \in Handlers \cup {"none", "version", "help", "onboarding", "unknown command"}
  <2>1. CASE \E handler \in Handlers : opt.command \in Names(handler)
    <3>1. (CHOOSE handler \in Handlers : opt.command \in Names(handler)) \in Handlers
      BY <2>1
    <3>. QED
      BY <3>1 DEF Choice
  <2>2. CASE ~ \E handler \in Handlers : opt.command \in Names(handler)
    BY <2>2 DEF Choice
  <2>. QED
    BY <2>1, <2>2
<1>6. Stop # End => Choice = IF args[Stop] \in HelpWords THEN "help" ELSE "version"
  <2>1. \A w \in VersionWords : w \notin HelpWords
    BY DEF VersionWords, HelpWords
  <2>. QED
    BY <1>1, <1>3, <2>1 DEF Answered, Choice
<1>7. Choice \in Handlers => Stop = End
  BY <1>4, <1>6, <1>1, <1>3 DEF Answered
<1>. PICK n, o, c : n = idx /\ o = opt /\ c = Choice
  OBVIOUS
<1>8. Readable(n)' /\ ~IsRefused' /\ End' = End /\ Stop' = Stop
  BY <1>1, LineStays
<1>9. ASSUME Choice \in Handlers
      PROVE  /\ o.quiet = (Bare(QuietFlags, n) # {})'
             /\ o.verbose = (Bare(VerboseFlags, n) # {})'
             /\ o.json = (Bare(JsonFlags, n) # {})'
             /\ o.output = LastOf(ValuesOf(OutputOptions, n))'
             /\ o.algorithm = LastOf(AlgorithmsGiven(n))'
             /\ o.command = WordAt(CommandPlace(n))' /\ o.target = WordAt(TargetPlace(n))'
             /\ n = End
  <2>1. Understood(o, n)'
    BY <1>1, LineStays
  <2>2. n = End
    BY <1>3, <1>7, <1>9
  <2>. QED
    BY <2>1, <2>2 DEF Understood, NamesUnderstood, ValuesUnderstood, FlagsUnderstood
<1>10. ReadAsWritten'
  <2>1. outcome' \in Handlers =>
          /\ opt'.quiet = (Bare(QuietFlags, End) # {})'
          /\ opt'.verbose = (Bare(VerboseFlags, End) # {})'
          /\ opt'.json = (Bare(JsonFlags, End) # {})'
          /\ opt'.output = LastOf(ValuesOf(OutputOptions, End))'
          /\ opt'.algorithm = LastOf(AlgorithmsGiven(End))'
          /\ opt'.command = WordAt(CommandPlace(End))' /\ opt.target = WordAt(TargetPlace(End))'
    BY <1>1, <1>2, <1>8, <1>9
  <2>. QED
    BY <1>1, <1>2, <1>4, <1>6, <1>8, <2>1 DEF ReadAsWritten
<1>11. ParseTypeOK'
  BY <1>1, <1>2, <1>5 DEF ParseTypeOK, ParseInv
<1>. QED
  BY <1>1, <1>8, <1>10, <1>11 DEF ParseInv

LEMMA StutterInv == ASSUME ParseInv, UNCHANGED vars PROVE ParseInv'
<1>. PICK n, o : n = idx /\ o = opt
  OBVIOUS
<1>1. UNCHANGED <<args, idx, opt, stage, outcome>> /\ End' = End
  BY LineStays DEF vars
<1>2. Readable(n)' <=> Readable(n)
  BY <1>1, LineStays
<1>3. Understood(o, n)' <=> Understood(o, n)
  BY <1>1, LineStays
<1>4. IsRefused' <=> IsRefused
  BY <1>1, LineStays
<1>5. ParseTypeOK'
  BY <1>1 DEF ParseInv, ParseTypeOK
<1>6. Answered' <=> Answered
  BY <1>1 DEF Answered
<1>7. ReadAsWritten'
  <2>. PICK e : e = End
    OBVIOUS
  <2>1. e' = e /\ Stop' = Stop /\ args' = args
    BY <1>1, LineStays
  <2>2. /\ Bare(QuietFlags, e)' = Bare(QuietFlags, e)
        /\ Bare(VerboseFlags, e)' = Bare(VerboseFlags, e)
        /\ Bare(JsonFlags, e)' = Bare(JsonFlags, e)
        /\ LastOf(ValuesOf(OutputOptions, e))' = LastOf(ValuesOf(OutputOptions, e))
        /\ LastOf(AlgorithmsGiven(e))' = LastOf(AlgorithmsGiven(e))
        /\ WordAt(CommandPlace(e))' = WordAt(CommandPlace(e))
        /\ WordAt(TargetPlace(e))' = WordAt(TargetPlace(e))
    BY <1>1, LineStays
  <2>. QED
    BY <1>1, <2>1, <2>2 DEF ParseInv, ReadAsWritten
<1>. QED
  BY <1>1, <1>2, <1>3, <1>4, <1>5, <1>6, <1>7 DEF ParseInv

\* Of every state of parse_cli_args and main: what was read is understood as the
\* places of the arguments say, and a refusal has a cause (main.cpp:100-176).
THEOREM ParseInductive == ParseSpec => []ParseInv
<1>1. ASSUME ParseInv, [ParseNext]_vars PROVE ParseInv'
  <2>1. CASE ParseNext
    BY <1>1, <2>1, AskHelpInv, AskVersionInv, SetFlagInv, TakeOutputInv, TakeAlgorithmInv,
       MissingValueInv, TakeCommandInv, TakeTargetInv, TakeLegacyAlgorithmInv, UnexpectedInv,
       EndOfArgumentsInv, DispatchInv DEF ParseNext
  <2>2. CASE UNCHANGED vars
    BY <1>1, <2>2, StutterInv
  <2>. QED
    BY <1>1, <2>1, <2>2
<1>. QED
  BY <1>1, ParseInitInv, PTL DEF ParseSpec

\* What parse_cli_args stores are options, and it reads no argument that is not
\* there (main.cpp:100-176).
THEOREM ParseTypeOKHolds == ParseSpec => []ParseTypeOK
<1>1. ParseInv => ParseTypeOK
  BY DEF ParseInv
<1>. QED
  BY <1>1, ParseInductive, PTL

\* parse_cli_args refuses the command lines it should and no others: an option
\* whose value is missing, or an argument too many, in front of the first help
\* or version word (main.cpp:138-151, 165-171).
THEOREM RefusedForCauseHolds == ParseSpec => []RefusedForCause
<1>1. ParseInv => RefusedForCause
  BY DEF ParseInv, ParseTypeOK, RefusedForCause
<1>. QED
  BY <1>1, ParseInductive, PTL

\* What the handler gets from parse_cli_args and main is what was written, for
\* any number of arguments in any order (main.cpp:100-176, 504-546).
THEOREM ReadAsWrittenHolds == ParseSpec => []ReadAsWritten
<1>1. ParseInv => ReadAsWritten
  BY DEF ParseInv
<1>. QED
  BY <1>1, ParseInductive, PTL
=============================================================================
