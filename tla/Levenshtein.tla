----------------------------- MODULE Levenshtein -----------------------------
(***************************************************************************)
(* levenshtein_distance of src/utils/terminal.cpp: the table d of the      *)
(* distances between all prefixes of two words, filled row by row.         *)
(***************************************************************************)
EXTENDS Integers, FiniteSetsExt, SequencesExt

CONSTANTS
  Letter,  \* the characters
  Words    \* the strings that are compared

ASSUME WordsAssumption == Words \subseteq Seq(Letter)

VARIABLES
  s1, s2,  \* the strings
  d,       \* d[<<i, j>>]: the distance of their first i and j characters
  i, j     \* the loop variables; i = 0 until the borders are filled

tableVars == <<s1, s2, d, i, j>>

Cells == (0 .. Len(s1)) \X (0 .. Len(s2))

\* vector<vector<size_t>> d(len1 + 1, vector<size_t>(len2 + 1))
EmptyTable(a, b) == [cell \in (0 .. Len(a)) \X (0 .. Len(b)) |-> 0]

Init ==
  /\ s1 \in Words /\ s2 \in Words
  /\ d = EmptyTable(s1, s2)
  /\ i = 0 /\ j = 0

\* Both loops over the borders.
FillBorders ==
  /\ i = 0
  /\ d' = [cell \in Cells |-> IF cell[2] = 0 THEN cell[1]
                              ELSE IF cell[1] = 0 THEN cell[2]
                              ELSE 0]
  /\ i' = 1 /\ j' = 1
  /\ UNCHANGED <<s1, s2>>

\* Mutant: the characters are compared one place too far left.
CostShifted == IF i > 1 /\ j > 1 /\ s1[i - 1] = s2[j - 1] THEN 0 ELSE 1

Cost == IF s1[i] = s2[j] THEN 0 ELSE 1

Least(a, b, c) == IF a <= b /\ a <= c THEN a ELSE IF b <= c THEN b ELSE c

\* Mutant: the neighbour's number is taken over without the edit.
FillCellFree ==
  /\ i \in 1 .. Len(s1) /\ j \in 1 .. Len(s2)
  /\ d' = [d EXCEPT ![<<i, j>>] =
             Least(d[<<i - 1, j>>], d[<<i, j - 1>>] + 1, d[<<i - 1, j - 1>>] + Cost)]
  /\ j' = j + 1
  /\ UNCHANGED <<s1, s2, i>>

FillCell ==
  /\ i \in 1 .. Len(s1) /\ j \in 1 .. Len(s2)
  /\ d' = [d EXCEPT ![<<i, j>>] =
             Least(d[<<i - 1, j>>] + 1, d[<<i, j - 1>>] + 1, d[<<i - 1, j - 1>>] + Cost)]
  /\ j' = j + 1
  /\ UNCHANGED <<s1, s2, i>>

NextRow ==
  /\ i \in 1 .. Len(s1) /\ j > Len(s2)
  /\ i' = i + 1 /\ j' = 1
  /\ UNCHANGED <<s1, s2, d>>

Next == FillBorders \/ FillCell \/ NextRow

Spec == Init /\ [][Next]_tableVars

Returned == i > Len(s1)

Distance == d[<<Len(s1), Len(s2)>>]

-----------------------------------------------------------------------------
TypeOK ==
  /\ s1 \in Words /\ s2 \in Words
  /\ d \in [Cells -> Nat]
  /\ i \in 0 .. Len(s1) + 1
  /\ j \in 0 .. Len(s2) + 1

\* The cells that have their final number.
Filled ==
  {cell \in Cells : i > 0 /\ (cell[1] < i \/ cell[2] = 0 \/ (cell[1] = i /\ cell[2] < j))}

\* The distance between two prefixes is at least the difference of their
\* lengths and at most the length of the longer one: neither the borders nor
\* the order of the loops let a number from an unfilled cell in
\* (terminal.cpp:151-165).
WithinLengths ==
  \A cell \in Filled :
    /\ d[cell] >= cell[1] - cell[2] /\ d[cell] >= cell[2] - cell[1]
    /\ d[cell] <= cell[1] \/ d[cell] <= cell[2]

\* One more character on either side changes the distance by one at most
\* (terminal.cpp:163).
OneEditApart ==
  \A row \in 0 .. Len(s1), column \in 0 .. Len(s2) :
    <<row, column>> \in Filled =>
      /\ row > 0 => d[<<row, column>>] - d[<<row - 1, column>>] \in -1 .. 1
      /\ column > 0 => d[<<row, column>>] - d[<<row, column - 1>>] \in -1 .. 1

\* Two prefixes have distance 0 exactly if they are the same.
ZeroIffEqual ==
  \A row \in 0 .. Len(s1), column \in 0 .. Len(s2) :
    <<row, column>> \in Filled =>
      (d[<<row, column>>] = 0 <=> row = column /\ \A k \in 1 .. row : s1[k] = s2[k])

\* The reference definition.  An alignment tells from which character of a every
\* character of b comes, in their order; 0 stands for none.
Alignments(a, b) ==
  {from \in [1 .. Len(b) -> 0 .. Len(a)] :
     \A k, l \in 1 .. Len(b) : k < l /\ from[k] > 0 /\ from[l] > 0 => from[k] < from[l]}

\* The characters of a from which none comes are deleted; those of b are inserted
\* or replaced unless they come from the same character.
Edits(a, b, from) ==
  Len(a) - Cardinality({k \in 1 .. Len(b) : from[k] > 0})
    + Cardinality({k \in 1 .. Len(b) : from[k] = 0 \/ a[from[k]] # b[k]})

EditDistance(a, b) == Min({Edits(a, b, from) : from \in Alignments(a, b)})

\* What is returned is the smallest number of edits by which any alignment
\* turns one string into the other (terminal.cpp:147-168, terminal.hpp:40-43).
DistanceIsMinimal == Returned => Distance = EditDistance(s1, s2)
=============================================================================
