------------------------------ MODULE Suggestion ------------------------------
(***************************************************************************)
(* find_suggestion of src/utils/terminal.cpp: the candidates are compared  *)
(* with the input one after the other, by levenshtein_distance.            *)
(***************************************************************************)
EXTENDS Levenshtein

CONSTANTS
  Candidates,  \* KNOWN_COMMANDS or KNOWN_ALGOS: a sequence of words
  NoDistance   \* static_cast<size_t>(-1), more than any distance

ASSUME CandidatesAssumption ==
  /\ Candidates \in Seq(Seq(Letter) \ {<<>>})
  /\ NoDistance \in Nat
  /\ \A word \in Words \cup Range(Candidates) : Len(word) < NoDistance

VARIABLES
  next,        \* the candidate that is compared
  minDist, best,
  phase,       \* "comparing" or "answered"
  suggestion   \* the answer; <<>> is the empty string

ownVars == <<next, minDist, best, phase, suggestion>>

searchVars == <<tableVars, ownVars>>

\* The input is s1, the candidate s2.
SearchInit ==
  /\ s1 \in Words
  /\ s2 = IF Candidates = <<>> THEN <<>> ELSE Candidates[1]
  /\ d = EmptyTable(s1, s2)
  /\ i = 0 /\ j = 0
  /\ next = 1
  /\ minDist = NoDistance
  /\ best = <<>>
  /\ phase = "comparing"
  /\ suggestion = <<>>

\* Mutant: the loop goes on behind the last candidate.
ComparedTooLate == next > Len(Candidates) + 1

Compared == next > Len(Candidates)

\* Nothing to compare: the empty string is returned.
NoSuggestion ==
  /\ phase = "comparing"
  /\ s1 = <<>> \/ Candidates = <<>>
  /\ phase' = "answered"
  /\ UNCHANGED <<tableVars, next, minDist, best, suggestion>>

Measure ==
  /\ phase = "comparing" /\ ~Compared /\ s1 # <<>>
  /\ FillBorders \/ FillCell \/ NextRow
  /\ UNCHANGED ownVars

\* Mutant: of equally near candidates the last one is taken.
IsNearerOrSame == Distance <= minDist

IsNearer == Distance < minDist

KeepNearer ==
  IF IsNearer THEN minDist' = Distance /\ best' = s2 ELSE UNCHANGED <<minDist, best>>

\* The distance to a candidate is known; the next one gets a table of its own.
Compare ==
  /\ phase = "comparing" /\ ~Compared /\ s1 # <<>> /\ Returned
  /\ KeepNearer
  /\ next' = next + 1
  /\ s2' = IF next < Len(Candidates) THEN Candidates[next + 1] ELSE s2
  /\ d' = EmptyTable(s1, s2')
  /\ i' = 0 /\ j' = 0
  /\ UNCHANGED <<s1, phase, suggestion>>

Threshold == Max({2, Len(s1) \div 2})

Answer ==
  /\ phase = "comparing" /\ Compared /\ Candidates # <<>> /\ s1 # <<>>
  /\ suggestion' = IF minDist <= Threshold THEN best ELSE <<>>
  /\ phase' = "answered"
  /\ UNCHANGED <<tableVars, next, minDist, best>>

SearchNext == NoSuggestion \/ Measure \/ Compare \/ Answer

SearchSpec == SearchInit /\ [][SearchNext]_searchVars

-----------------------------------------------------------------------------
SearchTypeOK ==
  /\ d \in [Cells -> Nat]
  /\ next \in 1 .. Len(Candidates) + 1
  /\ minDist \in Nat
  /\ best \in Range(Candidates) \cup {<<>>}
  /\ phase \in {"comparing", "answered"}
  /\ suggestion \in {<<>>, best}

\* What is proposed is the first of the nearest candidates, and every input that
\* has a candidate within two edits or 40% of its length gets a proposal, however
\* short it is and though the candidates are compared one at a time and the table
\* is made anew for each (terminal.cpp:170-194).
NearestIsProposed ==
  phase = "answered" =>
    LET distance == [k \in DOMAIN Candidates |-> EditDistance(s1, Candidates[k])]
        near == {k \in DOMAIN Candidates : distance[k] <= 2 \/ 5 * distance[k] <= 2 * Len(s1)}
        IsFirstNearest(k) ==
          \A other \in DOMAIN Candidates :
            distance[k] < distance[other] \/ (distance[k] = distance[other] /\ k <= other)
    IN  IF suggestion = <<>>
          THEN s1 = <<>> \/ near = {}
          ELSE s1 # <<>> /\ \E k \in DOMAIN Candidates : suggestion = Candidates[k] /\ IsFirstNearest(k)

\* "Only suggest if distance is <= 2 or within 40% of length" (terminal.cpp:187).
OnlyNearIsProposed ==
  phase = "answered" /\ suggestion # <<>> =>
    EditDistance(s1, suggestion) <= 2 \/ 5 * EditDistance(s1, suggestion) <= 2 * Len(s1)
=============================================================================
