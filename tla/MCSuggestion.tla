----------------------------- MODULE MCSuggestion -----------------------------
(***************************************************************************)
(* A small instance of Suggestion: all inputs over two letters.            *)
(***************************************************************************)
EXTENDS Suggestion

CONSTANT MaxLength  \* length of the longest input

MCWords == UNION {[1 .. n -> Letter] : n \in 0 .. MaxLength}

\* Two candidates that share most letters, one that is far from both, and one as
\* short as the threshold.
MCCandidates == <<<<1, 1, 2>>, <<1, 2, 2, 1>>, <<2, 2, 2, 2, 2>>, <<1>>>>
=============================================================================
