SPECIFICATION SearchSpec
CONSTANTS
  Letter = {1, 2}
  MaxLength = 6
  NoDistance = 100
  Words <- MCWords
  Candidates <- MCCandidates
INVARIANTS
  OnlyNearIsProposed
CHECK_DEADLOCK FALSE
