SPECIFICATION Spec
CONSTANTS
  Node <- MCNode
  Root = "root"
  Trees <- MCTrees
  MaxLinks = 2
  MaxRemoved = 1
INVARIANTS
  SuccessMeansAccess
CHECK_DEADLOCK FALSE
