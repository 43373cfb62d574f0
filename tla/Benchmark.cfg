SPECIFICATION FairSpec
CONSTANTS
  Node <- MCNode
  Root = "root"
  Trees <- MCTrees
  MaxLinks = 2
  MaxRemoved = 1
INVARIANTS
  FilesInPlaceAreMeasured
  ResultsInOrder
PROPERTIES
  ScanEnds
CHECK_DEADLOCK FALSE
