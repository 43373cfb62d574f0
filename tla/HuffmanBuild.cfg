SPECIFICATION BuildSpec
CONSTANTS
  MaxByte = 4
  BufferSize = 1
  SizeMod = 16
  Counts = {0, 1, 2, 3, 5}
  Tables <- MCTables
INVARIANTS
  BuildTypeOK
  LeavesPartition
  PrefixFree
  NoMissingChild
  RoundIsDetermined
  CodeIsOptimal
CHECK_DEADLOCK FALSE
