SPECIFICATION FairSpec
CONSTANTS
  MaxByte = 3
  BufferSize = 3
  SizeMod = 16
  MaxLen = 6
  Inputs <- MCInputs
  Tails <- MCTails
INVARIANTS
  FewestBlocks
  IInv
PROPERTIES
  EveryCallReturns
  ImplementsContract
CHECK_DEADLOCK FALSE
