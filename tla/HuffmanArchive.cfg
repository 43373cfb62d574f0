SPECIFICATION FairSpec
CONSTANTS
  MaxByte = 3
  BufferSize = 2
  SizeMod = 16
  BitsPerByte = 2
  CountBytes = 2
  FrequencyBytes = 2
  MaxLen = 4
  Letters = {0, 1, 3}
  Inputs <- MCInputs
  Tails <- MCTails
  Patches <- MCPatches
INVARIANTS
  TypeOK
  WithinDeclaredSize
  SameTree
  CurrentIsNode
  PayloadIsPacked
PROPERTIES
  EveryCallReturns
  ImplementsContract
CHECK_DEADLOCK FALSE
