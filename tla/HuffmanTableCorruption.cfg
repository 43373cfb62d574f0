SPECIFICATION Spec
CONSTANTS
  MaxByte = 3
  BufferSize = 2
  SizeMod = 16
  BitsPerByte = 2
  CountBytes = 2
  FrequencyBytes = 2
  MaxLen = 2
  Letters = {0, 1}
  Inputs <- MCInputs
  Tails <- MCTails
  Patches <- MCPatches
INVARIANTS
  TableCorruptionIsRejected
CHECK_DEADLOCK FALSE
