SPECIFICATION Spec
CONSTANTS
  MaxByte = 5
  BufferSize = 1
  SizeMod = 6
  SizeBytes = 1
  Magic <- MCMagic
  FileBuffer = 5
  TextReport <- MCTextReport
  JsonReport <- MCJsonReport
  NoValue = NoValue
  MaxCommands = 1
  Sources <- MCSources
  Payload <- MCPayload
  Accepts <- MCAccepts
  Restored <- MCRestored
  Jobs <- MCJobs
  InitialFiles <- MCInitialFiles
INVARIANTS
  JsonOutputIsJson
CHECK_DEADLOCK FALSE
