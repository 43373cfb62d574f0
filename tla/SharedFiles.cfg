SPECIFICATION Spec
CONSTANTS
  MaxByte = 30
  BufferSize = 1
  SizeMod = 31
  SizeBytes = 1
  Magic <- MCMagic
  Process <- MCProcess
  Jobs <- MCJobs
  InitialFiles <- MCInitialFiles
  Edits <- MCEdits
  Inode = {1, 2, 3, 4, 5, 6}
  NoInode = 0
  Payload <- MCPayload
  Restored <- MCRestored
  Verdict <- MCVerdict
  ReadAhead = 5
  OutBuffer = 4
  Piece = 4
  MaxEdits = 1
INVARIANTS
  TypeOK
  ArchiveHoldsWhatWasRead
  NewArchiveIsWholeOrRefused
  SameArchiveTwice
  NothingIsLost
CHECK_DEADLOCK FALSE
