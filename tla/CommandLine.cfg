SPECIFICATION ParseSpec
CONSTANTS
  NoValue = NoValue
  ArgumentLists <- MCArgumentLists
INVARIANTS
  ParseTypeOK
  RefusedForCause
  ReadAsWritten
CHECK_DEADLOCK FALSE
