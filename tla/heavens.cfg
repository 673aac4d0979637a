SPECIFICATION Spec
CONSTANTS
  NULL = NULL
  Programs <- MCPrograms
  InAddr = 1000
  OutAddr = 300
  CoreAddr = 332
  Limit = 32
  Room = 16
  Offsets <- MCOffsets
  Errnos = {2, 26, 35, 36, 38, 4095}
  Results = {0, 7}
INVARIANTS
  TypeOK
  CopyIsFaithful
  FailureIsTold
CHECK_DEADLOCK FALSE
