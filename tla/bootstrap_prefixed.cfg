SPECIFICATION FairSpec
CONSTANTS
  p1 = p1
  p2 = p2
  NoProcess = NoProcess
  NULL = NULL
  Pids = {p1, p2}
  Callers = {p1, p2}
  WinPid <- MCPrefixed
  Layout <- MCRandom
  ErrnoCode <- MCUnknown
  MaxInits = 2
INVARIANTS
  TypeOK
  MistakenIdentity
  
PROPERTIES
  OwnPidNotMissed
  InitReturns
CHECK_DEADLOCK FALSE
