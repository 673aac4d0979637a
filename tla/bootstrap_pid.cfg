SPECIFICATION Spec
CONSTANTS
  p1 = p1
  p2 = p2
  NoProcess = NoProcess
  NULL = NULL
  Pids = {p1, p2}
  Callers = {p1, p2}
  WinPid <- MCPrefixed
  Layout <- MCRandom
  ErrnoCode <- MCKnown
  MaxInits = 1
INVARIANTS
  FindsOwnPid
CHECK_DEADLOCK FALSE
