SPECIFICATION Spec
CONSTANTS
  p1 = p1
  p2 = p2
  NoProcess = NoProcess
  NULL = NULL
  Pids = {p1, p2}
  Callers = {p1, p2}
  WinPid <- MCSame
  Layout <- MCFixed
  ErrnoCode <- MCKnown
  MaxInits = 2
INVARIANTS
  SuccessIsOwnProcess
  CanaryLeftNeedsExit
CHECK_DEADLOCK FALSE
