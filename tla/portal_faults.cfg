SPECIFICATION FairSpec
CONSTANTS
  u1 = u1
  u2 = u2
  bad = bad
  p1 = p1
  p2 = p2
  NULL = NULL
  Threads = {t1}
  MaxCalls = 3
  Frames = {f1, f2}
  Ops = {"open_file", "open_native"}
  Faults = {"refuse", "timeout", "disconnect"}
  Selections <- MCNoFile
  PathOf <- MCPathOf
INVARIANTS
  FilterAccounting
  MisdeliveryHasCause
  StrayWriteNeedsFailure
  SilentReturnIsDisconnect
PROPERTIES
  AnsweredReturnsOrStray
CHECK_DEADLOCK FALSE
