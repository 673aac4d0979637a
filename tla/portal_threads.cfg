SPECIFICATION Spec
CONSTANTS
  u1 = u1
  u2 = u2
  bad = bad
  p1 = p1
  p2 = p2
  NULL = NULL
  Threads = {t1, t2}
  MaxCalls = 3
  Frames = {f1}
  Ops = {"open_file", "open_files", "open_native"}
  Faults = {}
  Selections <- MCNoFile
  PathOf <- MCPathOf
INVARIANTS
  OnlySurplusLost
  NoDanglingFilter
  OneReturnPerResponse
  PathStoredBeforeReturn
PROPERTIES
  StoredOnce
CHECK_DEADLOCK FALSE
