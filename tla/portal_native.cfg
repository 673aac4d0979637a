SPECIFICATION FairSpec
CONSTANTS
  u1 = u1
  u2 = u2
  bad = bad
  p1 = p1
  p2 = p2
  NULL = NULL
  Threads = {t1}
  MaxCalls = 2
  Frames = {f1}
  Ops = {"open_file", "open_native"}
  Faults = {}
  Selections <- MCOneFile
  PathOf <- MCPathOf
INVARIANTS
  SelectionCompleted
CHECK_DEADLOCK FALSE
