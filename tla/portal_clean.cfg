SPECIFICATION FairSpec
CONSTANTS
  u1 = u1
  u2 = u2
  bad = bad
  p1 = p1
  p2 = p2
  NULL = NULL
  Threads = {t1}
  MaxCalls = 3
  Frames = {f1}
  Ops = {"open_file", "save_file", "choose_directory", "open_files"}
  Faults = {}
  Selections <- MCSelections
  PathOf <- MCPathOf
INVARIANTS
  TypeOK
  ReturnsOwnAnswer
  NothingSelectedIsLost
PROPERTIES
  ImplementsDialog
  AnsweredReturns
CHECK_DEADLOCK FALSE
