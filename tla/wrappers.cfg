SPECIFICATION Spec
CONSTANTS
  NULL = NULL
  MaxCalls = 2
  Args <- MCArgs
  Answers <- MCAnswers
INVARIANTS
  TypeOK
  LibraryFreesRight
  NothingLost
  ResultMeans
  DecodedFits
  FiltersSent
CHECK_DEADLOCK FALSE
