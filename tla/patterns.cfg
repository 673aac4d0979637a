SPECIFICATION FairSpec
CONSTANTS
  star = star
  dot = dot
  semicolon = semicolon
  U013B = U013B
  U0100 = U0100
  nul = nul
  Chars = {star, dot, semicolon, U013B, U0100}
  Byte <- MCByte
  Sep = semicolon
  Nul = nul
  BufSize = 3
  MaxLen = 6
INVARIANTS
  TypeOK
  BufferInBounds
  AppendsPatterns
PROPERTIES
  LoopEnds
CHECK_DEADLOCK FALSE
