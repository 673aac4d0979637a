SPECIFICATION Spec
CONSTANTS
  a = a
  b = b
  fsonly = fsonly
  other = other
  negative = negative
  none = none
  elf32 = elf32
  NULL = NULL
  Libs = {a, b, fsonly, other, negative, none, elf32}
  File <- MCFile
  Targets <- MCTargets
  InitialSize = 1
  Wrap = 64
  GarbageLocs <- MCGarbageLocs
  GarbageTables <- MCGarbageTables
  GarbageCodes <- MCGarbageCodes
  GarbageWords <- MCGarbageWords
INVARIANTS
  TypeOK
  AddressesAreReal
  GarbageUnused
  NothingHeld
PROPERTIES
  ImplementsSearch
CHECK_DEADLOCK FALSE
