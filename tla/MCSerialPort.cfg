SPECIFICATION FairSpec
CONSTANTS
  PackLen = 3
  Alias = {1}
  MaxBytes = 8
  ReadFails = TRUE
  WriteFails = TRUE
INVARIANTS
  TypeOK
  NeverStarved
  Accounted
  CapturedInARow
PROPERTIES
  WriteHangsOnlyBehindPurge
CHECK_DEADLOCK FALSE
