SPECIFICATION FairSpec
CONSTANTS
  RUNE_ARMOR_NUM = 2
  RESET_TIME = 0
  TickMod = 7
  MaxAge = 3
  StartModes = {TRUE}
INVARIANTS
  ListOK
PROPERTIES
  GameSafe
  LateHitNeverCounts
  SlowRuneRestarts
