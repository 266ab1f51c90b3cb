SPECIFICATION FairSpec
CONSTANTS
  RUNE_ARMOR_NUM = 3
  RESET_TIME = 0
  TickMod = 7
  MaxAge = 3
  StartModes = {FALSE}
INVARIANTS
  TypeOK
  ListOK
  GenerateCanFinish
  LampsTellTheGame
PROPERTIES
  GameSafe
  GameSpec
