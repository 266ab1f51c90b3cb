SPECIFICATION Spec
CONSTANTS
  RUNE_ARMOR_NUM = 3
  RESET_TIME = 0
  TickMod = 7
  MaxAge = 3
  StartModes = {FALSE}
PROPERTIES
  ShownBeforeActive
