SPECIFICATION FairSpec
CONSTANTS
  MaxPacks = 3
INVARIANTS
  TypeOK
  InFlightFresh
  CopiesBehind
PROPERTIES
  NeverRollsBack
  BoxSpec
  QuietNotifyIsTaken
CHECK_DEADLOCK FALSE
