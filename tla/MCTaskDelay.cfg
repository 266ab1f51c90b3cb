SPECIFICATION FairSpec
CONSTANTS
  Tasks = {t1, t2, t3}
  Increments = {1, 3, 7}
  MAX_DELAY = 7
  MaxPended = 2
INVARIANTS
  TypeOK
  ListsOK
  NothingLeftBehind
PROPERTIES
  TimerSpec
  Wakes
