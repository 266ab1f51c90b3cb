SPECIFICATION Spec
CONSTANTS
  Axes = {"YAW", "PITCH"}
  Modes = {"NORMAL", "STATIC", "ASSIST", "TUNE_PID", "RUNAWAY"}
  Long = 6
  TickMod = 16
  Resolution = 3
INVARIANTS
  TypeOK
  
PROPERTIES
  HeadingLostOnlyInAssist
