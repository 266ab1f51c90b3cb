SPECIFICATION RecordFairSpec
CONSTANTS
  MaxWheel = 1
  CtrlModes = {"RUNAWAY", "NORMAL"}
  Triggers = {TRUE, FALSE}
  Outputs = {"zero", "nan"}
INVARIANTS
  RecordTypeOK
  StopsInTime
PROPERTIES
  RunawayStops
  FireStopsAfterP
