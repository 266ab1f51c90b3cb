SPECIFICATION FairSpec
CONSTANTS
  Ports = {SerialPort, SerialPort_Vision}
  MaxThreads = 2
  MaxBytes = 1
  OpenFails = TRUE
  ReadFails = TRUE
CHECK_DEADLOCK FALSE
INVARIANTS
  TypeOK
PROPERTIES
  StopHeard
