SPECIFICATION StartFairSpec
CONSTANTS
  SerialPort = SerialPort
  SerialPort_Vision = SerialPort_Vision
  Ports = {SerialPort, SerialPort_Vision}
  Objects = {Wheel, Collision}
  Signals = {imuPitchAngle, FireCmd}
  Unchecked = {imuPitchAngle}
  MaxThreads = 2
  MaxBytes = 2
  OpenFails = TRUE
  ReadFails = FALSE
CHECK_DEADLOCK FALSE
INVARIANTS
  StartTypeOK
  TasksHaveScene
  ReadersHaveBytes
PROPERTIES
  StartupDecides
