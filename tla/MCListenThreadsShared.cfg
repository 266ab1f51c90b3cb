SPECIFICATION Spec
CONSTANTS
  Ports = {SerialPort, SerialPort_Vision}
  MaxThreads = 2
  MaxBytes = 1
  OpenFails = FALSE
  ReadFails = FALSE
CHECK_DEADLOCK FALSE
PROPERTIES
  RefusedMeansListening
