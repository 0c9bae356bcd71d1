SPECIFICATION StopSpec
CONSTANTS
  Connections = {c1}
  MaxConnections = 2
  Faults <- AllFaults
PROPERTIES ShutdownReturns SessionsEnd
CHECK_DEADLOCK FALSE
