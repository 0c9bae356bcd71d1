SPECIFICATION FairSpec
CONSTANTS
  Connections = {c1}
  MaxConnections = 1
  Faults <- ClientStalls
PROPERTIES StalledSessionEnds
CHECK_DEADLOCK FALSE
