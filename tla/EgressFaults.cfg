SPECIFICATION Spec
CONSTANTS
  Connections = {c1, c2, c3}
  MaxConnections = 2
  Faults <- Serving
SYMMETRY Interchangeable
INVARIANTS PermitsAreConserved RunLeavesNothing NextRequestInTurn
PROPERTIES ImplementsAdmission RespondsThroughDrain
CHECK_DEADLOCK FALSE
