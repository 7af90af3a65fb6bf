SPECIFICATION Spec
CONSTANTS
  Lengths <- Boundary
INVARIANTS
  NoOversizedMessage
CHECK_DEADLOCK FALSE
