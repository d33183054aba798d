SPECIFICATION Spec
CONSTANTS
  Blocks = {b1, b2}
  NULL = NULL
INVARIANTS
  StartedMeansRunning
CHECK_DEADLOCK FALSE
