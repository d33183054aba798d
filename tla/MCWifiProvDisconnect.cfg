SPECIFICATION Spec
CONSTANTS
  Strings <- MCStrings
  Buffers <- MCBuffers
  b1 = b1
  b2 = b2
  b3 = b3
  NULL = NULL
  Stored <- MCStored
  QueueLen = 3
  MaxPosts = 5
SYMMETRY MCSymmetry
INVARIANTS
  ConnectsRequested
CHECK_DEADLOCK FALSE
