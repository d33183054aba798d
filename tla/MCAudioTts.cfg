SPECIFICATION FairSpec
CONSTANTS
  NULL = NULL
  Sizes = {2, 3}
  Dual = 2
  Lengths = {1, 2}
  MaxRequests = 2
  MaxFail = 1
  MaxUnderrun = 1
INVARIANTS
  Seamless
  NothingForgotten
PROPERTIES
  Spoken
CHECK_DEADLOCK FALSE
