SPECIFICATION FairSpec
CONSTANTS
  c1 = c1
  c2 = c2
  Conns <- MCConns
  NULL = NULL
  QueueLen = 3
  MaxPairings = 2
  MaxFail = 1
INVARIANTS
  TypeOK
  OneRole
  ConnKnown
PROPERTIES
  BackOnAir
  SecurityRequested
CHECK_DEADLOCK FALSE
