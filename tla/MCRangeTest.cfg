SPECIFICATION FairSpec
CONSTANTS
  PktCnt = 3
  SeqMod = 4
  TxRetry = 1
  AppLimit = 1
  Rssi <- MCRssi
INVARIANTS
  CountedOnce
  Consistent
PROPERTIES
  NotSkipped
  Finishes
CHECK_DEADLOCK FALSE
