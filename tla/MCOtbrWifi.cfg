SPECIFICATION FairSpec
CONSTANTS
  Ssids <- MCSsids
  Pwds <- MCPwds
  Pairs <- MCPairs
  Key <- MCKey
  Length <- MCLength
  SsidSize = 33
  MinPwd = 8
  MaxCommands = 3
  MaxEvents = 2
  MaxBoots = 1
  MaxTorn = 1
INVARIANTS
  PairsKept
PROPERTIES
  Reconnects
  AutoConnectUsable
CHECK_DEADLOCK FALSE
