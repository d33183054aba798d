SPECIFICATION Spec
CONSTANTS
  Ssids <- MCSsids
  Pwds <- MCPwds
  Pairs <- MCPairs
  Key <- MCKey
  Length <- MCLength
  SsidSize = 33
  MinPwd = 8
  MaxCommands = 2
  MaxEvents = 3
  MaxBoots = 2
  MaxTorn = 0
PROPERTIES
  AutoConnect
CHECK_DEADLOCK FALSE
