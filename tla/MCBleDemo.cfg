SPECIFICATION DemoSpec
CONSTANTS
  Apps = {"bledemo"}
  Numbers = {}
  Decimals = {}
  TEST_STEP_RETRY_COUNT = 2
  Tasks = {t1, t2}
  MaxAcks = 2
  Word = 1024
  Rate = 32
  Second = 10
  Enough = 5
  Margin = 2
  MaxIdle = 70
  MaxBle = 40
  Sockets = 3
  Blocks = {b1, b2, b3}
  Ssids = {s, t}
  Passwords = {p, q}
  Short = 7
  Long = 10000
  MaxZigbee = 4
  Rssi <- MCRssi
  MaxDrop = 2
  MaxPress = 1
  MaxFail = 1
  NULL = NULL
INVARIANTS
  OneConnection
  LedOfCentral
PROPERTIES
  Reconnects
CHECK_DEADLOCK FALSE
