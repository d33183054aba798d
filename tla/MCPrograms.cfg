SPECIFICATION FairSpec
CONSTANTS
  Apps = {"audio_udp", "device_advisor", "aws_iot", "idle_task", "demo_tickless", "http_client", "blsync", "wifi"}
  Numbers <- MCNumbers
  Decimals <- MCDecimals
  TEST_STEP_RETRY_COUNT = 2
  Tasks = {t1, t2}
  MaxAcks = 2
  Word = 1024
  Rate = 32
  Second = 10
  Enough = 5
  Margin = 2
  MaxIdle = 70
  MaxBle = 40
  Sockets = 3
  Blocks = {b1, b2, b3}
  Ssids = {s, t}
  Passwords = {p, q}
  Short = 7
  Long = 10000
  MaxZigbee = 4
  Rssi <- MCRssi
  MaxDrop = 2
  MaxPress = 1
  MaxFail = 1
  NULL = NULL
INVARIANTS
  Understood
  InStep
  WakesInTime
  NothingLeft
  OneSession
PROPERTIES
  TestsEnd
  Reports
  FollowsPin
  PmkFits
CHECK_DEADLOCK FALSE
