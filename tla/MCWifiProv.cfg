SPECIFICATION FairSpec
CONSTANTS
  Strings <- MCStrings
  Buffers <- MCBuffers
  b1 = b1
  b2 = b2
  b3 = b3
  NULL = NULL
  Stored <- MCStored
  QueueLen = 3
  MaxPosts = 4
INVARIANTS
  OneOwner
  FollowsLastRequest
PROPERTIES
  ConnectAsPosted
  Served
CHECK_DEADLOCK FALSE
