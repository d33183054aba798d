SPECIFICATION FairSpec
CONSTANTS
  Unit <- MCUnit
  Erased = Erased
  NoDigest = NoDigest
  Files <- MCFiles
  Claim <- MCClaim
  HeaderLen = 2
  BufSize = 3
  PartLen = 5
  MaxChunk = 2
  Window = 2
  Conns = {1, 2}
  MaxBoots = 2
  RetryBoots = {1}
INVARIANTS
  BufferSafe
  FaultNeedsRetry
  NoMissedInstall
PROPERTIES
  NoInstallOnRetry
  ImplementsSlots
  CommandReturns
CHECK_DEADLOCK FALSE
