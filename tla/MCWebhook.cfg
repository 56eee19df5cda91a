SPECIFICATION FairSpec
CONSTANTS
  Handlers = {h1, h2}
  Keys = {k1, k2, k3}
  NoKey = NoKey
  QueueSize = 2
  TokenSet = TRUE
INVARIANTS TypeOK OwnedOnce
PROPERTIES PageQueueFairSpec EventuallyReleased QueuedIsPaged ShutdownCompletes
