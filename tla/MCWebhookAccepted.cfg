SPECIFICATION FairSpec
CONSTANTS
  Handlers = {h1, h2}
  Keys = {k1, k2}
  NoKey = NoKey
  QueueSize = 1
  TokenSet = FALSE
PROPERTIES AcceptedIsPending
