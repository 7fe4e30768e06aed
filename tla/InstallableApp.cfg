SPECIFICATION FairSpec
CONSTANTS
  theme = theme
  bundle = bundle
  Assets = {theme}
  PrecacheList <- MCPrecacheList
  Fingerprinted = {theme, bundle}
  MaxReleases = 2
  MaxEvents = 1
  None = None
INVARIANTS
  NothingOlderServed
  OfferIsLive
PROPERTY CatchesUp
CHECK_DEADLOCK FALSE
