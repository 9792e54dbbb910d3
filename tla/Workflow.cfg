SPECIFICATION WorkflowSpec
CONSTANTS
  s1 = s1
  s2 = s2
  h1 = h1
  h2 = h2
  h3 = h3
  l1 = l1
  l2 = l2
  Sessions <- MCSessions
  NoSession = NoSession
  TTL = 2
  Handlers <- MCHandlers
  RedisFails = TRUE
  UserSessions <- MCSessions
  AssetSessions <- MCAssetSessions
  Listings <- MCListings
  KeyLife = 2
INVARIANTS LeaseHonoured
PROPERTIES SilentSessionLosesLock OnlyOvertakenDeviate ActiveListed
