CONSTANTS
  Requests = {r1, r2}
  Kids <- MCKids
  KeySets <- MCKeySets
  LastSet = 3
  MaxAttempts = 2
  Outages = TRUE
SPECIFICATION FairSpec
INVARIANT TypeOK OneFetchPerCooldown RefusedAfterSharing ReadyHasKeys
PROPERTY CacheNeverRegresses CatchesUp RequestsReturn StopEnds
