CONSTANTS
  Requests = {r1, r2}
  Kids <- MCKids
  KeySets <- MCKeySets
  LastSet = 3
  MaxAttempts = 2
  Outages = FALSE
SPECIFICATION Spec
INVARIANTS OnlyAbsentRefused
