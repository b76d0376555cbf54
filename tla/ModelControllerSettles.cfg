SPECIFICATION FairSpec
CONSTANTS
  Configs = {c1}
  ClientIDs = {k1}
  PodStates = {"starting", "ready"}
  Externals = {TRUE, FALSE}
  Preloads = FALSE
  MaxEdits = 2
  MaxFaults = 1
CHECK_DEADLOCK FALSE
INVARIANTS SettledAllowList
PROPERTIES ReconcileKeepsKeys AllowListConverges DeletionCompletes
