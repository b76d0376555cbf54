SPECIFICATION Spec
CONSTANTS
  Configs = {c1, c2}
  ClientIDs = {}
  PodStates = {"starting", "ready"}
  Externals = {TRUE}
  Preloads = TRUE
  MaxEdits = 3
  MaxFaults = 1
SYMMETRY Symmetry
CHECK_DEADLOCK FALSE
INVARIANTS TypeOK OrphansWereUnseen SettledStatus
PROPERTIES WritesNeedModel ConfigChangesRedeploy
