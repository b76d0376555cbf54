SPECIFICATION FairSpec
CONSTANTS
  Specs <- MCSpecs
  ClientIDs = {k1}
  MaxEdits = 3
  MaxFaults = 2
INVARIANT SettledGateway
PROPERTY GatewayFollows ReconcileKeepsKeys
CHECK_DEADLOCK FALSE
