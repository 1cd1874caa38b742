SPECIFICATION FairSpec
CONSTANTS
  Clients = {c1, c2}
  SendCap = 1
  BcastCap = 1
  MaxMsg = 3
  SnapshotMayFail = FALSE
PROPERTIES
  ImplementsBus
  BroadcastReturns
  ConnectionsCleanUp
CHECK_DEADLOCK FALSE
