SPECIFICATION Spec
CONSTANTS
  Clients = {c1}
  SendCap = 2
  BcastCap = 1
  MaxMsg = 3
  SnapshotMayFail = TRUE
INVARIANT SnapshotIsFirst
CHECK_DEADLOCK FALSE
