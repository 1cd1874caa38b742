SPECIFICATION Spec
CONSTANTS
  Clients = {c1, c2}
  SendCap = 2
  BcastCap = 1
  MaxMsg = 3
  SnapshotMayFail = TRUE
SYMMETRY Symmetry
INVARIANTS
  TypeOK
  HubNeverPanics
  NoGhostClient
  NoDeafClient
  DeliveredInOrder
  PanicsOnlyIfFlooded
CHECK_DEADLOCK FALSE
