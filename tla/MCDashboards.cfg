SPECIFICATION FairSpec
CONSTANTS
  Tabs = {a, b}
  MaxEdits = 2
  MaxFaults = 1
  MaxReloads = 1
  None = None
INVARIANTS
  TypeOK
  SavedIsStored
  IndicatorFollowsSave
PROPERTY EditsSettle
CHECK_DEADLOCK FALSE
