SPECIFICATION FairSpec
CONSTANTS
  Facilities = {"ZJX", "ZNY"}
  Cids <- MCCids
  SystemWide = SystemWide
  Upstreams <- MCUpstreams
  ManualGrants <- MCManualGrants
  MaxChanges = 1
  MaxFaults = 1
INVARIANTS
  TypeOK
  GrantsAreFresh
  SteadyGrantsServed
  DecisionsAreJust
PROPERTIES
  ManualUntouched
  Converges
CHECK_DEADLOCK FALSE
