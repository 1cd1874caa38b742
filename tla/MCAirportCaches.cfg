SPECIFICATION FairSpec
CONSTANTS
  Requests = {r1, r2}
  Airports = {KATL}
  Stations = {KATL, KCLT, KMEM}
  ChartsTTL = 2
  MetarTTL = 2
  Slots = 1
  Rounds = 3
  MaxCall = 1
  MaxFaults = 1
  Nothing = Nothing
ACTION_CONSTRAINT OneSide
INVARIANTS
  TypeOK
  ChartsAreRecent
  ReportsAreRecent
PROPERTIES
  MetarRateIsBounded
  MetarsHeal
CHECK_DEADLOCK FALSE
