SPECIFICATION FairSpec
CONSTANTS
  Stations = {s1}
  Letters = {A}
  NoLetter = NoLetter
  Offline = Offline
  BcastCap = 1
  MaxFeed = 2
  SendCap = 2
  Clients = {c1}
  MaxRestarts = 1
  MaxConnects = 2
INVARIANTS
  TypeOK
  UnracedTabsAgree
PROPERTIES
  LatestReachesTabs
CHECK_DEADLOCK FALSE
