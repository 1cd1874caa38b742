SPECIFICATION Spec
CONSTANTS
  Stations = {s1}
  Letters = {A, B}
  NoLetter = NoLetter
  Offline = Offline
  BcastCap = 1
  MaxFeed = 3
  SendCap = 2
  Clients = {c1}
  MaxRestarts = 0
  MaxConnects = 1
INVARIANT OfflineIsShownOffline
CHECK_DEADLOCK FALSE
