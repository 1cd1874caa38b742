SPECIFICATION PollerSpec
CONSTANTS
  Stations = {s1, s2}
  Letters = {A, B}
  NoLetter = NoLetter
  Offline = Offline
  BcastCap = 1
  MaxFeed = 3
  MaxRestarts = 2
SYMMETRY Symmetry
INVARIANTS
  PollerTypeOK
  EveryChangeIsAnnounced
PROPERTIES
  NoSpuriousAnnouncement
  CrashLosesNoChange
CHECK_DEADLOCK FALSE
