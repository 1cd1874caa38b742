SPECIFICATION Spec
CONSTANTS
  None = None
  Icaos = {KATL, KMCO}
  Codes = {"B"}
  Lines <- MCLines
  Groups <- MCGroups
  MaxEntries = 2
  MaxWritten = 3
INVARIANTS
  TypeOK
  StatedWeatherIsKept
  MergeKeepsRunways
  
SYMMETRY MCSymmetry
CHECK_DEADLOCK FALSE
