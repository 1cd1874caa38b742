SPECIFICATION Spec
CONSTANTS
  Callers = {t1, t2}
  MaxTokens = 4
SYMMETRY Symmetry
INVARIANTS
  TypeOK
  ChainIsTruthful
  CookieStaysValid
  OneValidToken
  AlarmEndsSessions
CHECK_DEADLOCK FALSE
