SPECIFICATION Spec
CONSTANTS
  Workers = {w1, w2}
  NumFiles = 4
INVARIANTS
  TypeOK
  ZeroMeansAllClean
PROPERTIES
  Terminates
CHECK_DEADLOCK FALSE
