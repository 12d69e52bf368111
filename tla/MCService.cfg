SPECIFICATION Spec
CONSTANTS
  r1 = r1
  r2 = r2
  Request <- MCRequest
  MaxRequests = 2
  Window = 2
  MaxTime = 3
  MaxSignals = 2
SYMMETRY Symmetry
INVARIANTS
  TypeOK
  NothingCutOff
PROPERTIES
  LimitKept
  ReadyHonest
