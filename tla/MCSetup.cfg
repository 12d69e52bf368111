SPECIFICATION Spec
CONSTANTS
  r1 = r1
  r2 = r2
  a1 = a1
  a2 = a2
  a3 = a3
  f1 = f1
  f2 = f2
  None = None
  Replica <- MCReplica
  Attempt <- MCAttempt
  MasterKey <- MCMasterKey
SYMMETRY MCSymmetry
CHECK_DEADLOCK FALSE
INVARIANTS
  TypeOK
  OneInitializer
  LateAttemptsConflict
  WrongKeyRefused
PROPERTIES
  ImplementsSystemRecord
