SPECIFICATION Spec
CONSTANTS
  release = release
  metadata = metadata
  sidecar = sidecar
  u1 = u1
  u2 = u2
  d1 = d1
  d2 = d2
  r1 = r1
  r2 = r2
  None = None
  Key <- MCKey
  Upload <- MCUpload
  Download <- MCDownload
  Replica <- MCReplica
  Immutable <- MCRelease
  Cacheable <- MCCacheable
  Deletable <- MCChanging
  Faults = TRUE
SYMMETRY MCSymmetry
CHECK_DEADLOCK FALSE
INVARIANTS
  TypeOK
  CopiesWerePublished
  StableCopies
PROPERTIES
  FaithfulImplementsRepository
