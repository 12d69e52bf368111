SPECIFICATION Spec
CONSTANTS
  release = release
  metadata = metadata
  sidecar = sidecar
  u1 = u1
  u2 = u2
  d1 = d1
  d2 = d2
  r1 = r1
  r2 = r2
  None = None
  Key <- MCRelease
  Upload <- MCUpload
  Download <- MCOneDownload
  Replica <- MCReplica
  Immutable <- MCRelease
  Cacheable <- MCRelease
  Deletable <- MCNothing
  Faults = FALSE
CHECK_DEADLOCK FALSE
INVARIANT
  MissesReadPrimary
