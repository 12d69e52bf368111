SPECIFICATION FairSpec
CONSTANTS
  release = release
  snapshot = snapshot
  u1 = u1
  u2 = u2
  d1 = d1
  p1 = p1
  None = None
  Key <- MCKey
  Immutable <- MCImmutable
  Prefixes <- MCPrefixes
  Upload <- MCUpload
  Download <- MCDownload
  Purge <- MCPurge
  Chunks = 2
CHECK_DEADLOCK FALSE
INVARIANTS
  TypeOK
  NoTornArtifact
  TempsAccountedFor
  DownloadsWhole
PROPERTIES
  Immutability
  NoResurrection
  ImplementsRepository
  UploadsSettle
  PurgesEnd
