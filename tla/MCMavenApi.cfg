SPECIFICATION Spec
CONSTANTS
  release = release
  snapshot = snapshot
  w1 = w1
  w2 = w2
  d1 = d1
  deploy = deploy
  reading = reading
  Bad = Bad
  None = None
  Key <- MCKey
  Immutable <- MCImmutable
  Write <- MCWrite
  Read <- MCRead
  Token <- MCToken
  CanRead <- MCCanRead
  CanWrite <- MCCanWrite
  Expiry <- MCExpiry
  Length <- MCLength
  Declares <- MCDeclares
  MaxUpload = 2
  AnonymousRead = FALSE
  MaxTime = 1
CHECK_DEADLOCK FALSE
INVARIANTS
  TypeOK
  Authorized
  AuditHonest
  AnswersAudited
  DownloadsExplained
