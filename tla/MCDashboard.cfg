SPECIFICATION FairDashboardSpec
CONSTANTS
  v11 = v11
  v110 = v110
  v19 = v19
  vRC = vRC
  packageP = packageP
  repository = repository
  p = p
  r = r
  q1 = q1
  None = None
  Key <- MCKey
  Scope <- MCScope
  Under <- MCUnder
  Matches <- MCUnder
  Request <- MCRequest
  FetchSize = 1
  MaxPages = 4
  Version <- MCVersion
  Part <- MCPart
  Number <- MCNumber
  Parts <- MCParts
  Value <- MCValue
  Text <- MCText
  Repository = repository
  VersionScope <- MCVersionScope
  PackageScope <- MCPackageScope
  Package <- MCPackage
  PackageOf <- MCPackageOf
  VersionOf <- MCVersionOf
  Directory <- MCDirectory
  File <- MCFile
  EntryOf <- MCEntryOf
  VersionNames <- MCDirectory
  PageSize = 2
CHECK_DEADLOCK FALSE
INVARIANTS
  DashboardTypeOK
  ScopeRespected
  NothingMissed
  AnswersHonest
  PagesHonest
  LatestIsNewest
  WalkFaithful
  VersionsSelectable
PROPERTIES
  RequestsEnd
