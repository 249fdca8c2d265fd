SPECIFICATION FairSpec
CONSTANTS
  Hosts = {h1}
  Calls = {c1, c2}
  AdminOps <- AllOps
  MaxFaults = 1
  None = None
INVARIANTS PendingIsWaiting CacheIsCurrent
PROPERTIES DeletedIsForgotten KeepsAsking AdmittedReports
