SPECIFICATION FairSpec
CONSTANTS
  Tasks = {t1, t2}
  Dangerous = {t2}
  Callers = {k1, k2}
  GrpcCallers <- OverGrpc
  MaxExecs = 2
  UncalledOps = TRUE
  None = None
INVARIANTS StatusFollowsProcess OneCommandPerService
PROPERTIES CallsAreAnswered
