SPECIFICATION Spec
CONSTANTS
  Tasks = {t1}
  Hosts = {h1, h2}
  Commands = {c1, c2}
  Requests = {r1}
  NoTask = NoTask
  NoHost = NoHost
  NoCall = NoCall
  MaxSends = 1
  ResultKinds = {"bare", "ok", "error"}
  HostEdits = {"add", "remove"}
  DbFaults = TRUE
  UncalledOps = TRUE
SYMMETRY Symmetric
INVARIANT TypeOK TimesMatchStatus
PROPERTY FailuresShow
