SPECIFICATION LiveSpec
CONSTANTS
  Tasks = {t1}
  Hosts = {h1}
  Commands = {c1, c2}
  Requests = {}
  NoTask = NoTask
  NoHost = NoHost
  NoCall = NoCall
  MaxSends = 2
  ResultKinds = {"started", "ok", "error"}
  HostEdits = {}
  DbFaults = FALSE
  UncalledOps = FALSE
INVARIANT MismatchOnlyByPlainWrites NothingSentBeforeStart RunningCanTimeOut
PROPERTY CompletedOnlyIfAllAre FinishIsNoticed ImplementsContract
