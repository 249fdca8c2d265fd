SPECIFICATION Spec
CONSTANTS
  Commands = {c1, c2}
  QueueCap = 2
  BatchSize = 2
  ResultKinds = {"started", "ok", "err1", "err2", "bare", "bareErr"}
  MaxResults = 2
  MaxFaults = 1
INVARIANT CodeMatchesStatus LastResultWinsUnlessDisturbed
PROPERTY EveryUpdateIsFlushed
CHECK_DEADLOCK FALSE
