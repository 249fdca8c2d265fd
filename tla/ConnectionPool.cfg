SPECIFICATION FairSpec
CONSTANTS
  Named = {a1}
  Agents <- WithEmptyId
  Streams = {s1, s2}
  Senders = {k1, k2}
  UncalledOps = TRUE
  EmptyId = NoId
  None = None
INVARIANT TypeOK PoolHoldsLiveHandlers
PROPERTY BrokenLeavesPool BrokenFailsCommands
CHECK_DEADLOCK FALSE
