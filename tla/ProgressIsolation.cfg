SPECIFICATION PolledSpec
CONSTANTS
  c1 = c1
  c2 = c2
  CommandSeq <- TwoCommands
  Connections = {x1, x2}
  Idle = Idle
  MaxRequests = 3
  MaxRuns = 1
INVARIANT RowsAgree
PROPERTY ImplementsContract CancelKeepsResults StableEndIsStored
