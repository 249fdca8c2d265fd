SPECIFICATION Spec
CONSTANTS
  HoursPerDay = 3
  ZoneOffset = 1
  RetentionDays = 1
  Sizes = {1}
  DefaultSize = 2
  LargestSize = 2
  Phases = {"early", "late"}
  NoStats = NoStats
  MaxDays = 3
  MaxOps = 2
  MaxEvents = 2
  MaxFaults = 1
INVARIANT GoodNightCounts ExpiryCatchesUp NothingSkipped
CHECK_DEADLOCK FALSE
