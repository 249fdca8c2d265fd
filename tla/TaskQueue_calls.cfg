SPECIFICATION Spec
CONSTANTS
  t1 = t1
  t2 = t2
  t3 = t3
  h1 = h1
  h2 = h2
  Tasks = {t1, t2}
  Hosts = {h1, h2}
  Workers = {w1, w2}
  HostIDs <- TwoTasks
  Priorities = {1, 2}
  MaxConcurrentTasks = 2
  MaxTasksPerHost = 1
  QueueCapacity = 1
  ChanCap = 1
  MaxRetries = 1
  LeastBusy = FALSE
  Throttling = {TRUE, FALSE}
  Cancels = TRUE
  StatusQueries = TRUE
  LoadReports = TRUE
  IdleHosts = TRUE
  Shutdowns = TRUE
  MaxEnqueues = 2
  None = None
INVARIANT RunningIsAssigned EntryInOnePlace NewTasksWithinCapacity
PROPERTY NothingLost OrderKept
CHECK_DEADLOCK FALSE
