SPECIFICATION FairSpec
CONSTANTS
  t1 = t1
  t2 = t2
  t3 = t3
  h1 = h1
  h2 = h2
  Tasks = {t1, t2, t3}
  Hosts = {h1, h2}
  Workers = {w1}
  HostIDs <- SharedHosts
  Priorities = {1}
  MaxConcurrentTasks = 3
  MaxTasksPerHost = 2
  QueueCapacity = 2
  ChanCap = 1
  MaxRetries = 1
  LeastBusy = TRUE
  Throttling = {TRUE, FALSE}
  Cancels = FALSE
  StatusQueries = TRUE
  LoadReports = FALSE
  IdleHosts = TRUE
  Shutdowns = FALSE
  MaxEnqueues = 3
  None = None
INVARIANT LoadIsExact
PROPERTY ServedUnlessHeldUp
CHECK_DEADLOCK FALSE
