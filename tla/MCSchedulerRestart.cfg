SPECIFICATION FairSpec
CONSTANTS
  Task <- TaskSet
  Resource <- ResourceSet
  Slot = {s1, s2}
  Claims <- ClaimsOf
  Key <- RestartKeys
  TaskOf <- RestartTaskOf
  Interruptible = {"jellyfin"}
  CoolsDown = {"jellyfin"}
  RetryRecovery <- RetryTasks
  KnownAtRecovery <- MainTasks
  Retried <- MainTasks
  MaxAttempts = 2
  FullScan = {"inventory", "files"}
  Periodic <- RestartPeriodic
  PeriodicKey <- RestartPeriodicKey
  Steps <- NoSteps
  Requests <- RestartRequests
  HistoryLimit = 2
  MaxSubmits = 3
  MaxTicks = 0
  MaxRevision = 0
  MaxStops = 1
  MaxFaults = 1
  MaxAge = 0
INVARIANTS
  TriggersAccounted
  AcceptedIsDurable
PROPERTIES
  OwedWorkSettles
CHECK_DEADLOCK FALSE
