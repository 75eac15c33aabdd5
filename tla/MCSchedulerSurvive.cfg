SPECIFICATION Spec
CONSTANTS
  Task <- TaskSet
  Resource <- ResourceSet
  Slot = {s1, s2}
  Claims <- ClaimsOf
  Key <- SurviveKeys
  TaskOf <- SurviveTaskOf
  Interruptible = {"jellyfin"}
  CoolsDown = {"jellyfin"}
  RetryRecovery <- RetryTasks
  KnownAtRecovery <- MainTasks
  Retried <- MainTasks
  MaxAttempts = 2
  FullScan = {"inventory", "files"}
  Periodic <- SurvivePeriodic
  PeriodicKey <- SurvivePeriodicKey
  Steps <- NoSteps
  Requests <- SurviveRequests
  HistoryLimit = 2
  MaxSubmits = 3
  MaxTicks = 0
  MaxRevision = 0
  MaxStops = 1
  MaxFaults = 0
  MaxAge = 0
INVARIANTS
  RestartSurvives
CHECK_DEADLOCK FALSE
