SPECIFICATION Spec
CONSTANTS
  Task <- TaskSet
  Resource <- ResourceSet
  Slot = {s1, s2}
  Claims <- ClaimsOf
  Key <- QueueKeys
  TaskOf <- QueueTaskOf
  Interruptible = {"jellyfin"}
  CoolsDown = {"jellyfin"}
  RetryRecovery <- RetryTasks
  KnownAtRecovery <- MainTasks
  Retried <- MainTasks
  MaxAttempts = 2
  FullScan = {"inventory", "files"}
  Periodic <- QueuePeriodic
  PeriodicKey <- QueuePeriodicKey
  Steps <- NoSteps
  Requests <- QueueRequests
  HistoryLimit = 2
  MaxSubmits = 3
  MaxTicks = 0
  MaxRevision = 0
  MaxStops = 0
  MaxFaults = 0
  MaxAge = 20
INVARIANTS
  TypeOK
  NoConflictingClaims
  NoMissedWake
  ObstaclesYield
PROPERTIES
  AdmissionOrder
  ImplementsArbiter
CHECK_DEADLOCK FALSE
