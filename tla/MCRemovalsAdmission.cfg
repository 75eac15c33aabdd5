SPECIFICATION RemovalsSpec
CONSTANTS
  Task <- TaskSet
  Resource <- ResourceSet
  Slot = {s1, s2}
  Claims <- ClaimsOf
  Key <- KeySet3
  TaskOf <- KeyTasks3
  Interruptible = {}
  CoolsDown = {}
  RetryRecovery <- MaintenanceTasks
  KnownAtRecovery <- MaintenanceTasks
  Retried = {}
  MaxAttempts = 1
  FullScan <- MaintenanceTasks
  Periodic <- NoPeriodic
  PeriodicKey <- NoPeriodicKey
  Steps <- WorkflowSteps
  Requests <- NoRequests
  HistoryLimit = 1
  MaxSubmits = 1
  MaxTicks = 0
  MaxRevision = 6
  MaxStops = 1
  MaxFaults = 1
  MaxAge = 0
  RemovalTask = "removal"
  OperationKey <- Operations3
  Browser = {b1, b2}
  Planner = {p1}
  Token = {t1}
  Window = 1
  DryRunModes <- Live1
  MaxEdits = 0
SYMMETRY Symmetry
INVARIANTS
  RemovalsTypeOK
  OneOperationPerToken
  RejectedNeverRuns
CHECK_DEADLOCK FALSE
