SPECIFICATION RemovalsSpec
CONSTANTS
  Task <- TaskSet
  Resource <- ResourceSet
  Slot = {s1, s2}
  Claims <- ClaimsOf
  Key <- KeySet
  TaskOf <- KeyTasks
  Interruptible = {}
  CoolsDown = {}
  RetryRecovery <- MaintenanceTasks
  KnownAtRecovery <- MaintenanceTasks
  Retried = {}
  MaxAttempts = 1
  FullScan <- MaintenanceTasks
  Periodic <- NoPeriodic
  PeriodicKey <- NoPeriodicKey
  Steps <- WorkflowSteps
  Requests <- ManualFiles
  HistoryLimit = 1
  MaxSubmits = 3
  MaxTicks = 0
  MaxRevision = 6
  MaxStops = 0
  MaxFaults = 0
  MaxAge = 0
  RemovalTask = "removal"
  OperationKey <- Operations
  Browser = {}
  Planner = {p1}
  Token = {t1}
  Window = 1
  DryRunModes <- Live1
  MaxEdits = 0
INVARIANTS
  ScopeCovers
CHECK_DEADLOCK FALSE
