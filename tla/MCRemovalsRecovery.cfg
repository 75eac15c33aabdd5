SPECIFICATION FairRemovals
CONSTANTS
  Task <- TaskSet
  Resource <- ResourceSet
  Slot = {s1, s2}
  Claims <- ClaimsOf
  Key <- KeySet
  TaskOf <- KeyTasks
  Interruptible = {}
  CoolsDown = {}
  RetryRecovery <- MaintenanceTasks
  KnownAtRecovery <- MaintenanceTasks
  Retried = {}
  MaxAttempts = 1
  FullScan <- MaintenanceTasks
  Periodic <- NoPeriodic
  PeriodicKey <- NoPeriodicKey
  Steps <- WorkflowSteps
  Requests <- NoRequests
  HistoryLimit = 1
  MaxSubmits = 4
  MaxTicks = 0
  MaxRevision = 6
  MaxStops = 1
  MaxFaults = 0
  MaxAge = 0
  RemovalTask = "removal"
  OperationKey <- Operations
  Browser = {b1}
  Planner = {}
  Token = {t1}
  Window = 1
  DryRunModes <- AnyMode
  MaxEdits = 1
INVARIANTS
  NeverReplayed
  VerdictsAgree
  MutationsReconciled
PROPERTIES
  VerdictsStay
  OperationsSettle
CHECK_DEADLOCK FALSE
