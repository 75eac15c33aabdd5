SPECIFICATION FairSpec
CONSTANTS
  Task <- TaskSet
  Resource <- ResourceSet
  Slot = {s1, s2}
  Claims <- ClaimsOf
  Key <- WorkflowKeys
  TaskOf <- WorkflowTaskOf
  Interruptible = {"jellyfin"}
  CoolsDown = {"jellyfin"}
  RetryRecovery <- RetryTasks
  KnownAtRecovery <- MainTasks
  Retried <- MainTasks
  MaxAttempts = 1
  FullScan = {"inventory", "files"}
  Periodic <- WorkflowPeriodic
  PeriodicKey <- WorkflowPeriodicKey
  Steps <- WorkflowSteps
  Requests <- WorkflowRequests
  HistoryLimit = 1
  MaxSubmits = 1
  MaxTicks = 1
  MaxRevision = 2
  MaxStops = 0
  MaxFaults = 0
  MaxAge = 0
INVARIANTS
  FullScanIsFull
  CoverageCaptured
  NoMissedWake
PROPERTIES
  OutcomeIsFinal
  WorkflowSettles
CHECK_DEADLOCK FALSE
