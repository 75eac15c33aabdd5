----------------------------- MODULE MCScheduler -----------------------------
(* The scheduler with the task definitions of cmd/stewarr/main.go and      *)
(* internal/httpui/server.go, instantiated for TLC.                        *)
EXTENDS Scheduler

Shared(r) == <<r, "shared">>
Exclusive(r) == <<r, "exclusive">>

TaskSet == {"inventory", "jellyfin", "files", "removal", "auto-removal"}
ResourceSet == {"owner-filesystem-mutation", "inventory-publication"}
Maintenance == Shared("owner-filesystem-mutation")
Publication == Exclusive("inventory-publication")
ClaimsOf ==
  [task \in TaskSet |->
    CASE task \in {"inventory", "jellyfin"} -> {Maintenance, Publication}
      [] task = "files" -> {Maintenance}
      [] task = "removal" -> {Exclusive("owner-filesystem-mutation")}
      [] task = "auto-removal" -> {}]

RetryTasks == TaskSet \ {"removal"}
MainTasks == {"inventory", "jellyfin", "files"}

(* A removal's key is its operation; every other task has one key. *)
TaskOfKey(keys) ==
  [k \in keys |-> IF k \in {"removal1", "removal2"} THEN "removal" ELSE k]
SameKey(tasks) == [task \in tasks |-> task]

Manual(k) == [key |-> k, kind |-> "manual", priority |-> PriorityManual,
              durable |-> TRUE, coverage |-> 0]
Startup(k) == [key |-> k, kind |-> "startup", priority |-> PriorityManual,
               durable |-> FALSE, coverage |-> 0]
Mutation(k) == [key |-> k, kind |-> "event", priority |-> PriorityMutation,
                durable |-> TRUE, coverage |-> 0]

NoSteps == <<>>

(* Queueing, attaching, preemption and ageing. *)
QueueKeys == {"inventory", "files", "jellyfin", "removal1", "removal2"}
QueueTaskOf == TaskOfKey(QueueKeys)
QueueRequests == {Manual("jellyfin"), Startup("inventory"), Startup("files"),
                  Mutation("removal1"), Mutation("removal2")}
QueuePeriodic == {}
QueuePeriodicKey == SameKey(QueuePeriodic)

(* Crashes, shutdowns and failing saves. *)
RestartKeys == {"jellyfin", "removal1"}
RestartTaskOf == TaskOfKey(RestartKeys)
RestartRequests == {Manual("jellyfin"), Mutation("removal1")}
RestartPeriodic == {}
RestartPeriodicKey == SameKey(RestartPeriodic)

(* Periodic work and a workflow. *)
WorkflowKeys == {"inventory", "files", "removal1"}
WorkflowTaskOf == TaskOfKey(WorkflowKeys)
WorkflowRequests == {Manual("inventory"), Mutation("removal1")}
WorkflowPeriodic == {"inventory"}
WorkflowPeriodicKey == SameKey(WorkflowPeriodic)
WorkflowSteps == <<"inventory", "files">>

(* Work asked for at start-up and by hand, and a crash. *)
SurviveKeys == {"inventory", "jellyfin"}
SurviveTaskOf == TaskOfKey(SurviveKeys)
SurviveRequests == {Manual("inventory"), Startup("inventory"), Manual("jellyfin")}
SurvivePeriodic == {}
SurvivePeriodicKey == SameKey(SurvivePeriodic)
=============================================================================
