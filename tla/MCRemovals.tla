----------------------------- MODULE MCRemovals -----------------------------
(* Removals with the task definitions of cmd/stewarr/main.go and           *)
(* internal/httpui/server.go, instantiated for TLC.                        *)
EXTENDS Removals, TLC

TaskSet == {"inventory", "files", "removal"}
ResourceSet == {"owner-filesystem-mutation", "inventory-publication"}
ClaimsOf ==
  [task \in TaskSet |->
    CASE task = "inventory" -> {<<"owner-filesystem-mutation", "shared">>,
                                <<"inventory-publication", "exclusive">>}
      [] task = "files" -> {<<"owner-filesystem-mutation", "shared">>}
      [] task = "removal" -> {<<"owner-filesystem-mutation", "exclusive">>}]

TaskOfKey(keys) ==
  [k \in keys |-> IF k \in {"removal1", "removal2", "removal3"} THEN "removal" ELSE k]

Operations == <<"removal1", "removal2">>
KeySet == {"inventory", "files", "removal1", "removal2"}
KeyTasks == TaskOfKey(KeySet)

Operations3 == <<"removal1", "removal2", "removal3">>
KeySet3 == KeySet \cup {"removal3"}
KeyTasks3 == TaskOfKey(KeySet3)

WorkflowSteps == <<"inventory", "files">>
NoPeriodic == {}
NoPeriodicKey == [task \in {} |-> task]
MaintenanceTasks == {"inventory", "files"}

Live1 == {FALSE}
AnyMode == BOOLEAN
ManualFiles == {[key |-> "files", kind |-> "manual", priority |-> PriorityManual,
                 durable |-> TRUE, coverage |-> 0]}
NoRequests == {}

(* No definition tells browsers, or tokens, apart. *)
Symmetry == Permutations(Browser) \cup Permutations(Token)
=============================================================================
