------------------------------ MODULE Scheduler ------------------------------
(***************************************************************************)
(* The durable task scheduler, internal/tasks/manager.go.                  *)
(*                                                                         *)
(* One Manager owns triggers (requests that work become true), pending     *)
(* intents (one per task and coalescing key), running executions and the   *)
(* resources they hold, one workflow instance, and a copy of all that in   *)
(* SQLite.  Manager.mu serializes every handler: a handler is one action,  *)
(* except the scheduling pass of Start, whose phases are separate actions  *)
(* that run while `loop` is not "asleep" and so shut out every handler.    *)
(*                                                                         *)
(* Go maps are functions with a changing domain: a nil entry is an element *)
(* outside the domain, and reading it is the panic the code would suffer.  *)
(* Instants are kept only as what the code compares them for: a NotBefore  *)
(* that lies ahead is `delayed`, an execution that started at or after     *)
(* StepReadyAfter is `fresh`.  Time passes only between two passes.        *)
(***************************************************************************)
EXTENDS ResourceClaims, Naturals, Sequences, FiniteSets, Functions

CONSTANTS
  Key,              \* intentKey values: a task with one coalescing key
  TaskOf,           \* the task of a key
  Interruptible,    \* tasks with Definition.Interruptible
  CoolsDown,        \* tasks with a positive InterruptionDelay
  RetryRecovery,    \* tasks with Recovery = RecoveryRetry
  KnownAtRecovery,  \* tasks passed to NewPersistent (others Register later)
  Retried,          \* tasks with a RetryPolicy (MaxAttempts > 0)
  MaxAttempts,      \* RetryPolicy.MaxAttempts of those tasks
  FullScan,         \* tasks with AttachCompatible = fullScanAttachCompatible
  Periodic,         \* tasks with a positive Interval
  PeriodicKey,      \* the key of a task's periodic trigger
  Steps,            \* the workflow's steps, as keys
  Requests,         \* the requests clients submit
  HistoryLimit,     \* executions trimHistoryLocked keeps (500 in the code)
  \* Bounds of the model, not of the code:
  MaxSubmits, MaxTicks, MaxRevision, MaxStops, MaxFaults, MaxAge

Kind == {"startup", "periodic", "manual", "event", "workflow"}

PriorityPeriodic == 10
PriorityManual == 20
PriorityConsistency == 30
PriorityMutation == 40
PriorityConsistencyDeadline == 45
PriorityEmergency == 50
Priority == {PriorityPeriodic, PriorityManual, PriorityConsistency, PriorityMutation,
             PriorityConsistencyDeadline, PriorityEmergency}

Request == [key : Key, kind : Kind, priority : Priority, durable : BOOLEAN, coverage : Nat]

ASSUME SchedulerAssumption ==
  /\ TaskOf \in [Key -> Task]
  /\ PeriodicKey \in [Periodic -> Key]
  /\ Interruptible \subseteq Task /\ CoolsDown \subseteq Task /\ RetryRecovery \subseteq Task
  /\ Periodic \subseteq Task
  /\ Steps \in Seq(Key)
  /\ Requests \subseteq Request
  /\ MaxAttempts \in Nat \ {0}
  /\ HistoryLimit \in Nat

VARIABLES
  \* manager.state (persistedState)
  issued,      \* Sequence, counting triggers: their IDs are 1 .. issued
  triggers,    \* Triggers
  pending,     \* Pending
  execs,       \* the Executions that are running (or were, when read at restart)
  history,     \* the finished Executions, oldest first, as the sets of their triggers
  workflow,    \* Workflows: the one instance
  nextTick,    \* PeriodicNext, counted in intervals; 0 when not yet set
  \* the rest of the Manager
  resources,   \* resources
  wake,        \* a token is in the wake channel
  armed,       \* what the loop's timer was set for: delayed keys, "workflow"
  loop,        \* where the Start goroutine is
  grace,       \* stop() has cancelled the non-interruptible executions too
  \* the process and the world around it
  phase,       \* the life of the process
  ticks,       \* intervals that have elapsed, per periodic task
  disk,        \* scheduler.state.v1 in SQLite
  count        \* how much of each bound is used up

manager == <<issued, triggers, pending, execs, history, workflow, nextTick>>
vars == <<manager, resources, wake, armed, loop, grace, phase, ticks, disk, count>>

-----------------------------------------------------------------------------
(* Records. *)

TriggerState == {"pending", "waiting", "running", "attached",
                 "fulfilled", "failed", "cancelled", "interrupted", "attention"}
Terminal == {"fulfilled", "failed", "cancelled", "interrupted", "attention"}

Trigger == [key : Key, kind : Kind, priority : Priority, durable : BOOLEAN,
            coverage : Nat, state : TriggerState]
Intent == [triggers : SUBSET Nat, priority : Priority, coverage : Nat, attempt : 1 .. MaxAttempts,
           delayed : BOOLEAN, age : Nat, order : Nat]
Execution == [key : Key, triggers : SUBSET Nat, priority : Priority, coverage : Nat,
              attempt : 1 .. MaxAttempts, state : {"running", "cancelling"}, fresh : BOOLEAN,
              targeted : BOOLEAN]   \* ExecutionContext: triggered only by the workflow
Workflow == [state : {"absent", "pending", "running", "succeeded", "attention"},
             step : Nat, trigger : Nat, ready : BOOLEAN, overdue : BOOLEAN, revision : Nat]

EmptyMap == [x \in {} |-> x]
Put(f, x, v) == [y \in DOMAIN f \cup {x} |-> IF y = x THEN v ELSE f[y]]
Without(f, x) == Restrict(f, DOMAIN f \ {x})

Larger(a, b) == IF a > b THEN a ELSE b

NoWorkflow == [state |-> "absent", step |-> 0, trigger |-> 0, ready |-> FALSE,
               overdue |-> FALSE, revision |-> 0]
EmptyDisk == [issued |-> 0, triggers |-> EmptyMap, pending |-> EmptyMap, execs |-> EmptyMap,
              history |-> <<>>, workflow |-> NoWorkflow, nextTick |-> [t \in Periodic |-> 0]]

Alive == phase \in {"up", "stopping"}
Unlocked == Alive /\ loop \in {"asleep", "stopped"}
Active == IF Alive THEN DOMAIN execs ELSE {}

-----------------------------------------------------------------------------
(* persistLocked: what persistenceViewLocked keeps.  Ephemeral triggers    *)
(* are dropped, but an intent or an execution keeps all its trigger IDs.   *)

PersistenceView ==
  [issued   |-> issued,
   triggers |-> Restrict(triggers,
                  {t \in DOMAIN triggers : triggers[t].durable \/ triggers[t].state \in Terminal}),
   pending  |-> Restrict(pending,
                  {k \in DOMAIN pending :
                    \E t \in pending[k].triggers \cap DOMAIN triggers : triggers[t].durable}),
   execs    |-> execs,
   history  |-> history,
   workflow |-> workflow,
   nextTick |-> nextTick]

Persisted == disk' = PersistenceView' /\ UNCHANGED count
PersistFails ==
  /\ count.faults < MaxFaults
  /\ count' = [count EXCEPT !.faults = @ + 1]
  /\ UNCHANGED disk
(* Start, finishExecution and stop only log a failing SetMeta. *)
PersistOrLog == Persisted \/ PersistFails

-----------------------------------------------------------------------------
(* Submit *)

(* Mutation: a full scan may attach to a targeted one. *)
AttachCompatibleAlways(task, active, requested) == TRUE

(* fullScanAttachCompatible of main.go; nil for the other tasks. *)
AttachCompatible(task, active, requested) ==
  \/ task \notin FullScan
  \/ requested = "workflow"
  \/ \E kind \in active : kind # "workflow"

KindsOf(ids) == {triggers[t].kind : t \in ids \cap DOMAIN triggers}

(* Mutation: attach without comparing coverage. *)
AttachableWhateverCoverage(r) ==
  {s \in DOMAIN execs :
    execs[s].key = r.key /\ AttachCompatible(TaskOf[r.key], KindsOf(execs[s].triggers), r.kind)}

Attachable(r) ==
  {s \in DOMAIN execs :
    /\ execs[s].key = r.key
    /\ execs[s].coverage >= r.coverage
    /\ AttachCompatible(TaskOf[r.key], KindsOf(execs[s].triggers), r.kind)}

NewTrigger(r, state) ==
  [key |-> r.key, kind |-> r.kind, priority |-> r.priority, durable |-> r.durable,
   coverage |-> r.coverage, state |-> state]

(* CreatedAt, then the ID: a new intent comes after every other.  What is  *)
(* not saved may leave a gap in the order of what is.                       *)
LastOrder ==
  LET orders == {0} \cup {pending[k].order : k \in DOMAIN pending}
  IN CHOOSE last \in orders : \A n \in orders : n <= last

NewIntent(priority, coverage, attempt, delayed) ==
  [triggers |-> {}, priority |-> priority, coverage |-> coverage, attempt |-> attempt,
   delayed |-> delayed, age |-> 0, order |-> LastOrder + 1]

Coalesce(intent, t, r) ==
  [intent EXCEPT !.triggers = @ \cup {t},
                 !.priority = Larger(@, r.priority),
                 !.coverage = Larger(@, r.coverage)]

(* Mutation: a new trigger without a new sequence number or coalescing. *)
SubmitLockedReusingIDs(r) ==
  /\ UNCHANGED <<issued, execs>>
  /\ triggers' = Put(triggers, issued + 1, NewTrigger(r, "pending"))
  /\ pending' = Put(pending, r.key, Coalesce(NewIntent(r.priority, r.coverage, 1, FALSE), issued + 1, r))

(* submitLocked: attach to a running execution, else join the pending      *)
(* intent of the key, else become a new intent.                            *)
SubmitLocked(r) ==
  LET t == issued + 1 IN
  /\ issued' = t
  /\ \/ \E s \in Attachable(r) :
          /\ execs' = [execs EXCEPT ![s].triggers = @ \cup {t}]
          /\ triggers' = Put(triggers, t, NewTrigger(r, "attached"))
          /\ UNCHANGED pending
     \/ /\ Attachable(r) = {}
        /\ triggers' = Put(triggers, t, NewTrigger(r, "pending"))
        /\ LET intent == IF r.key \in DOMAIN pending THEN pending[r.key]
                         ELSE NewIntent(r.priority, r.coverage, 1, FALSE)
           IN pending' = Put(pending, r.key, Coalesce(intent, t, r))
        /\ UNCHANGED execs

(* Mutation: a failing save leaves the new trigger in memory. *)
SubmitWithoutRollback(r) ==
  /\ Unlocked /\ count.submits < MaxSubmits
  /\ SubmitLocked(r) /\ wake' = TRUE
  /\ UNCHANGED <<history, workflow, nextTick, resources, armed, loop, grace, phase, ticks>>
  /\ \/ disk' = PersistenceView' /\ count' = [count EXCEPT !.submits = @ + 1]
     \/ PersistFails

(* Submit: accepted only once it is on disk; a failing save restores the   *)
(* copied state and the caller gets an error.                              *)
Submit(r) ==
  /\ Unlocked
  /\ count.submits < MaxSubmits
  /\ \/ /\ SubmitLocked(r)
        /\ UNCHANGED <<history, workflow, nextTick>>
        /\ disk' = PersistenceView'
        /\ wake' = TRUE
        /\ count' = [count EXCEPT !.submits = @ + 1]
     \/ PersistFails /\ UNCHANGED <<manager, wake>>
  /\ UNCHANGED <<resources, armed, loop, grace, phase, ticks>>

-----------------------------------------------------------------------------
(* The scheduling pass of Start *)

StartPass ==
  /\ Alive /\ loop = "asleep"
  /\ wake
  /\ wake' = FALSE
  /\ loop' = "create"
  /\ UNCHANGED <<manager, resources, armed, grace, phase, ticks, disk, count>>

Due == {task \in Periodic : nextTick[task] <= ticks[task]}

(* createPeriodicTriggersLocked: one catch-up trigger however many         *)
(* intervals have passed; the missed tick is the coverage it requires.     *)
CreatePeriodicTrigger(task) ==
  /\ loop = "create"
  /\ task \in Due
  /\ SubmitLocked([key |-> PeriodicKey[task], kind |-> "periodic", priority |-> PriorityPeriodic,
                   durable |-> FALSE, coverage |-> nextTick[task]])
  /\ nextTick' = [nextTick EXCEPT ![task] = ticks[task] + 1]
  /\ UNCHANGED <<history, workflow, resources, wake, armed, loop, grace, phase, ticks, disk, count>>

Live(t) == t \in DOMAIN triggers /\ triggers[t].state \notin Terminal

WorkflowDue ==
  /\ workflow.state \in {"pending", "running"}
  /\ workflow.step < Len(Steps)
  /\ ~Live(workflow.trigger)
  /\ workflow.step > 0 \/ workflow.ready \/ workflow.overdue

(* createWorkflowTriggersLocked *)
CreateWorkflowTrigger ==
  /\ loop = "create" /\ Due = {}
  /\ WorkflowDue
  /\ SubmitLocked([key |-> Steps[workflow.step + 1], kind |-> "workflow",
                   priority |-> IF workflow.overdue THEN PriorityConsistencyDeadline
                                ELSE PriorityConsistency,
                   durable |-> TRUE, coverage |-> 0])
  /\ workflow' = [workflow EXCEPT !.trigger = issued', !.state = "running"]
  /\ UNCHANGED <<history, nextTick, resources, wake, armed, loop, grace, phase, ticks, disk, count>>

(* Mutation: > instead of >= at the mutation class. *)
YieldsToEmergencies(s) ==
  /\ TaskOf[execs[s].key] \in Interruptible
  /\ \E k \in DOMAIN pending :
       /\ pending[k].priority > PriorityMutation
       /\ ClaimsConflict(TaskOf[k], TaskOf[execs[s].key])

Yields(s) ==
  /\ TaskOf[execs[s].key] \in Interruptible
  /\ \E k \in DOMAIN pending :
       /\ pending[k].priority >= PriorityMutation
       /\ pending[k].priority > execs[s].priority
       /\ ClaimsConflict(TaskOf[k], TaskOf[execs[s].key])

(* Mutation: cancelling gives the resources back at once. *)
PreemptReleasing ==
  /\ loop = "create" /\ Due = {} /\ ~WorkflowDue
  /\ execs' = [s \in DOMAIN execs |->
                IF Yields(s) THEN [execs[s] EXCEPT !.state = "cancelling"] ELSE execs[s]]
  /\ resources' = [r \in Resource |->
                    [shared |-> {s \in resources[r].shared : ~Yields(s)},
                     exclusive |-> {s \in resources[r].exclusive : ~Yields(s)}]]
  /\ loop' = "admit"
  /\ UNCHANGED <<issued, triggers, pending, history, workflow, nextTick,
                 wake, armed, grace, phase, ticks, disk, count>>

(* preemptForPriorityLocked: cancels the contexts, releases nothing. *)
Preempt ==
  /\ loop = "create" /\ Due = {} /\ ~WorkflowDue
  /\ execs' = [s \in DOMAIN execs |->
                IF Yields(s) THEN [execs[s] EXCEPT !.state = "cancelling"] ELSE execs[s]]
  /\ loop' = "admit"
  /\ UNCHANGED <<issued, triggers, pending, history, workflow, nextTick,
                 resources, wake, armed, grace, phase, ticks, disk, count>>

(* Mutation: ageing without the cap. *)
EffectivePriorityUncapped(intent) == intent.priority + intent.age

(* effectivePriority: a minute of waiting is worth one, up to the class    *)
(* below mutations.                                                        *)
EffectivePriority(intent) ==
  IF intent.priority >= PriorityMutation THEN intent.priority
  ELSE IF intent.priority + intent.age >= PriorityMutation THEN PriorityMutation - 1
  ELSE intent.priority + intent.age

Before(j, k) ==
  LET first == EffectivePriority(pending[j])
      second == EffectivePriority(pending[k])
  IN first > second \/ (first = second /\ pending[j].order < pending[k].order)

Ready(k) == k \in DOMAIN pending /\ ~pending[k].delayed
Admissible(k) == Ready(k) /\ ~ResourceConflict(resources, TaskOf[k])

Dangling(ids) == ids \ DOMAIN triggers

Dequeue(k) ==
  [j \in DOMAIN pending \ {k} |->
    IF pending[j].order > pending[k].order THEN [pending[j] EXCEPT !.order = @ - 1]
    ELSE pending[j]]

Marked(ids, state) ==
  [t \in DOMAIN triggers |->
    IF t \in ids THEN [triggers[t] EXCEPT !.state = state] ELSE triggers[t]]

Forget ==
  /\ issued' = 0 /\ triggers' = EmptyMap /\ pending' = EmptyMap /\ execs' = EmptyMap
  /\ history' = <<>> /\ workflow' = NoWorkflow /\ nextTick' = [t \in Periodic |-> 0]
  /\ resources' = AllFree /\ wake' = FALSE /\ armed' = {} /\ loop' = "asleep" /\ grace' = FALSE

(* A nil dereference in the scheduler goroutine or in newManager kills the *)
(* process.                                                                *)
Panics ==
  /\ phase' = "panicked"
  /\ Forget
  /\ UNCHANGED <<ticks, disk, count>>

(* An execution gets a fresh ID; here, the first slot nobody uses.  Slot   *)
(* has to be large enough for the executions the claims allow at once.     *)
FreeSlots == Slot \ DOMAIN execs
NewSlot == CHOOSE s \in FreeSlots : TRUE

(* One round of admitReadyLocked: the intent nextReadyIntentLocked returns *)
(* becomes an execution that holds its resources.                          *)
Admit(k) ==
  /\ loop = "admit"
  /\ Admissible(k)
  /\ \A j \in DOMAIN pending \ {k} : Admissible(j) => Before(k, j)
  /\ IF Dangling(pending[k].triggers) # {} THEN Panics
     ELSE /\ FreeSlots # {}
          /\ execs' = Put(execs, NewSlot,
               [key |-> k, triggers |-> pending[k].triggers, priority |-> pending[k].priority,
                coverage |-> pending[k].coverage, attempt |-> pending[k].attempt,
                state |-> "running", fresh |-> TRUE,
                targeted |-> KindsOf(pending[k].triggers) = {"workflow"}])
          /\ resources' = AcquireResources(resources, NewSlot, TaskOf[k])
          /\ pending' = Dequeue(k)
          /\ triggers' = Marked(pending[k].triggers, "running")
          /\ UNCHANGED <<issued, history, workflow, nextTick, wake, armed, loop, grace, phase,
                         ticks, disk, count>>

(* Mutation: the timer ignores NotBefore. *)
ArmedWithoutDelays == IF workflow.state = "pending" THEN {"workflow"} ELSE {}
(* Mutation: the timer ignores the workflow. *)
ArmedWithoutWorkflow == {k \in DOMAIN pending : pending[k].delayed}
(* What nextWakeDelayLocked sets the timer for, besides the next interval. *)
Armed ==
  {k \in DOMAIN pending : pending[k].delayed}
    \cup (IF workflow.state \in {"pending", "running"} /\ workflow.trigger = 0
          THEN {"workflow"} ELSE {})

(* nextReadyIntentLocked finds nothing more to admit and has marked what   *)
(* is blocked; nextWakeDelayLocked sets the timer; the state is saved.     *)
EndPass ==
  /\ loop = "admit"
  /\ \A k \in Key : ~Admissible(k)
  /\ LET blocked == UNION {pending[k].triggers : k \in {j \in Key : Ready(j)}} IN
     IF Dangling(blocked) # {} THEN Panics
     ELSE /\ triggers' = Marked(blocked, "waiting")
          /\ armed' = Armed
          /\ loop' = "asleep"
          /\ UNCHANGED <<issued, pending, execs, history, workflow, nextTick,
                         resources, wake, grace, phase, ticks>>
          /\ PersistOrLog

-----------------------------------------------------------------------------
(* finishExecution *)

(* requeueExecutionLocked: the intent of the key after execution e is      *)
(* merged into it; `delay` is a positive InterruptionDelay or backoff.     *)
NextAttempt(e) == IF e.attempt < MaxAttempts THEN e.attempt + 1 ELSE e.attempt

Requeued(e, delay) ==
  LET intent == IF e.key \in DOMAIN pending THEN pending[e.key]
                ELSE NewIntent(e.priority, e.coverage, NextAttempt(e), FALSE)
  IN Put(pending, e.key,
       [intent EXCEPT !.triggers = @ \cup e.triggers,
                      !.priority = Larger(@, e.priority),
                      !.coverage = Larger(@, e.coverage),
                      !.attempt  = Larger(@, NextAttempt(e)),
                      !.delayed  = @ \/ delay])

(* The end of every finishExecution: the runner has returned, its          *)
(* resources are free, the history is trimmed and saved, the loop woken.   *)
(* `trg` and `others` are the triggers and the executions left by then.    *)
Finished(s, trg, others) ==
  LET done    == Append(history, execs[s].triggers)
      excess  == IF Len(done) + Cardinality(DOMAIN others) > HistoryLimit
                 THEN Len(done) + Cardinality(DOMAIN others) - HistoryLimit ELSE 0
      dropped == IF excess > Len(done) THEN Len(done) ELSE excess
      trimmed == UNION {done[i] : i \in 1 .. dropped}
  IN /\ triggers' = Restrict(trg, {t \in DOMAIN trg :
                                    ~(t \in trimmed /\ trg[t].state \in Terminal)})
     /\ history' = SubSeq(done, dropped + 1, Len(done))
     /\ execs' = others
     /\ resources' = ReleaseResources(resources, s, TaskOf[execs[s].key])
     /\ wake' = TRUE
     /\ UNCHANGED <<issued, nextTick, armed, loop, grace, phase, ticks>>
     /\ PersistOrLog

(* Whose context was cancelled: a preempted execution, and at shutdown the *)
(* interruptible ones first, the others when the grace period is over.     *)
Cancelled(s) ==
  \/ execs[s].state = "cancelling"
  \/ phase = "stopping" /\ (TaskOf[execs[s].key] \in Interruptible \/ grace)

Exhausted(e) == TaskOf[e.key] \notin Retried \/ e.attempt >= MaxAttempts

(* The runner returned context.Canceled, or a retryable error with         *)
(* attempts left: the work goes back to the queue.                         *)
FinishRequeued(s, outcome) ==
  LET e == execs[s] IN
  /\ Unlocked /\ s \in DOMAIN execs
  /\ \/ outcome = "canceled" /\ Cancelled(s) /\ TaskOf[e.key] \in RetryRecovery
     \/ outcome = "retryable" /\ ~Exhausted(e)
  /\ pending' = Requeued(e, outcome = "retryable" \/ TaskOf[e.key] \in CoolsDown)
  /\ UNCHANGED workflow
  /\ Finished(s, Marked(e.triggers, "pending"), Without(execs, s))

(* Mutation: interrupted triggers keep their state. *)
FinishInterruptedUnmarked(s) ==
  /\ Unlocked /\ s \in DOMAIN execs
  /\ Cancelled(s) /\ TaskOf[execs[s].key] \notin RetryRecovery
  /\ UNCHANGED <<pending, workflow>>
  /\ Finished(s, triggers, Without(execs, s))

(* Interrupted work that must not simply be run again. *)
FinishInterrupted(s) ==
  /\ Unlocked /\ s \in DOMAIN execs
  /\ Cancelled(s) /\ TaskOf[execs[s].key] \notin RetryRecovery
  /\ UNCHANGED <<pending, workflow>>
  /\ Finished(s, Marked(execs[s].triggers, "attention"), Without(execs, s))

(* A permanent error, a panic of the runner, or the last attempt.  A       *)
(* workflow whose trigger failed stops and asks for attention.             *)
FinishFailed(s, outcome) ==
  LET e == execs[s] IN
  /\ Unlocked /\ s \in DOMAIN execs
  /\ outcome = "permanent" \/ (outcome = "retryable" /\ Exhausted(e))
  /\ workflow' = IF "workflow" \in KindsOf(e.triggers)
                 THEN [workflow EXCEPT !.state = "attention", !.trigger = 0]
                 ELSE workflow
  /\ UNCHANGED pending
  /\ Finished(s, Marked(e.triggers, "failed"), Without(execs, s))

(* cancelWorkflowTriggerLocked: a trigger that no execution has taken yet  *)
(* leaves its intent, and an intent without triggers is deleted.           *)
Withdrawn(t) == t \in DOMAIN triggers /\ triggers[t].state \in {"pending", "waiting"}

(* Mutation: a cancelled trigger stays in its intent. *)
PendingStill(t) == pending

PendingWithout(t) ==
  LET k == triggers[t].key IN
  IF ~Withdrawn(t) \/ k \notin DOMAIN pending THEN pending
  ELSE IF pending[k].triggers \ {t} = {} THEN Dequeue(k)
  ELSE [pending EXCEPT ![k].triggers = @ \ {t}]

TriggersWithdrawing(trg, t) ==
  IF Withdrawn(t) THEN [trg EXCEPT ![t].state = "cancelled"] ELSE trg

NoneFresh(es) == [s \in DOMAIN es |-> [es[s] EXCEPT !.fresh = FALSE]]

(* satisfyWorkflowsLocked: does e satisfy the current step? *)
Satisfies(e) ==
  /\ workflow.state \notin {"absent", "succeeded"}
  /\ workflow.step < Len(Steps)
  /\ TaskOf[Steps[workflow.step + 1]] = TaskOf[e.key]
  /\ e.fresh

(* The runner succeeded (a degraded result counts): every trigger is       *)
(* fulfilled, and the step of the workflow this execution is good for.     *)
FinishSucceeded(s) ==
  LET e == execs[s]
      fulfilled == Marked(e.triggers, "fulfilled")
  IN
  /\ Unlocked /\ s \in DOMAIN execs
  /\ IF Satisfies(e)
     THEN /\ workflow' = [workflow EXCEPT
               !.step = @ + 1, !.trigger = 0,
               !.state = IF workflow.step + 1 >= Len(Steps) THEN "succeeded" ELSE "pending"]
          /\ pending' = PendingWithout(workflow.trigger)
          /\ Finished(s, TriggersWithdrawing(fulfilled, workflow.trigger),
                      NoneFresh(Without(execs, s)))
     ELSE /\ UNCHANGED <<workflow, pending>>
          /\ Finished(s, fulfilled, Without(execs, s))

Finish(s) ==
  \/ \E outcome \in {"canceled", "retryable"} : FinishRequeued(s, outcome)
  \/ FinishInterrupted(s)
  \/ \E outcome \in {"permanent", "retryable"} : FinishFailed(s, outcome)
  \/ FinishSucceeded(s)

-----------------------------------------------------------------------------
(* AdvanceWorkflow: something the workflow must catch up with happened.    *)
(* `quiet` is a positive quiet period.  The deadline of an unsatisfied     *)
(* revision is kept.                                                       *)
AdvanceWorkflow(quiet) ==
  /\ Unlocked
  /\ workflow.revision < MaxRevision
  /\ \/ /\ workflow' = [state |-> "pending", step |-> 0, trigger |-> 0, ready |-> ~quiet,
                        overdue |-> workflow.overdue /\ workflow.state \in {"pending", "running"},
                        revision |-> workflow.revision + 1]
        /\ pending' = PendingWithout(workflow.trigger)
        /\ triggers' = TriggersWithdrawing(triggers, workflow.trigger)
        /\ execs' = NoneFresh(execs)
        /\ UNCHANGED <<issued, history, nextTick, count>>
        /\ disk' = PersistenceView'
        /\ wake' = TRUE
     \/ PersistFails /\ UNCHANGED <<manager, wake>>
  /\ UNCHANGED <<resources, armed, loop, grace, phase, ticks>>

-----------------------------------------------------------------------------
(* Time.  A deadline that was ahead is now past, in memory and in the      *)
(* stored copy alike; the timer fires if nextWakeDelayLocked set it.       *)

Elapsed(map, k) ==
  [j \in DOMAIN map |-> IF j = k THEN [map[j] EXCEPT !.delayed = FALSE] ELSE map[j]]

DelayElapses(k) ==
  /\ Unlocked
  /\ k \in DOMAIN pending /\ pending[k].delayed
  /\ pending' = Elapsed(pending, k)
  /\ disk' = [disk EXCEPT !.pending = Elapsed(@, k)]
  /\ wake' = (wake \/ k \in armed)
  /\ UNCHANGED <<issued, triggers, execs, history, workflow, nextTick,
                 resources, armed, loop, grace, phase, ticks, count>>

WorkflowTimePasses(ready, overdue) ==
  /\ Unlocked
  /\ workflow.state \in {"pending", "running"}
  /\ workflow' = [workflow EXCEPT !.ready = @ \/ ready, !.overdue = @ \/ overdue]
  /\ workflow' # workflow
  /\ disk' = [disk EXCEPT !.workflow.ready = @ \/ ready, !.workflow.overdue = @ \/ overdue]
  /\ wake' = (wake \/ "workflow" \in armed)
  /\ UNCHANGED <<issued, triggers, pending, execs, history, nextTick,
                 resources, armed, loop, grace, phase, ticks, count>>
QuietPeriodElapses == WorkflowTimePasses(TRUE, FALSE)
DeadlinePasses == WorkflowTimePasses(FALSE, TRUE)

(* Waiting ages an intent: twenty minutes at a time, so that one step       *)
(* takes a periodic intent past a manual one and a manual one to the cap.   *)
(* Its age is counted from CreatedAt, which is saved with it.               *)
Aged(map, k) ==
  [j \in DOMAIN map |-> IF j = k THEN [map[j] EXCEPT !.age = @ + 20] ELSE map[j]]

Age(k) ==
  /\ Unlocked
  /\ k \in DOMAIN pending /\ pending[k].age + 20 <= MaxAge
  /\ pending' = Aged(pending, k)
  /\ disk' = [disk EXCEPT !.pending = Aged(@, k)]
  /\ UNCHANGED <<issued, triggers, execs, history, workflow, nextTick,
                 resources, wake, armed, loop, grace, phase, ticks, count>>

(* An interval ends, also while the process is down.  Every pass includes  *)
(* PeriodicNext in the timer.                                              *)
Tick(task) ==
  /\ Unlocked \/ phase = "down"
  /\ ticks[task] < MaxTicks
  /\ ticks' = [ticks EXCEPT ![task] = @ + 1]
  /\ wake' = (wake \/ Alive)
  /\ UNCHANGED <<manager, resources, armed, loop, grace, phase, disk, count>>

-----------------------------------------------------------------------------
(* The process *)

(* newManager reads the saved state and registers the definitions. *)
Restart ==
  /\ phase \in {"down", "panicked"}
  /\ issued' = disk.issued /\ triggers' = disk.triggers /\ pending' = disk.pending
  /\ execs' = disk.execs /\ history' = disk.history /\ workflow' = disk.workflow
  /\ nextTick' = [t \in Periodic |->
                    IF disk.nextTick[t] = 0 THEN ticks[t] + 1 ELSE disk.nextTick[t]]
  /\ phase' = "recovering"
  /\ UNCHANGED <<resources, wake, armed, loop, grace, ticks, disk, count>>

(* One round of recoverInterruptedLocked, in map order: any execution. *)
RecoverInterrupted(s) ==
  LET e == execs[s]
      kept == e.triggers \cap DOMAIN triggers
      retried == /\ TaskOf[e.key] \in RetryRecovery \cap KnownAtRecovery
                 /\ \E t \in kept : triggers[t].durable
  IN
  /\ phase = "recovering" /\ s \in DOMAIN execs
  /\ IF retried /\ Dangling(e.triggers) # {} THEN Panics
     ELSE /\ execs' = Without(execs, s)
          /\ history' = Append(history, e.triggers)
          /\ IF retried
             THEN /\ pending' = Requeued(e, FALSE)
                  /\ triggers' = Marked(e.triggers, "pending")
             ELSE /\ UNCHANGED pending
                  /\ triggers' = [t \in DOMAIN triggers |->
                       IF t \notin e.triggers THEN triggers[t]
                       ELSE [triggers[t] EXCEPT !.state =
                               IF triggers[t].durable THEN "attention" ELSE "interrupted"]]
          /\ UNCHANGED <<issued, workflow, nextTick, resources, wake, armed, loop, grace, phase,
                         ticks, disk, count>>

(* Mutation: recovery does not wake the loop. *)
RecoveryDoneAsleep ==
  /\ phase = "recovering" /\ execs = EmptyMap
  /\ phase' = "up"
  /\ UNCHANGED <<manager, resources, wake, armed, loop, grace, ticks>>
  /\ Persisted

(* The recovered state is saved before anything runs; if it cannot be,     *)
(* start-up fails and the process exits.                                   *)
RecoveryDone ==
  /\ phase = "recovering" /\ execs = EmptyMap
  /\ \/ /\ UNCHANGED <<manager, resources, armed, loop, grace>>
        /\ Persisted
        /\ phase' = "up"
        /\ wake' = TRUE
     \/ /\ PersistFails
        /\ phase' = "down"
        /\ Forget
  /\ UNCHANGED ticks

Crash ==
  /\ phase \in {"recovering", "up", "stopping"}
  /\ count.stops < MaxStops
  /\ count' = [count EXCEPT !.stops = @ + 1]
  /\ phase' = "down"
  /\ Forget
  /\ UNCHANGED <<ticks, disk>>

(* The application context is cancelled.  Start's select may still take a  *)
(* wake token before it sees that. *)
Shutdown ==
  /\ phase = "up" /\ Unlocked
  /\ count.stops < MaxStops
  /\ count' = [count EXCEPT !.stops = @ + 1]
  /\ phase' = "stopping"
  /\ UNCHANGED <<manager, resources, wake, armed, loop, grace, ticks, disk>>

StopLoop ==
  /\ phase = "stopping" /\ loop = "asleep"
  /\ loop' = "stopped"
  /\ UNCHANGED <<manager, resources, wake, armed, grace, phase, ticks, disk, count>>

GraceExpires ==
  /\ phase = "stopping" /\ loop = "stopped"
  /\ ~grace /\ execs # EmptyMap
  /\ grace' = TRUE
  /\ UNCHANGED <<manager, resources, wake, armed, loop, phase, ticks, disk, count>>

(* stop() returns when nothing runs any more, and the process exits. *)
Stopped ==
  /\ phase = "stopping" /\ loop = "stopped" /\ execs = EmptyMap
  /\ \/ disk' = PersistenceView /\ UNCHANGED count
     \/ PersistFails
  /\ phase' = "down"
  /\ Forget
  /\ UNCHANGED ticks

-----------------------------------------------------------------------------
Init ==
  /\ phase = "down"
  /\ disk = EmptyDisk
  /\ ticks = [t \in Periodic |-> 0]
  /\ count = [submits |-> 0, faults |-> 0, stops |-> 0]
  /\ issued = 0 /\ triggers = EmptyMap /\ pending = EmptyMap /\ execs = EmptyMap
  /\ history = <<>> /\ workflow = NoWorkflow /\ nextTick = [t \in Periodic |-> 0]
  /\ resources = AllFree /\ wake = FALSE /\ armed = {} /\ loop = "asleep" /\ grace = FALSE

Pass ==
  \/ StartPass
  \/ \E task \in Periodic : CreatePeriodicTrigger(task)
  \/ CreateWorkflowTrigger
  \/ Preempt
  \/ \E k \in Key : Admit(k)
  \/ EndPass

Recovery == (\E s \in Slot : RecoverInterrupted(s)) \/ RecoveryDone

TimePasses ==
  \/ \E k \in Key : DelayElapses(k) \/ Age(k)
  \/ QuietPeriodElapses \/ DeadlinePasses
  \/ \E task \in Periodic : Tick(task)

Client ==
  \/ \E r \in Requests : Submit(r)
  \/ \E quiet \in BOOLEAN : AdvanceWorkflow(quiet)

Process == Restart \/ Crash \/ Shutdown \/ StopLoop \/ GraceExpires \/ Stopped

Next ==
  \/ Pass
  \/ \E s \in Slot : Finish(s)
  \/ Recovery
  \/ TimePasses
  \/ Client
  \/ Process

Spec == Init /\ [][Next]_vars

(* The loop goroutine runs whenever it is not blocked, every runner        *)
(* returns (also when cancelled), delays and quiet periods end, and a      *)
(* supervisor restarts a process that died.  Clients, intervals, crashes   *)
(* and shutdowns are not obliged to happen.  A select with several ready   *)
(* cases picks one at random, so ctx.Done is not passed over for ever:     *)
(* strong fairness of StopLoop.                                            *)
Fairness ==
  /\ WF_vars(Pass)
  /\ \A s \in Slot : WF_vars(Finish(s))
  /\ \A k \in Key : WF_vars(DelayElapses(k))
  /\ WF_vars(QuietPeriodElapses)
  /\ WF_vars(Recovery)
  /\ WF_vars(Restart) /\ WF_vars(GraceExpires) /\ WF_vars(Stopped)
  /\ SF_vars(StopLoop)

FairSpec == Spec /\ Fairness

-----------------------------------------------------------------------------
(* Properties *)

(* The shape of every variable, and of the copy on disk. *)
TriggersOK(trg, last) == DOMAIN trg \subseteq 1 .. last /\ trg \in [DOMAIN trg -> Trigger]
PendingOK(map) == DOMAIN map \subseteq Key /\ IsFiniteSet(DOMAIN map) /\ map \in [DOMAIN map -> Intent]
ExecsOK(map) == DOMAIN map \subseteq Slot /\ IsFiniteSet(DOMAIN map) /\ map \in [DOMAIN map -> Execution]
WorkflowOK(w) == w \in Workflow /\ w.step <= Len(Steps)

SavedOK(saved) ==
  /\ DOMAIN saved = {"issued", "triggers", "pending", "execs", "history", "workflow", "nextTick"}
  /\ saved.issued \in Nat /\ TriggersOK(saved.triggers, saved.issued)
  /\ PendingOK(saved.pending) /\ ExecsOK(saved.execs)
  /\ saved.history \in Seq(SUBSET Nat) /\ WorkflowOK(saved.workflow)
  /\ saved.nextTick \in [Periodic -> Nat]

TypeOK ==
  /\ issued \in Nat /\ TriggersOK(triggers, issued)
  /\ PendingOK(pending) /\ ExecsOK(execs)
  /\ history \in Seq(SUBSET Nat) /\ WorkflowOK(workflow)
  /\ nextTick \in [Periodic -> Nat] /\ ticks \in [Periodic -> Nat]
  /\ resources \in [Resource -> Use]
  /\ wake \in BOOLEAN /\ grace \in BOOLEAN
  /\ armed \subseteq Key \cup {"workflow"}
  /\ loop \in {"asleep", "create", "admit", "stopped"}
  /\ phase \in {"down", "recovering", "up", "stopping", "panicked"}
  /\ SavedOK(disk)
  /\ count \in [submits : Nat, faults : Nat, stops : Nat]

(* Two executions with conflicting claims never overlap: from admission     *)
(* until the runner has returned, whatever was cancelled meanwhile.         *)
NoConflictingClaims ==
  \A s, u \in Active :
    s # u => ~ClaimsConflict(TaskOf[execs[s].key], TaskOf[execs[u].key])

(* Every trigger that is not settled is held by exactly one intent of its   *)
(* key or by exactly one execution of its key, as its state says: nothing   *)
(* accepted is dropped by coalescing, preemption, retry, withdrawal,        *)
(* trimming or restart.                                                     *)
Queued(t) == {k \in DOMAIN pending : t \in pending[k].triggers}
Served(t) == {s \in DOMAIN execs : t \in execs[s].triggers}
TriggersAccounted ==
  Alive =>
  \A t \in DOMAIN triggers :
    CASE triggers[t].state \in {"pending", "waiting"} ->
           Queued(t) = {triggers[t].key} /\ Served(t) = {}
      [] triggers[t].state \in {"running", "attached"} ->
           /\ Queued(t) = {}
           /\ \E s \in DOMAIN execs : Served(t) = {s} /\ execs[s].key = triggers[t].key
      [] OTHER -> Queued(t) = {} /\ Served(t) = {}

(* An execution never serves a trigger that requires facts newer than the   *)
(* coverage captured when it was admitted, also after requeues.             *)
CoverageCaptured ==
  /\ \A s \in DOMAIN execs : \A t \in execs[s].triggers \cap DOMAIN triggers :
       triggers[t].coverage <= execs[s].coverage
  /\ \A k \in DOMAIN pending : \A t \in pending[k].triggers \cap DOMAIN triggers :
       triggers[t].coverage <= pending[k].coverage

(* A runner that was admitted for the workflow alone reconciles only what   *)
(* the removal touched (TriggeredOnlyBy in main.go).  It never settles a    *)
(* request for the full scan, however the request came to attach.           *)
FullScanIsFull ==
  \A s \in DOMAIN execs :
    TaskOf[execs[s].key] \in FullScan /\ execs[s].targeted
      => KindsOf(execs[s].triggers) \subseteq {"workflow"}

(* While the loop sleeps with no wake token, there is nothing it ought to   *)
(* do: no intent could start, no periodic tick is due, no workflow step     *)
(* lacks its trigger.                                                       *)
NoMissedWake ==
  phase = "up" /\ loop = "asleep" /\ ~wake =>
    /\ \A k \in Key : ~Admissible(k)
    /\ Due = {}
    /\ ~WorkflowDue

(* Whoever will not make room for intent k before it ends by itself. *)
Obstacles(k) == {s \in DOMAIN execs : ClaimsConflict(TaskOf[k], TaskOf[execs[s].key])}
Obstinate(s, k) ==
  \/ execs[s].state = "cancelling"
  \/ execs[s].priority >= pending[k].priority
  \/ TaskOf[execs[s].key] \notin Interruptible

(* ... and a mutation, or more urgent work, that may start and does not has *)
(* something worth waiting for: an execution that has been asked to yield,  *)
(* that is as urgent, or that must not be interrupted (Scheduler-Spec.md    *)
(* section 8).  It never waits for interruptible, less urgent work alone.   *)
ObstaclesYield ==
  phase = "up" /\ loop = "asleep" /\ ~wake =>
    \A k \in DOMAIN pending :
      pending[k].priority >= PriorityMutation /\ Ready(k)
      => \E s \in Obstacles(k) : Obstinate(s, k)

(* A durable trigger whose submission was accepted is on disk, unsettled    *)
(* and held there by an intent or an execution, as long as it is unsettled  *)
(* in memory - even when a later save failed.  (A workflow trigger is       *)
(* created by the loop, not accepted from a caller.)                        *)
AcceptedIsDurable ==
  Unlocked =>
  \A t \in DOMAIN triggers :
    triggers[t].durable /\ triggers[t].kind # "workflow" /\ Live(t) =>
      /\ t \in DOMAIN disk.triggers
      /\ disk.triggers[t].state \notin Terminal
      /\ \/ \E k \in DOMAIN disk.pending : t \in disk.pending[k].triggers
         \/ \E s \in DOMAIN disk.execs : t \in disk.execs[s].triggers

(* Admission never passes over a mutation (or more urgent work) that could  *)
(* start, and among equals the older intent goes first.                     *)
AdmissionOrder ==
  [][\A k, j \in Key :
       /\ loop = "admit" /\ k \in DOMAIN pending /\ k \notin DOMAIN pending'
       /\ phase' = phase /\ j # k /\ Admissible(j)
       => /\ pending[j].priority >= PriorityMutation => pending[k].priority >= PriorityMutation
          /\ pending[j].priority = pending[k].priority /\ pending[j].order < pending[k].order
               => pending[k].age > pending[j].age]_vars

(* What a caller was told is final: a settled trigger keeps its outcome     *)
(* until it is trimmed or the process ends.                                 *)
OutcomeIsFinal ==
  [][\A t \in DOMAIN triggers \cap DOMAIN triggers' :
       triggers[t].state \in Terminal => triggers'[t].state = triggers[t].state]_vars

(* A durable trigger accepted from a caller does not stay unsettled on disk *)
(* for ever: whatever was preempted, retried, shut down, or lost in a crash *)
(* is taken up again until the trigger has an outcome.                      *)
Owed(t) ==
  t \in DOMAIN disk.triggers /\ disk.triggers[t].durable /\ disk.triggers[t].state \notin Terminal
OwedWorkSettles == \A t \in 1 .. MaxSubmits : Owed(t) ~> ~Owed(t)

(* An advanced workflow does not stay under way for ever: it is satisfied,  *)
(* or stops for attention.                                                  *)
WorkflowSettles ==
  workflow.state \in {"pending", "running"} ~> workflow.state \notin {"pending", "running"}

(* The scheduler implements the arbiter of named resources.                 *)
Arb == INSTANCE Arbiter WITH holder <- [s \in Active |-> TaskOf[execs[s].key]]
ImplementsArbiter == Arb!Spec

(* Scheduler-Spec.md, guarantee 7: work that must not be lost survives a    *)
(* restart - the saved state can always be loaded and scheduled again.      *)
RestartSurvives == phase # "panicked"
=============================================================================
