--------------------------- MODULE AdmissionProofs ---------------------------
(***************************************************************************)
(* What the loop of the scheduler admits, and that it does not oversleep,  *)
(* for every set of tasks, keys, claims and requests.                      *)
(*                                                                         *)
(*   1. Admission goes by effective priority, and ageing lifts nothing     *)
(*      past a mutation.                                                   *)
(*   2. A loop that sleeps with no wake token has nothing to do: it left   *)
(*      nothing behind, and its timer is set for all that can become due   *)
(*      without somebody waking it.                                        *)
(*   3. Nothing urgent waits for interruptible work alone.                 *)
(***************************************************************************)
EXTENDS SchedulerProofs

-----------------------------------------------------------------------------
(* 1. Order *)

(* While the loop admits, only admission takes an intent off the queue, as  *)
(* long as the process lives.                                               *)
LEMMA AdmissionTakes ==
  ASSUME TypeOK, Idle, Next, loop = "admit", phase' = phase,
         NEW k \in DOMAIN pending, k \notin DOMAIN pending'
  PROVE  Admit(k)
<1>1. Alive /\ ~Unlocked /\ phase \notin {"down", "panicked", "recovering"}
  BY DEF Idle, Alive, Unlocked
<1>2. CASE Pass
  <2>1. ASSUME NEW j \in Key, Admit(j), j # k
        PROVE  FALSE
    <3>1. pending' = Dequeue(j)
      BY <1>1, <2>1 DEF Admit, Panics
    <3> QED BY <2>1, <3>1 DEF Dequeue
  <2>2. ~EndPass
    BY <1>1 DEF EndPass, Panics
  <2> QED BY <1>2, <2>1, <2>2 DEF Pass, StartPass, CreatePeriodicTrigger, CreateWorkflowTrigger, Preempt
<1>3. ASSUME NEW s \in Slot PROVE ~Finish(s)
  BY <1>1 DEF Finish, FinishRequeued, FinishInterrupted, FinishFailed, FinishSucceeded
<1>4. ~Recovery
  BY <1>1 DEF Recovery, RecoverInterrupted, RecoveryDone
<1>5. ~TimePasses
  BY <1>1 DEF TimePasses, DelayElapses, Age, QuietPeriodElapses, DeadlinePasses, WorkflowTimePasses,
              Tick, manager
<1>6. ~Client
  BY <1>1 DEF Client, Submit, AdvanceWorkflow
<1>7. ~Process
  BY <1>1 DEF Process, Restart, Crash, Shutdown, StopLoop, GraceExpires, Stopped
<1> QED BY <1>2, <1>3, <1>4, <1>5, <1>6, <1>7 DEF Next

LEMMA PriorityIsNat == Priority \subseteq Nat
BY DEF Priority, PriorityPeriodic, PriorityManual, PriorityConsistency, PriorityMutation,
       PriorityConsistencyDeadline, PriorityEmergency

LEMMA EffectiveIsNat == \A i \in Intent : EffectivePriority(i) \in Nat
<1> SUFFICES ASSUME NEW i \in Intent PROVE EffectivePriority(i) \in Nat
  OBVIOUS
<1>1. i.priority \in Nat /\ i.age \in Nat
  BY PriorityIsNat DEF Intent
<1> QED BY <1>1 DEF EffectivePriority, PriorityMutation

(* Ageing stays below the class of mutations, and keeps the order within    *)
(* a class.                                                                 *)
LEMMA AgeingIsBounded ==
  ASSUME NEW i \in Intent, NEW j \in Intent
  PROVE  /\ i.priority >= PriorityMutation /\ EffectivePriority(j) >= EffectivePriority(i)
            => j.priority >= PriorityMutation
         /\ i.priority = j.priority /\ EffectivePriority(j) > EffectivePriority(i) => j.age > i.age
<1>1. i.priority \in Nat /\ j.priority \in Nat /\ i.age \in Nat /\ j.age \in Nat
  BY PriorityIsNat DEF Intent
<1> QED BY <1>1 DEF EffectivePriority, PriorityMutation

(* Admission never passes over a mutation that could start, and among       *)
(* equals the older intent goes first (admitReadyLocked, effectivePriority).*)
THEOREM AdmissionInOrder == Spec => AdmissionOrder
<1> DEFINE Ordered == \A k, j \in Key :
             /\ loop = "admit" /\ k \in DOMAIN pending /\ k \notin DOMAIN pending'
             /\ phase' = phase /\ j # k /\ Admissible(j)
             => /\ pending[j].priority >= PriorityMutation => pending[k].priority >= PriorityMutation
                /\ pending[j].priority = pending[k].priority /\ pending[j].order < pending[k].order
                     => pending[k].age > pending[j].age
<1>1. TypeOK /\ Idle /\ [Next]_vars => [Ordered]_vars
  <2> SUFFICES ASSUME TypeOK, Idle, Next,
                      NEW k \in Key, NEW j \in Key,
                      loop = "admit", k \in DOMAIN pending, k \notin DOMAIN pending',
                      phase' = phase, j # k, Admissible(j)
               PROVE  /\ pending[j].priority >= PriorityMutation => pending[k].priority >= PriorityMutation
                      /\ pending[j].priority = pending[k].priority /\ pending[j].order < pending[k].order
                           => pending[k].age > pending[j].age
    OBVIOUS
  <2>1. Admit(k)
    BY AdmissionTakes
  <2>2. j \in DOMAIN pending /\ pending[j] \in Intent /\ pending[k] \in Intent
    BY DEF Admissible, Ready, TypeOK, PendingOK
  <2>3. Before(k, j)
    BY <2>1, <2>2 DEF Admit
  <2>4. /\ EffectivePriority(pending[k]) \in Nat /\ EffectivePriority(pending[j]) \in Nat
        /\ pending[k].order \in Nat /\ pending[j].order \in Nat
    BY <2>2, EffectiveIsNat DEF Intent
  <2>5. /\ EffectivePriority(pending[k]) >= EffectivePriority(pending[j])
        /\ pending[j].order < pending[k].order
             => EffectivePriority(pending[k]) > EffectivePriority(pending[j])
    BY <2>3, <2>4 DEF Before
  <2> QED BY <2>2, <2>5, AgeingIsBounded
<1>2. QED
  BY <1>1, TypeCorrect, TableExact, PTL DEF Spec, AdmissionOrder

-----------------------------------------------------------------------------
(* 2. Wake-ups *)

\* A step of a workflow is handed over only when its time has come.
Started(w) ==
  w.state \in {"pending", "running"} /\ w.trigger # 0 => w.step > 0 \/ w.ready \/ w.overdue

\* What the pass has seen to before it admits.
Clear == Due = {} /\ ~WorkflowDue

\* What a sleeping loop without a wake token can rely on.
AtRest ==
  /\ \A k \in Key : ~Admissible(k)
  /\ Clear
  /\ Armed \subseteq armed

Watchful ==
  /\ Started(workflow) /\ Started(disk.workflow)
  /\ phase = "up" /\ loop = "admit" => Clear
  /\ phase = "up" /\ loop = "asleep" /\ ~wake => AtRest

\* A step that leaves a token, ends the process, or works on in the first
\* phase of the pass.
Restless == phase' # "up" \/ (loop' = "asleep" /\ wake') \/ loop' \in {"create", "stopped"}

LEMMA StartedKept ==
  ASSUME TypeOK, Started(workflow), Started(disk.workflow), [Next]_vars
  PROVE  Started(workflow)' /\ Started(disk.workflow)'
<1>1. ASSUME UNCHANGED workflow, PersistOrLog \/ UNCHANGED disk
      PROVE  Started(workflow)' /\ Started(disk.workflow)'
  BY <1>1 DEF PersistOrLog, Persisted, PersistFails, PersistenceView, Started
<1>2. ASSUME Forget, UNCHANGED disk \/ PersistOrLog \/ disk' = PersistenceView
      PROVE  Started(workflow)' /\ Started(disk.workflow)'
  BY <1>2 DEF Forget, NoWorkflow, PersistOrLog, Persisted, PersistFails, PersistenceView, Started
<1>3. CASE Pass
  <2>1. CASE CreateWorkflowTrigger
    BY <2>1 DEF CreateWorkflowTrigger, WorkflowDue, Started, TypeOK, WorkflowOK, Workflow
  <2>2. CASE StartPass \/ Preempt \/ \E task \in Periodic : CreatePeriodicTrigger(task)
    BY <1>1, <2>2 DEF StartPass, Preempt, CreatePeriodicTrigger, manager
  <2>3. ASSUME NEW k \in Key, Admit(k)
        PROVE  Started(workflow)' /\ Started(disk.workflow)'
    BY <1>1, <1>2, <2>3 DEF Admit, Panics
  <2>4. CASE EndPass
    BY <1>1, <1>2, <2>4 DEF EndPass, Panics
  <2> QED BY <1>3, <2>1, <2>2, <2>3, <2>4 DEF Pass
<1>4. ASSUME NEW s \in Slot, Finish(s)
      PROVE  Started(workflow)' /\ Started(disk.workflow)'
  <2>1. PersistOrLog
    BY <1>4 DEF Finish, FinishRequeued, FinishInterrupted, FinishFailed, FinishSucceeded, Finished
  <2>2. CASE workflow' = workflow
    BY <1>1, <2>1, <2>2
  <2>3. CASE workflow' # workflow
    <3>1. workflow'.trigger = 0
      BY <1>4, <2>3 DEF Finish, FinishRequeued, FinishInterrupted, FinishFailed, FinishSucceeded,
                    TypeOK, WorkflowOK, Workflow
    <3> QED BY <2>1, <3>1 DEF Started, PersistOrLog, Persisted, PersistFails, PersistenceView
  <2> QED BY <2>2, <2>3
<1>5. CASE Recovery
  <2>1. ASSUME NEW s \in Slot, RecoverInterrupted(s)
        PROVE  Started(workflow)' /\ Started(disk.workflow)'
    BY <1>1, <1>2, <2>1 DEF RecoverInterrupted, Panics
  <2>2. CASE RecoveryDone
    <3>1. CASE Persisted /\ UNCHANGED manager
      BY <1>1, <3>1 DEF PersistOrLog, manager
    <3>2. CASE PersistFails /\ Forget
      BY <1>2, <3>2 DEF PersistOrLog
    <3> QED BY <2>2, <3>1, <3>2 DEF RecoveryDone
  <2> QED BY <1>5, <2>1, <2>2 DEF Recovery
<1>6. CASE TimePasses
  <2>1. ASSUME NEW ready \in BOOLEAN, NEW overdue \in BOOLEAN, WorkflowTimePasses(ready, overdue)
        PROVE  Started(workflow)' /\ Started(disk.workflow)'
    BY <2>1 DEF WorkflowTimePasses, Started, TypeOK, SavedOK, WorkflowOK, Workflow
  <2>2. CASE QuietPeriodElapses \/ DeadlinePasses
    BY <2>1, <2>2 DEF QuietPeriodElapses, DeadlinePasses
  <2>3. ASSUME NEW k \in Key, DelayElapses(k)
        PROVE  Started(workflow)' /\ Started(disk.workflow)'
    <3>1. disk'.workflow = disk.workflow
      BY <2>3 DEF DelayElapses, TypeOK, SavedOK
    <3> QED BY <2>3, <3>1 DEF DelayElapses, Started
  <2>4. ASSUME NEW k \in Key, Age(k)
        PROVE  Started(workflow)' /\ Started(disk.workflow)'
    <3>1. disk'.workflow = disk.workflow
      BY <2>4 DEF Age, TypeOK, SavedOK
    <3> QED BY <2>4, <3>1 DEF Age, Started
  <2>5. ASSUME NEW task \in Periodic, Tick(task)
        PROVE  Started(workflow)' /\ Started(disk.workflow)'
    BY <1>1, <2>5 DEF Tick, manager
  <2> QED BY <1>6, <2>2, <2>3, <2>4, <2>5 DEF TimePasses
<1>7. CASE Client
  <2>1. ASSUME NEW r \in Requests, Submit(r)
        PROVE  Started(workflow)' /\ Started(disk.workflow)'
    BY <2>1 DEF Submit, PersistFails, PersistenceView, manager, Started
  <2>2. ASSUME NEW quiet \in BOOLEAN, AdvanceWorkflow(quiet)
        PROVE  Started(workflow)' /\ Started(disk.workflow)'
    BY <2>2 DEF AdvanceWorkflow, PersistFails, PersistenceView, manager, Started
  <2> QED BY <1>7, <2>1, <2>2 DEF Client
<1>8. CASE Process
  <2>1. CASE Restart
    BY <2>1 DEF Restart, Started
  <2>2. CASE Crash
    BY <1>2, <2>2 DEF Crash
  <2>3. CASE Shutdown \/ StopLoop \/ GraceExpires
    BY <1>1, <2>3 DEF Shutdown, StopLoop, GraceExpires, manager
  <2>4. CASE Stopped
    BY <1>2, <2>4 DEF Stopped, PersistOrLog
  <2> QED BY <1>8, <2>1, <2>2, <2>3, <2>4 DEF Process
<1>9. CASE UNCHANGED vars
  BY <1>9 DEF vars, manager, Started
<1> QED BY <1>3, <1>4, <1>5, <1>6, <1>7, <1>8, <1>9 DEF Next

\* Nothing that WorkflowDue asks of triggers changes when some of them are
\* marked and stay unsettled.
LEMMA ClearKept ==
  ASSUME TypeOK, Clear, NEW ids, NEW state \in TriggerState \ Terminal,
         triggers' = Marked(ids, state), UNCHANGED <<workflow, nextTick, ticks>>
  PROVE  Clear'
<1>1. Due' = Due
  BY DEF Due
<1>2. Live(workflow.trigger) => Live(workflow.trigger)'
  BY DEF Live, Marked, TypeOK, TriggersOK, Trigger
<1>3. ~WorkflowDue'
  BY <1>2 DEF Clear, WorkflowDue
<1> QED BY <1>1, <1>3 DEF Clear

LEMMA PassIsWatchful ==
  ASSUME TypeOK, Watchful, Pass
  PROVE  Restless \/ (loop' = "admit" /\ Clear') \/ (loop' = "asleep" /\ AtRest')
<1>1. CASE StartPass \/ CreateWorkflowTrigger \/ \E task \in Periodic : CreatePeriodicTrigger(task)
  BY <1>1 DEF StartPass, CreateWorkflowTrigger, CreatePeriodicTrigger, Restless
<1>2. CASE Preempt
  <2>1. Due' = Due /\ WorkflowDue' = WorkflowDue
    BY <1>2 DEF Preempt, Due, WorkflowDue, Live
  <2> QED BY <1>2, <2>1 DEF Preempt, Clear
<1>3. ASSUME NEW k \in Key, Admit(k)
      PROVE  Restless \/ (loop' = "admit" /\ Clear')
  <2>1. CASE Panics
    BY <2>1 DEF Panics, Restless
  <2>2. CASE ~Panics
    <3>1. /\ triggers' = Marked(pending[k].triggers, "running")
          /\ UNCHANGED <<workflow, nextTick, ticks, phase>> /\ loop = "admit" /\ loop' = "admit"
      BY <1>3, <2>2 DEF Admit
    <3>2. CASE phase = "up"
      <4>1. Clear /\ "running" \in TriggerState \ Terminal
        BY <3>1, <3>2 DEF Watchful, TriggerState, Terminal
      <4> QED BY <3>1, <4>1, ClearKept
    <3> QED BY <3>1, <3>2 DEF Restless
  <2> QED BY <2>1, <2>2
<1>4. CASE EndPass
  <2>1. CASE Panics
    BY <2>1 DEF Panics, Restless
  <2>2. CASE phase # "up"
    BY <1>4, <2>1, <2>2 DEF EndPass, Restless
  <2>3. CASE ~Panics /\ phase = "up"
    <3> DEFINE blocked == UNION {pending[k].triggers : k \in {j \in Key : Ready(j)}}
    <3>1. /\ triggers' = Marked(blocked, "waiting") /\ armed' = Armed
          /\ UNCHANGED <<pending, execs, workflow, nextTick, ticks, resources>>
          /\ loop = "admit" /\ loop' = "asleep"
          /\ \A k \in Key : ~Admissible(k)
      BY <1>4, <2>3 DEF EndPass
    <3>2. Clear /\ "waiting" \in TriggerState \ Terminal
      BY <2>3, <3>1 DEF Watchful, TriggerState, Terminal
    <3>3. Clear'
      BY <3>1, <3>2, ClearKept
    <3>4. Armed' = Armed /\ \A k \in Key : ~Admissible(k)'
      BY <3>1 DEF Armed, Admissible, Ready
    <3> QED BY <3>1, <3>3, <3>4 DEF AtRest
  <2> QED BY <2>1, <2>2, <2>3
<1> QED BY <1>1, <1>2, <1>3, <1>4 DEF Pass

\* A deadline that passes either rings the timer or changes nothing that
\* matters.
LEMMA TimeIsWatched ==
  ASSUME TypeOK, Watchful, TimePasses,
         phase' = "up", loop' = "asleep", ~wake'
  PROVE  AtRest'
<1>1. phase = "up" /\ loop = "asleep" /\ ~wake
  <2>1. phase' = phase /\ loop' = loop
    BY DEF TimePasses, DelayElapses, Age, QuietPeriodElapses, DeadlinePasses, WorkflowTimePasses, Tick
  <2>2. ASSUME wake PROVE wake'
    <3>1. wake = TRUE
      BY <2>2 DEF TypeOK
    <3>2. wake' = TRUE
      BY <3>1 DEF TimePasses, DelayElapses, Age, QuietPeriodElapses, DeadlinePasses,
                  WorkflowTimePasses, Tick
    <3> QED BY <3>2
  <2> QED BY <2>1, <2>2
<1>2. AtRest
  BY <1>1 DEF Watchful
<1>3. ASSUME NEW k \in Key, DelayElapses(k)
      PROVE  FALSE
  <2>1. k \in Armed /\ k \notin armed
    BY <1>3 DEF DelayElapses, Armed
  <2> QED BY <1>2, <2>1 DEF AtRest
<1>4. CASE QuietPeriodElapses \/ DeadlinePasses
  <2>1. PICK ready \in BOOLEAN, overdue \in BOOLEAN : WorkflowTimePasses(ready, overdue)
    BY <1>4 DEF QuietPeriodElapses, DeadlinePasses
  <2>2. /\ workflow.state \in {"pending", "running"} /\ "workflow" \notin armed
        /\ UNCHANGED <<triggers, pending, nextTick, ticks, resources, armed>>
        /\ workflow' = [workflow EXCEPT !.ready = @ \/ ready, !.overdue = @ \/ overdue]
    BY <2>1 DEF WorkflowTimePasses
  <2>3. workflow.trigger # 0
    BY <1>2, <2>2 DEF AtRest, Armed
  <2>4. workflow.step > 0 \/ workflow.ready \/ workflow.overdue
    BY <2>2, <2>3 DEF Watchful, Started
  <2>5. /\ workflow'.state = workflow.state /\ workflow'.step = workflow.step
        /\ workflow'.trigger = workflow.trigger
    BY <2>2 DEF TypeOK, WorkflowOK, Workflow
  <2>6. ~WorkflowDue'
    BY <1>2, <2>2, <2>4, <2>5 DEF AtRest, Clear, WorkflowDue, Live
  <2>7. Due' = Due /\ Armed' = Armed /\ \A k \in Key : Admissible(k)' <=> Admissible(k)
    BY <2>2, <2>5 DEF Due, Armed, Admissible, Ready
  <2> QED BY <1>2, <2>2, <2>6, <2>7 DEF AtRest, Clear
<1>5. ASSUME NEW k \in Key, Age(k)
      PROVE  AtRest'
  <2>1. /\ UNCHANGED <<triggers, workflow, nextTick, ticks, resources, armed>>
        /\ DOMAIN pending' = DOMAIN pending
        /\ \A j \in DOMAIN pending : pending'[j].delayed = pending[j].delayed
    <3>1. \A j \in DOMAIN pending : pending[j] \in Intent
      BY DEF TypeOK, PendingOK
    <3> QED BY <1>5, <3>1 DEF Age, Aged, Intent
  <2>2. /\ Due' = Due /\ Armed' = Armed /\ \A j \in Key : Admissible(j)' <=> Admissible(j)
        /\ WorkflowDue' <=> WorkflowDue
    BY <2>1 DEF Due, Armed, Admissible, Ready, WorkflowDue, Live
  <2> QED BY <1>2, <2>1, <2>2 DEF AtRest, Clear
<1>6. ASSUME NEW task \in Periodic, Tick(task)
      PROVE  FALSE
  BY <1>1, <1>6 DEF Tick, Alive
<1> QED BY <1>3, <1>4, <1>5, <1>6 DEF TimePasses

\* Whatever else happens leaves a token, ends the process or changes nothing.
LEMMA OthersWake ==
  ASSUME TypeOK, Idle, [Next]_vars
  PROVE  \/ Restless \/ Pass \/ TimePasses
         \/ UNCHANGED <<manager, resources, wake, armed, loop, grace, phase, ticks>>
<1>1. ASSUME NEW s \in Slot, Finish(s)
      PROVE  Restless
  BY <1>1 DEF Finish, FinishRequeued, FinishInterrupted, FinishFailed, FinishSucceeded, Finished,
              Unlocked, Restless
<1>2. ASSUME NEW s \in Slot, RecoverInterrupted(s)
      PROVE  Restless
  BY <1>2 DEF RecoverInterrupted, Panics, Restless
<1>3. ASSUME RecoveryDone
      PROVE  Restless
  <2>1. loop = "asleep"
    BY <1>3 DEF RecoveryDone, Idle, Alive
  <2> QED BY <1>3, <2>1 DEF RecoveryDone, Restless
<1>4. ASSUME NEW r \in Requests, Submit(r)
      PROVE  Restless \/ UNCHANGED <<manager, resources, wake, armed, loop, grace, phase, ticks>>
  BY <1>4 DEF Submit, Unlocked, Restless
<1>5. ASSUME NEW quiet \in BOOLEAN, AdvanceWorkflow(quiet)
      PROVE  Restless \/ UNCHANGED <<manager, resources, wake, armed, loop, grace, phase, ticks>>
  BY <1>5 DEF AdvanceWorkflow, Unlocked, Restless
<1>6. ASSUME Process
      PROVE  Restless
  BY <1>6 DEF Process, Restart, Crash, Shutdown, StopLoop, GraceExpires, Stopped, Restless
<1>7. CASE UNCHANGED vars
  BY <1>7 DEF vars
<1> QED BY <1>1, <1>2, <1>3, <1>4, <1>5, <1>6, <1>7 DEF Next, Recovery, Client

LEMMA WatchfulStep ==
  ASSUME TypeOK, Idle, Watchful, [Next]_vars
  PROVE  Watchful'
<1>1. Started(workflow)' /\ Started(disk.workflow)'
  BY StartedKept DEF Watchful
<1>2. CASE Restless
  BY <1>1, <1>2 DEF Restless, Watchful
<1>3. CASE Pass
  BY <1>1, <1>2, <1>3, PassIsWatchful DEF Watchful
<1>4. CASE TimePasses
  <2>1. CASE phase' = "up" /\ loop' = "asleep" /\ ~wake'
    BY <1>1, <1>4, <2>1, TimeIsWatched DEF Watchful
  <2>2. loop' # "admit"
    BY <1>4 DEF TimePasses, DelayElapses, Age, QuietPeriodElapses, DeadlinePasses,
                WorkflowTimePasses, Tick, Unlocked, Idle, Alive
  <2> QED BY <1>1, <2>1, <2>2 DEF Watchful
<1>5. CASE UNCHANGED <<manager, resources, wake, armed, loop, grace, phase, ticks>>
  <2>1. Due' = Due /\ Armed' = Armed /\ (WorkflowDue' <=> WorkflowDue) /\ wake' = wake
        /\ armed' = armed /\ loop' = loop /\ phase' = phase
        /\ \A k \in Key : Admissible(k)' <=> Admissible(k)
    BY <1>5 DEF manager, Due, Armed, WorkflowDue, Live, Admissible, Ready
  <2> QED BY <1>1, <2>1 DEF Watchful, AtRest, Clear
<1> QED BY <1>2, <1>3, <1>4, <1>5, OthersWake

LEMMA WatchfulInit == Init => Watchful
BY DEF Init, Watchful, Started, NoWorkflow, EmptyDisk

(* While the loop sleeps with no wake token there is nothing it ought to do: *)
(* no intent could start, no periodic tick is due and no workflow step lacks *)
(* its trigger (Start, nextWakeDelayLocked and whoever calls signalLocked).  *)
THEOREM NothingIsMissed == Spec => []NoMissedWake
<1>1. Watchful => NoMissedWake
  BY DEF Watchful, AtRest, Clear, NoMissedWake
<1>2. TypeOK /\ Idle /\ Watchful /\ [Next]_vars => Watchful'
  BY WatchfulStep
<1> QED BY <1>1, <1>2, WatchfulInit, TypeCorrect, TableExact, PTL DEF Spec

-----------------------------------------------------------------------------
(* 3. Obstacles *)

\* A conflict in the table is a conflict with somebody who runs.
LEMMA ConflictInTable ==
  ASSUME NEW table, NEW held, Records(table, held), NEW task, ResourceConflict(table, task)
  PROVE  \E u \in DOMAIN held : ClaimsConflict(task, held[u])
<1>1. PICK r \in Resource :
        \/ Claimed(task, r, "exclusive") /\ table[r].shared \cup table[r].exclusive # {}
        \/ Claimed(task, r, "shared") /\ table[r].exclusive # {}
  BY DEF ResourceConflict
<1>2. CASE Claimed(task, r, "exclusive") /\ table[r].shared \cup table[r].exclusive # {}
  <2>1. PICK u \in DOMAIN held, m \in Mode : Claimed(held[u], r, m)
    BY <1>2 DEF Records, Holding, Mode
  <2> QED BY <1>2, <2>1 DEF ClaimsConflict
<1>3. CASE Claimed(task, r, "shared") /\ table[r].exclusive # {}
  <2>1. PICK u \in DOMAIN held : Claimed(held[u], r, "exclusive")
    BY <1>3 DEF Records, Holding
  <2> QED BY <1>3, <2>1 DEF ClaimsConflict, Mode
<1> QED BY <1>1, <1>2, <1>3

\* So it is with the queue of a process that is up.
LEMMA BlockedByObstacle ==
  ASSUME Alive, TableInv, NEW k \in DOMAIN pending, ResourceConflict(resources, TaskOf[k])
  PROVE  Obstacles(k) # {}
<1>1. DOMAIN Held = DOMAIN execs /\ \A s \in DOMAIN execs : Held[s] = TaskOf[execs[s].key]
  BY DEF Held, Active
<1>2. PICK u \in DOMAIN Held : ClaimsConflict(TaskOf[k], Held[u])
  BY ConflictInTable DEF TableInv
<1> QED BY <1>1, <1>2 DEF Obstacles

\* If anything is in the way of an urgent intent, something is that will end.
Patient(k) ==
  pending[k].priority >= PriorityMutation /\ ~pending[k].delayed /\ Obstacles(k) # {}
  => \E s \in Obstacles(k) : Obstinate(s, k)

\* From the preemption of a pass until the loop is woken again.
Yielding ==
  phase = "up" /\ (loop = "admit" \/ (loop = "asleep" /\ ~wake))
  => \A k \in DOMAIN pending : Patient(k)

LEMMA PreemptYields ==
  ASSUME TypeOK, Preempt
  PROVE  Yielding'
<1>1. /\ pending' = pending /\ DOMAIN execs' = DOMAIN execs
      /\ \A s \in DOMAIN execs :
           /\ execs'[s].key = execs[s].key /\ execs'[s].priority = execs[s].priority
           /\ Yields(s) => execs'[s].state = "cancelling"
  BY DEF Preempt, TypeOK, ExecsOK, Execution
<1>2. ASSUME NEW k \in DOMAIN pending, NEW s \in Obstacles(k)',
             pending[k].priority >= PriorityMutation
      PROVE  Obstinate(s, k)'
  <2>1. s \in DOMAIN execs /\ ClaimsConflict(TaskOf[k], TaskOf[execs[s].key])
    BY <1>1 DEF Obstacles
  <2>2. pending[k].priority \in Nat /\ execs[s].priority \in Nat
    BY <2>1, PriorityIsNat DEF TypeOK, PendingOK, ExecsOK, Intent, Execution
  <2>3. \/ Yields(s) \/ TaskOf[execs[s].key] \notin Interruptible
        \/ execs[s].priority >= pending[k].priority
    BY <1>2, <2>1, <2>2 DEF Yields
  <2> QED BY <1>1, <2>1, <2>3 DEF Obstinate
<1> QED BY <1>1, <1>2 DEF Yielding, Patient

\* What is admitted past an urgent intent is either as urgent, or meets one
\* that waits for somebody else.
LEMMA AdmitYields ==
  ASSUME TypeOK, Idle, TableInv, Yielding, phase = "up", NEW x \in Key, Admit(x), ~Panics
  PROVE  Yielding'
<1> PICK new : new = NewSlot
  OBVIOUS
<1>1. /\ loop = "admit" /\ x \in DOMAIN pending /\ Alive
      /\ \A j \in DOMAIN pending \ {x} : Admissible(j) => Before(x, j)
      /\ FreeSlots # {} /\ pending' = Dequeue(x)
      /\ DOMAIN execs' = DOMAIN execs \cup {new}
      /\ execs'[new].key = x /\ execs'[new].priority = pending[x].priority
      /\ \A s \in DOMAIN execs : s # new => execs'[s] = execs[s]
  BY DEF Admit, Admissible, Ready, Put, Alive
<1>2. new \notin DOMAIN execs
  BY <1>1 DEF NewSlot, FreeSlots
<1>3. /\ DOMAIN pending' = DOMAIN pending \ {x}
      /\ \A k \in DOMAIN pending' : /\ pending'[k].priority = pending[k].priority
                                   /\ pending'[k].delayed = pending[k].delayed
  BY <1>1 DEF Dequeue, TypeOK, PendingOK, Intent
<1>4. ASSUME NEW k \in DOMAIN pending', pending'[k].priority >= PriorityMutation,
             ~pending'[k].delayed, Obstacles(k)' # {}
      PROVE  \E s \in Obstacles(k)' : Obstinate(s, k)'
  <2>1. CASE Obstacles(k) # {}
    <3>1. PICK s \in Obstacles(k) : Obstinate(s, k)
      BY <1>1, <1>3, <1>4, <2>1 DEF Yielding, Patient
    <3>2. s \in DOMAIN execs /\ s # new
      BY <1>2 DEF Obstacles
    <3> QED BY <1>1, <1>3, <3>1, <3>2 DEF Obstacles, Obstinate
  <2>2. CASE Obstacles(k) = {}
    <3>1. Admissible(k) /\ k # x /\ k \in DOMAIN pending
      BY <1>1, <1>3, <1>4, <2>2, BlockedByObstacle DEF Admissible, Ready
    <3>2. pending[k] \in Intent /\ pending[x] \in Intent
      BY <1>1, <3>1 DEF TypeOK, PendingOK
    <3>3. EffectivePriority(pending[x]) >= EffectivePriority(pending[k])
      <4>1. Before(x, k)
        BY <1>1, <3>1
      <4> QED BY <3>2, <4>1, EffectiveIsNat DEF Before
    <3>4. pending[x].priority >= pending[k].priority
      <4>1. pending[k].priority >= PriorityMutation /\ pending[x].priority >= PriorityMutation
        BY <1>3, <1>4, <3>2, <3>3, AgeingIsBounded
      <4> QED BY <3>3, <4>1 DEF EffectivePriority
    <3>5. Obstacles(k)' = {new}
      BY <1>1, <1>4, <2>2 DEF Obstacles
    <3>6. Obstinate(new, k)'
      BY <1>1, <1>3, <3>4 DEF Obstinate
    <3> QED BY <3>5, <3>6
  <2> QED BY <2>1, <2>2
<1> QED BY <1>4 DEF Yielding, Patient

LEMMA YieldingStep ==
  ASSUME TypeOK, Idle, TableInv, Watchful, Yielding, [Next]_vars
  PROVE  Yielding'
<1>1. CASE Restless
  BY <1>1 DEF Restless, Yielding
<1>2. ASSUME DOMAIN pending' = DOMAIN pending, execs' = execs, phase' = phase,
             \A k \in DOMAIN pending : /\ pending'[k].priority = pending[k].priority
                                      /\ pending'[k].delayed = pending[k].delayed,
             \/ loop = "admit"
             \/ loop' = loop /\ (wake = TRUE => wake' = TRUE)
      PROVE  Yielding'
  <2>1. wake \in BOOLEAN
    BY DEF TypeOK
  <2> QED BY <1>2, <2>1 DEF Yielding, Patient, Obstacles, Obstinate
<1>3. CASE Pass
  <2>1. CASE StartPass \/ CreateWorkflowTrigger \/ \E task \in Periodic : CreatePeriodicTrigger(task)
    BY <1>1, <2>1 DEF StartPass, CreateWorkflowTrigger, CreatePeriodicTrigger, Restless
  <2>2. CASE Preempt
    BY <2>2, PreemptYields
  <2>3. ASSUME NEW k \in Key, Admit(k) PROVE Yielding'
    <3>1. CASE Panics
      BY <1>1, <3>1 DEF Panics, Restless
    <3>2. CASE phase # "up" /\ ~Panics
      BY <1>1, <2>3, <3>2 DEF Admit, Restless
    <3> QED BY <2>3, <3>1, <3>2, AdmitYields
  <2>4. CASE EndPass
    <3>1. CASE Panics
      BY <1>1, <3>1 DEF Panics, Restless
    <3>2. CASE ~Panics
      BY <1>2, <2>4, <3>2 DEF EndPass
    <3> QED BY <3>1, <3>2
  <2> QED BY <1>3, <2>1, <2>2, <2>3, <2>4 DEF Pass
<1>4. CASE TimePasses
  <2>1. ASSUME NEW k \in Key, DelayElapses(k), phase' = "up", loop' = "asleep", ~wake'
        PROVE  FALSE
    <3>1. /\ phase = "up" /\ loop = "asleep" /\ k \in Armed
          /\ wake' = (wake \/ k \in armed)
      BY <2>1 DEF DelayElapses, Armed
    <3>2. ~wake /\ k \notin armed
      BY <2>1, <3>1 DEF TypeOK
    <3> QED BY <3>1, <3>2 DEF Watchful, AtRest
  <2>2. ASSUME NEW k \in Key, DelayElapses(k)
        PROVE  Yielding'
    <3>1. loop' # "admit"
      BY <2>2 DEF DelayElapses, Unlocked
    <3> QED BY <2>1, <2>2, <3>1 DEF Yielding
  <2>3. CASE QuietPeriodElapses \/ DeadlinePasses
    BY <1>2, <2>3 DEF QuietPeriodElapses, DeadlinePasses, WorkflowTimePasses
  <2>4. ASSUME NEW k \in Key, Age(k)
        PROVE  Yielding'
    <3>1. \A j \in DOMAIN pending : pending[j] \in Intent
      BY DEF TypeOK, PendingOK
    <3> QED BY <1>2, <2>4, <3>1 DEF Age, Aged, Intent
  <2>5. ASSUME NEW task \in Periodic, Tick(task)
        PROVE  Yielding'
    BY <1>2, <2>5 DEF Tick, manager
  <2> QED BY <1>4, <2>2, <2>3, <2>4, <2>5 DEF TimePasses
<1>5. CASE UNCHANGED <<manager, resources, wake, armed, loop, grace, phase, ticks>>
  BY <1>2, <1>5 DEF manager
<1> QED BY <1>1, <1>3, <1>4, <1>5, OthersWake

(* Urgent work that may start and does not waits for an execution that has  *)
(* been asked to yield, is as urgent, or must not be interrupted; never for *)
(* interruptible, less urgent work alone (preemptForPriorityLocked, and     *)
(* that admitReadyLocked takes the most urgent first).                      *)
THEOREM UrgentWorkIsYieldedTo == Spec => []ObstaclesYield
<1>1. TypeOK /\ TableInv /\ Watchful /\ Yielding => ObstaclesYield
  <2> SUFFICES ASSUME TypeOK, TableInv, Watchful, Yielding,
                      phase = "up", loop = "asleep", ~wake,
                      NEW k \in DOMAIN pending, pending[k].priority >= PriorityMutation, Ready(k)
               PROVE  \E s \in Obstacles(k) : Obstinate(s, k)
    BY DEF ObstaclesYield
  <2>1. k \in Key /\ ~Admissible(k)
    BY DEF Watchful, AtRest, TypeOK, PendingOK
  <2>2. Obstacles(k) # {}
    BY <2>1, BlockedByObstacle DEF Admissible, Alive
  <2> QED BY <2>2 DEF Yielding, Patient, Ready
<1>2. Init => Yielding
  BY DEF Init, Yielding
<1>3. TypeOK /\ Idle /\ TableInv /\ Watchful /\ Yielding /\ [Next]_vars => Yielding'
  BY YieldingStep
<1>4. TypeOK /\ Idle /\ Watchful /\ [Next]_vars => Watchful'
  BY WatchfulStep
<1> QED BY <1>1, <1>2, <1>3, <1>4, WatchfulInit, TypeCorrect, TableExact, PTL DEF Spec
=============================================================================
