--------------------------- MODULE RemovalsProofs ---------------------------
(***************************************************************************)
(* Theorems about removal operations, for any number of operations,        *)
(* browsers, tokens and tasks, and any bounds on faults, restarts and      *)
(* submissions:                                                            *)
(*                                                                         *)
(*   1. the invariants of the scheduler hold with removals on top of it;   *)
(*   2. what the scheduler's steps do to callers, runners and executions;  *)
(*   3. the journal is well-formed, and the scheduler's maps know only     *)
(*      keys of operations the journal has (AlwaysCore);                   *)
(*   4. an operation is submitted once, and once per token as far back as  *)
(*      its look-up reads (AlwaysBooked);                                  *)
(*   5. the journal runs ahead of the scheduler (AlwaysCarried);           *)
(*   6. a refused operation stays refused;                                 *)
(*   7. the verdicts of the journal and of the scheduler agree;            *)
(*   8. what a removal changed is read back.                               *)
(***************************************************************************)
EXTENDS Removals, TriggerProofs

-----------------------------------------------------------------------------
(* 1. The scheduler below.  Removals adds steps of its own to it: a removal *)
(* is submitted, a statement fails, the process gives up.                   *)

Below == TypeOK /\ Idle /\ TableInv /\ Accounted

LEMMA NextBelow ==
  ASSUME Below, [Next]_vars
  PROVE  Below' /\ Accounts
<1>1. TypeOK'
  BY NextType DEF Below
<1>2. Idle' /\ TableInv'
  BY StepShape, TableStep DEF Below
<1>3. Accounted' /\ Accounts
  BY AccountedStep DEF Below
<1>4. QED
  BY <1>1, <1>2, <1>3 DEF Below

LEMMA NotWrittenBelow ==
  ASSUME Below, NotWritten
  PROVE  Below' /\ Accounts
<1>1. UNCHANGED <<issued, triggers, pending, execs, history, workflow, nextTick>>
      /\ UNCHANGED <<resources, wake, armed, loop, grace, phase, ticks, disk>>
      /\ count' = [count EXCEPT !.faults = @ + 1]
  BY DEF NotWritten, PersistFails, manager
<1>2. TypeOK'
  BY <1>1 DEF Below, TypeOK
<1>3. Idle' /\ Stays
  BY <1>1, HeldSame DEF Below, Idle, Alive, Stays
<1>4. TableInv'
  BY <1>3, TableKept DEF Below
<1>5. Accounts
  BY <1>1, UnchangedAccounts DEF Below, Accounted
<1>6. Accounted'
  <2>1. Dormant' /\ DiskStays
    BY <1>1 DEF Below, Accounted, Dormant, DiskStays
  <2>2. QED
    BY <1>5, <2>1, AccountedKept DEF Below
<1>7. QED
  BY <1>2, <1>3, <1>4, <1>5, <1>6 DEF Below

LEMMA ExitBelow ==
  ASSUME Below, phase' = "down", Forget, UNCHANGED <<ticks, disk, count>>
  PROVE  Below' /\ Accounts
<1>1. TypeOK'
  <2>1. ManagerOK' /\ RestOK'
    BY ForgetType DEF RestOK, TypeOK, Below
  <2>2. SavedOK(disk)' /\ CountOK'
    BY DEF Below, TypeOK, CountOK
  <2>3. QED
    BY <2>1, <2>2, TypeOKPartsNext
<1>2. Idle' /\ Dies
  BY ForgetDies DEF Idle
<1>3. TableInv'
  BY <1>2, TableKept DEF Below
<1>4. Accounts
  BY ForgetAccounts
<1>5. Accounted'
  <2>1. Dormant' /\ DiskStays
    BY DEF Forget, Dormant, DiskStays
  <2>2. QED
    BY <1>4, <2>1, AccountedKept DEF Below
<1>6. QED
  BY <1>1, <1>2, <1>3, <1>4, <1>5 DEF Below

LEMMA SubmitBelow ==
  ASSUME Below, NEW r \in Request, Submit(r)
  PROVE  Below' /\ Accounts
<1>1. TypeOK'
  BY SubmitType DEF Below
<1>2. UNCHANGED <<phase, resources, loop>>
  BY DEF Submit
<1>3. /\ DOMAIN execs' = DOMAIN execs
      /\ \A s \in DOMAIN execs : execs'[s].key = execs[s].key
  BY SubmitLockedHeld DEF Submit, manager, Below
<1>4. Idle' /\ Stays
  BY <1>2, <1>3, HeldSame DEF Below, Idle, Alive, Stays
<1>5. TableInv'
  BY <1>4, TableKept DEF Below
<1>6. Accounts /\ (DiskStays \/ disk' = PersistenceView')
  <2>1. CASE SubmitLocked(r) /\ disk' = PersistenceView'
    BY <2>1, SubmitLockedAccounts DEF Below, Accounted, Accounts
  <2>2. CASE UNCHANGED manager /\ disk' = disk
    BY <2>2, UnchangedAccounts DEF manager, Below, Accounted, DiskStays
  <2>3. QED
    BY <2>1, <2>2 DEF Submit, PersistFails
<1>7. Dormant'
  <2>1. Alive'
    BY <1>2 DEF Submit, Unlocked, Alive
  <2>2. QED
    BY <2>1 DEF Dormant, Alive
<1>8. Accounted'
  BY <1>6, <1>7, AccountedKept DEF Below
<1>9. QED
  BY <1>1, <1>4, <1>5, <1>6, <1>8 DEF Below

-----------------------------------------------------------------------------
(* 2. What the scheduler's steps do to the work of removals.                *)

Ours(k) == TaskOf[k] = RemovalTask

(* Nothing that runs ends or changes its key. *)
Lasting == \A s \in DOMAIN execs : s \in DOMAIN execs' /\ execs'[s].key = execs[s].key

Final == {"fulfilled", "failed", "attention"}

(* No removal is submitted, admitted or settled; one that waits keeps a     *)
(* trigger or leaves the queue altogether.                                  *)
Undisturbed ==
  /\ \A t \in DOMAIN triggers' : Ours(triggers'[t].key) =>
       /\ t \in DOMAIN triggers
       /\ triggers'[t].state \in Final => triggers'[t].state = triggers[t].state
  /\ \A k \in DOMAIN pending' : Ours(k) =>
       /\ k \in DOMAIN pending
       /\ pending'[k].triggers \subseteq pending[k].triggers
       /\ pending'[k].triggers # {} \/ pending'[k].triggers = pending[k].triggers
       /\ pending'[k].triggers \cap DOMAIN triggers \subseteq DOMAIN triggers'
  /\ \A s \in DOMAIN execs' : Ours(execs'[s].key) =>
       s \in DOMAIN execs /\ execs'[s].key = execs[s].key

(* The pass admits the removal of key k. *)
Takes(k, s) ==
  /\ Ours(k) /\ k \in DOMAIN pending /\ s \notin DOMAIN execs
  /\ loop = "admit" /\ loop' = loop /\ disk' = disk /\ count' = count
  /\ DOMAIN execs' = DOMAIN execs \cup {s} /\ execs'[s].key = k
  /\ \A u \in DOMAIN execs : execs'[u] = execs[u]
  /\ DOMAIN pending' = DOMAIN pending \ {k}
  /\ \A j \in DOMAIN pending' : pending'[j].triggers = pending[j].triggers
  /\ DOMAIN triggers' = DOMAIN triggers
  /\ \A t \in DOMAIN triggers :
       triggers'[t].state \in Final => triggers'[t].state = triggers[t].state

(* Nothing but flags, order and priorities. *)
LEMMA SameUndisturbed ==
  ASSUME triggers' = triggers,
         DOMAIN pending' = DOMAIN pending,
         \A k \in DOMAIN pending : pending'[k].triggers = pending[k].triggers,
         DOMAIN execs' = DOMAIN execs, \A s \in DOMAIN execs : execs'[s].key = execs[s].key
  PROVE  Undisturbed /\ Lasting
BY DEF Undisturbed, Lasting

LEMMA SubmitLockedUndisturbed ==
  ASSUME TypeOK, BooksNow, NEW r \in Request, ~Ours(r.key), SubmitLocked(r)
  PROVE  Undisturbed /\ Lasting
<1> DEFINE t == issued + 1
<1>1. Lasting /\ DOMAIN execs' = DOMAIN execs
  BY SubmitLockedHeld DEF Lasting
<1>2. t \notin DOMAIN triggers
  BY ShapedNow, NewIDs DEF BooksNow
<1>3. PICK state \in {"pending", "attached"} : triggers' = Put(triggers, t, NewTrigger(r, state))
  BY DEF SubmitLocked
<1>4. /\ DOMAIN triggers' = DOMAIN triggers \cup {t}
      /\ triggers'[t].key = r.key
      /\ \A u \in DOMAIN triggers : triggers'[u] = triggers[u]
  BY <1>2, <1>3 DEF Put, NewTrigger
<1>5. \A k \in DOMAIN pending' : Ours(k) => k \in DOMAIN pending /\ pending'[k] = pending[k]
  <2>1. CASE UNCHANGED pending
    BY <2>1
  <2>2. CASE \E intent : pending' = Put(pending, r.key, intent)
    BY <2>2 DEF Put
  <2>3. QED
    BY <2>1, <2>2 DEF SubmitLocked
<1>6. QED
  BY <1>1, <1>4, <1>5 DEF Undisturbed, Lasting

LEMMA MarkedUndisturbed ==
  ASSUME TypeOK, NEW ids, NEW state, state \notin Final, triggers' = Marked(ids, state),
         UNCHANGED pending, UNCHANGED execs
  PROVE  Undisturbed /\ Lasting
<1>1. /\ DOMAIN triggers' = DOMAIN triggers
      /\ \A t \in DOMAIN triggers : triggers'[t] = triggers[t] \/ triggers'[t].state = state
  BY DEF Marked, TypeOK, TriggersOK, Trigger
<1>2. QED
  BY <1>1 DEF Undisturbed, Lasting

(* The pass *)
LEMMA PassEffect ==
  ASSUME TypeOK, BooksNow, Pass
  PROVE  \/ phase' = "panicked" /\ Forget
         \/ phase' = phase /\ Lasting /\ Undisturbed
         \/ phase' = phase /\ Lasting /\ \E k, s : Takes(k, s)
<1>1. CASE StartPass
  BY <1>1, SameUndisturbed DEF StartPass, manager
<1>2. ASSUME NEW task \in Periodic, CreatePeriodicTrigger(task)
      PROVE  phase' = phase /\ Lasting /\ Undisturbed
  <2> DEFINE r == [key |-> PeriodicKey[task], kind |-> "periodic", priority |-> PriorityPeriodic,
                   durable |-> FALSE, coverage |-> nextTick[task]]
  <2>1. r \in Request
    BY SchedulerAssumption DEF Request, Kind, Priority, TypeOK
  <2>2. SubmitLocked(r) /\ phase' = phase
    BY <1>2 DEF CreatePeriodicTrigger
  <2>3. ~Ours(r.key)
    BY RemovalsAssumption DEF Ours
  <2> HIDE DEF r
  <2>4. QED
    BY <2>1, <2>2, <2>3, SubmitLockedUndisturbed
<1>3. CASE CreateWorkflowTrigger
  <2> DEFINE r == [key |-> Steps[workflow.step + 1], kind |-> "workflow",
                   priority |-> IF workflow.overdue THEN PriorityConsistencyDeadline
                                ELSE PriorityConsistency,
                   durable |-> TRUE, coverage |-> 0]
  <2>1. workflow.step + 1 \in 1 .. Len(Steps)
    BY <1>3, SchedulerAssumption, LenProperties
       DEF CreateWorkflowTrigger, WorkflowDue, TypeOK, WorkflowOK, Workflow
  <2>2. r \in Request
    <3>1. Steps[workflow.step + 1] \in Key
      BY <2>1, SchedulerAssumption, ElementOfSeq
    <3>2. QED
      BY <3>1 DEF Request, Kind, Priority
  <2>3. SubmitLocked(r) /\ phase' = phase
    BY <1>3 DEF CreateWorkflowTrigger
  <2>4. ~Ours(r.key)
    <3>1. workflow.step + 1 \in {1, 2}
      BY <2>1, RemovalsAssumption
    <3>2. QED
      BY <3>1, RemovalsAssumption DEF Ours, Inventory, Files
  <2> HIDE DEF r
  <2>5. QED
    BY <2>2, <2>3, <2>4, SubmitLockedUndisturbed
<1>4. CASE Preempt
  <2>1. /\ UNCHANGED <<triggers, pending, phase>>
        /\ execs' = [s \in DOMAIN execs |->
                      IF Yields(s) THEN [execs[s] EXCEPT !.state = "cancelling"] ELSE execs[s]]
    BY <1>4 DEF Preempt
  <2>2. /\ DOMAIN execs' = DOMAIN execs
        /\ \A s \in DOMAIN execs : execs'[s].key = execs[s].key
    BY <2>1 DEF TypeOK, ExecsOK, Execution
  <2>3. QED
    BY <2>1, <2>2, SameUndisturbed
<1>5. ASSUME NEW k \in Key, Admit(k)
      PROVE  \/ phase' = "panicked" /\ Forget
             \/ phase' = phase /\ Lasting /\ Undisturbed
             \/ phase' = phase /\ Lasting /\ \E j, s : Takes(j, s)
  <2>1. CASE Panics
    BY <2>1 DEF Panics
  <2>2. CASE ~Panics
    <3> DEFINE e == [key |-> k, triggers |-> pending[k].triggers,
                     priority |-> pending[k].priority,
                     coverage |-> pending[k].coverage, attempt |-> pending[k].attempt,
                     state |-> "running", fresh |-> TRUE,
                     targeted |-> KindsOf(pending[k].triggers) = {"workflow"}]
    <3>1. /\ FreeSlots # {} /\ k \in DOMAIN pending
          /\ execs' = Put(execs, NewSlot, e)
          /\ pending' = Dequeue(k)
          /\ triggers' = Marked(pending[k].triggers, "running")
          /\ phase' = phase /\ loop = "admit" /\ loop' = loop /\ disk' = disk /\ count' = count
      BY <1>5, <2>2 DEF Admit, Admissible, Ready
    <3>2. PICK s : s = NewSlot
      OBVIOUS
    <3>3. s \notin DOMAIN execs
      BY <3>1, <3>2 DEF NewSlot, FreeSlots
    <3>4. e.key = k
      OBVIOUS
    <3> HIDE DEF e
    <3>5. /\ DOMAIN execs' = DOMAIN execs \cup {s} /\ execs'[s].key = k
          /\ \A u \in DOMAIN execs : execs'[u] = execs[u]
      BY <3>1, <3>2, <3>3, <3>4 DEF Put
    <3>6. /\ DOMAIN pending' = DOMAIN pending \ {k}
          /\ \A j \in DOMAIN pending' : pending'[j].triggers = pending[j].triggers
      BY <3>1 DEF Dequeue, TypeOK, PendingOK, Intent
    <3>7. /\ DOMAIN triggers' = DOMAIN triggers
          /\ \A t \in DOMAIN triggers : /\ triggers'[t].key = triggers[t].key
                                        /\ triggers'[t] = triggers[t] \/ triggers'[t].state = "running"
      BY <3>1 DEF Marked, TypeOK, TriggersOK, Trigger
    <3>8. Lasting
      BY <3>5 DEF Lasting
    <3>9. CASE Ours(k)
      BY <3>1, <3>3, <3>5, <3>6, <3>7, <3>8, <3>9 DEF Takes, Final
    <3>10. CASE ~Ours(k)
      BY <3>1, <3>3, <3>5, <3>6, <3>7, <3>8, <3>10 DEF Undisturbed, Final
    <3>11. QED
      BY <3>9, <3>10
  <2>3. QED
    BY <2>1, <2>2
<1>6. CASE EndPass
  <2>1. CASE Panics
    BY <2>1 DEF Panics
  <2>2. CASE ~Panics
    <3> DEFINE blocked == UNION {pending[k].triggers : k \in {j \in Key : Ready(j)}}
    <3>1. triggers' = Marked(blocked, "waiting") /\ UNCHANGED <<phase, pending, execs>>
      BY <1>6, <2>2 DEF EndPass
    <3> HIDE DEF blocked
    <3>2. QED
      BY <3>1, MarkedUndisturbed DEF Final
  <2>3. QED
    BY <2>1, <2>2
<1>7. QED
  BY <1>1, <1>2, <1>3, <1>4, <1>5, <1>6 DEF Pass

(* cancelWorkflowTriggerLocked *)
LEMMA WithdrawnQueue ==
  ASSUME TypeOK, BooksNow, NEW t, NEW k \in DOMAIN PendingWithout(t)
  PROVE  /\ k \in DOMAIN pending
         /\ PendingWithout(t)[k].triggers \subseteq pending[k].triggers
         /\ PendingWithout(t)[k].triggers # {} \/ PendingWithout(t)[k].triggers = pending[k].triggers
         /\ Withdrawn(t) => t \notin PendingWithout(t)[k].triggers
<1>1. CASE ~Withdrawn(t)
  BY <1>1 DEF PendingWithout
<1>2. CASE Withdrawn(t)
  <2> DEFINE j == triggers[t].key
  <2>1. t \in DOMAIN triggers /\ triggers[t].state \in {"pending", "waiting"}
    BY <1>2 DEF Withdrawn
  <2>2. j \in DOMAIN pending
    BY <2>1 DEF BooksNow, Books, Kept
  <2>3. \A i \in DOMAIN pending : t \in pending[i].triggers => i = j
    BY <2>1 DEF BooksNow, Books, QueuedRight
  <2>4. CASE pending[j].triggers \ {t} = {}
    <3>1. PendingWithout(t) = Dequeue(j)
      BY <1>2, <2>2, <2>4 DEF PendingWithout
    <3>2. k \in DOMAIN pending \ {j} /\ PendingWithout(t)[k].triggers = pending[k].triggers
      BY <3>1 DEF Dequeue, TypeOK, PendingOK, Intent
    <3>3. QED
      BY <2>3, <3>2
  <2>5. CASE pending[j].triggers \ {t} # {}
    <3>1. PendingWithout(t) = [pending EXCEPT ![j].triggers = @ \ {t}]
      BY <1>2, <2>2, <2>5 DEF PendingWithout
    <3>2. /\ k \in DOMAIN pending
          /\ k # j => PendingWithout(t)[k] = pending[k]
          /\ k = j => PendingWithout(t)[k].triggers = pending[k].triggers \ {t}
      BY <2>2, <3>1 DEF TypeOK, PendingOK, Intent
    <3>3. QED
      BY <2>3, <2>5, <3>2
  <2>6. QED
    BY <2>4, <2>5
<1>3. QED
  BY <1>1, <1>2

(* The end of finishExecution: `trg` are the triggers before the trimming. *)
LEMMA FinishedEffect ==
  ASSUME NEW s, NEW trg, NEW others, Finished(s, trg, others)
  PROVE  /\ execs' = others /\ phase' = phase /\ loop' = loop /\ PersistOrLog
         /\ DOMAIN triggers' \subseteq DOMAIN trg
         /\ \A t \in DOMAIN triggers' : triggers'[t] = trg[t]
         /\ \A t \in DOMAIN trg : trg[t].state \notin Terminal => t \in DOMAIN triggers'
<1>1. \E cut : triggers' = Restrict(trg, {t \in DOMAIN trg : ~(t \in cut /\ trg[t].state \in Terminal)})
  BY DEF Finished
<1>2. QED
  BY <1>1 DEF Finished, Restrict

(* Settling or requeueing what execution s holds, and withdrawing trigger w. *)
Resolved(trg, s, w) ==
  /\ DOMAIN trg = DOMAIN triggers
  /\ \A t \in DOMAIN triggers :
       /\ trg[t].key = triggers[t].key
       /\ t \notin execs[s].triggers =>
            trg[t] = triggers[t] \/ (t = w /\ Withdrawn(w) /\ trg[t].state = "cancelled")

LEMMA MarkedResolved ==
  ASSUME TypeOK, NEW s, NEW state, NEW w
  PROVE  /\ Resolved(Marked(execs[s].triggers, state), s, w)
         /\ Resolved(TriggersWithdrawing(Marked(execs[s].triggers, state), w), s, w)
<1> DEFINE trg == Marked(execs[s].triggers, state)
<1>1. /\ DOMAIN trg = DOMAIN triggers
      /\ \A t \in DOMAIN triggers : /\ trg[t].key = triggers[t].key
                                    /\ t \notin execs[s].triggers => trg[t] = triggers[t]
                                    /\ trg[t] = triggers[t] \/ trg[t] = [triggers[t] EXCEPT !.state = state]
  BY DEF Marked, TypeOK, TriggersOK, Trigger
<1> HIDE DEF trg
<1>2. Resolved(trg, s, w)
  BY <1>1 DEF Resolved
<1>3. Resolved(TriggersWithdrawing(trg, w), s, w)
  <2>1. CASE Withdrawn(w)
    <3>1. TriggersWithdrawing(trg, w) = [trg EXCEPT ![w].state = "cancelled"]
      BY <2>1 DEF TriggersWithdrawing
    <3>2. /\ w \in DOMAIN triggers
          /\ trg[w] = triggers[w] \/ trg[w] = [triggers[w] EXCEPT !.state = state]
      BY <1>1, <2>1 DEF Withdrawn
    <3>3. /\ DOMAIN TriggersWithdrawing(trg, w) = DOMAIN triggers
          /\ \A t \in DOMAIN triggers \ {w} : TriggersWithdrawing(trg, w)[t] = trg[t]
          /\ TriggersWithdrawing(trg, w)[w] = [trg[w] EXCEPT !.state = "cancelled"]
      BY <1>1, <2>1, <3>1 DEF Withdrawn
    <3>4. /\ TriggersWithdrawing(trg, w)[w].key = triggers[w].key
          /\ TriggersWithdrawing(trg, w)[w].state = "cancelled"
      BY <1>1, <2>1, <3>2, <3>3 DEF Withdrawn, TypeOK, TriggersOK, Trigger
    <3>5. QED
      BY <1>1, <2>1, <3>3, <3>4 DEF Resolved
  <2>2. CASE ~Withdrawn(w)
    BY <1>2, <2>2 DEF TriggersWithdrawing
  <2>3. QED
    BY <2>1, <2>2
<1>4. QED
  BY <1>2, <1>3 DEF trg


(* Execution s ends, the others do not. *)
Ceases(s) ==
  /\ s \in DOMAIN execs
  /\ DOMAIN execs' = DOMAIN execs \ {s}
  /\ \A u \in DOMAIN execs' : execs'[u].key = execs[u].key

LEMMA FinishedUndisturbed ==
  ASSUME BooksNow, NEW s \in DOMAIN execs, ~Ours(execs[s].key),
         NEW trg, NEW w, Resolved(trg, s, w),
         NEW others, DOMAIN others = DOMAIN execs \ {s},
         \A u \in DOMAIN others : others[u].key = execs[u].key,
         Finished(s, trg, others),
         \A k \in DOMAIN pending' : Ours(k) =>
           /\ k \in DOMAIN pending
           /\ pending'[k].triggers \subseteq pending[k].triggers
           /\ pending'[k].triggers # {} \/ pending'[k].triggers = pending[k].triggers
           /\ Withdrawn(w) => w \notin pending'[k].triggers
  PROVE  Undisturbed /\ Ceases(s)
<1>1. /\ execs' = others
      /\ DOMAIN triggers' \subseteq DOMAIN trg
      /\ \A t \in DOMAIN triggers' : triggers'[t] = trg[t]
      /\ \A t \in DOMAIN trg : trg[t].state \notin Terminal => t \in DOMAIN triggers'
  BY FinishedEffect
<1>2. Ceases(s)
  BY <1>1 DEF Ceases
<1>3. ASSUME NEW t \in DOMAIN triggers', Ours(triggers'[t].key)
      PROVE  /\ t \in DOMAIN triggers
             /\ triggers'[t].state \in Final => triggers'[t].state = triggers[t].state
  <2>1. t \in DOMAIN triggers /\ trg[t].key = triggers[t].key /\ triggers'[t] = trg[t]
    BY <1>1 DEF Resolved
  <2>2. t \notin execs[s].triggers
    BY <1>3, <2>1 DEF BooksNow, Books, ServedRight
  <2>3. QED
    BY <2>1, <2>2 DEF Resolved, Final
<1>4. ASSUME NEW k \in DOMAIN pending', Ours(k), NEW t \in pending'[k].triggers \cap DOMAIN triggers
      PROVE  t \in DOMAIN triggers'
  <2>1. k \in DOMAIN pending /\ t \in pending[k].triggers
    BY <1>4
  <2>2. triggers[t].state \in {"pending", "waiting"} /\ t \notin execs[s].triggers
    BY <2>1 DEF BooksNow, Books, QueuedRight, ServedRight
  <2>3. t # w \/ ~Withdrawn(w)
    BY <1>4
  <2>4. trg[t] = triggers[t]
    BY <2>2, <2>3 DEF Resolved
  <2>5. QED
    BY <1>1, <2>2, <2>4 DEF Terminal, Resolved
<1>5. \A k \in DOMAIN pending' : Ours(k) => pending'[k].triggers \cap DOMAIN triggers \subseteq DOMAIN triggers'
  BY <1>4
<1>6. \A u \in DOMAIN execs' : Ours(execs'[u].key) => u \in DOMAIN execs /\ execs'[u].key = execs[u].key
  BY <1>2 DEF Ceases
<1>7. Undisturbed
  BY <1>3, <1>5, <1>6 DEF Undisturbed
<1>8. QED
  BY <1>2, <1>7

LEMMA FinishEffect ==
  ASSUME TypeOK, BooksNow, NEW s \in Slot, Finish(s)
  PROVE  /\ Unlocked /\ phase' = phase /\ loop' = loop /\ PersistOrLog
         /\ Ceases(s)
         /\ ~Ours(execs[s].key) => Undisturbed
<1> DEFINE Fine == /\ Unlocked /\ phase' = phase /\ loop' = loop /\ PersistOrLog
                   /\ Ceases(s)
                   /\ ~Ours(execs[s].key) => Undisturbed
<1>0. ~Withdrawn(0)
  BY DEF Withdrawn, TypeOK, TriggersOK
<1>1. DOMAIN Without(execs, s) = DOMAIN execs \ {s}
      /\ \A u \in DOMAIN Without(execs, s) : Without(execs, s)[u].key = execs[u].key
  BY DEF Without, Restrict
<1>2. ASSUME NEW trg, NEW others, Finished(s, trg, others), s \in DOMAIN execs, Unlocked,
             DOMAIN others = DOMAIN execs \ {s},
             \A u \in DOMAIN others : others[u].key = execs[u].key
      PROVE  /\ Unlocked /\ phase' = phase /\ loop' = loop /\ PersistOrLog
             /\ Ceases(s)
  BY <1>2, FinishedEffect DEF Ceases
<1>3. ASSUME NEW outcome, FinishRequeued(s, outcome)
      PROVE  Fine
  <2>1. PICK delay : pending' = Requeued(execs[s], delay)
    BY <1>3 DEF FinishRequeued
  <2>2. \A k \in DOMAIN pending' : k # execs[s].key => k \in DOMAIN pending /\ pending'[k] = pending[k]
    BY <2>1 DEF Requeued, Put
  <2>3. s \in DOMAIN execs /\ Unlocked /\ Finished(s, Marked(execs[s].triggers, "pending"), Without(execs, s))
    BY <1>3 DEF FinishRequeued
  <2>4. Resolved(Marked(execs[s].triggers, "pending"), s, 0)
    BY MarkedResolved
  <2>5. ~Ours(execs[s].key) => Undisturbed
    BY <1>0, <1>1, <2>2, <2>3, <2>4, FinishedUndisturbed
  <2>6. QED
    BY <1>1, <1>2, <2>3, <2>5
<1>4. ASSUME NEW state, s \in DOMAIN execs, Unlocked, UNCHANGED pending,
             Finished(s, Marked(execs[s].triggers, state), Without(execs, s))
      PROVE  Fine
  <2>1. Resolved(Marked(execs[s].triggers, state), s, 0)
    BY MarkedResolved
  <2>2. ~Ours(execs[s].key) => Undisturbed
    BY <1>0, <1>1, <1>4, <2>1, FinishedUndisturbed
  <2>3. QED
    BY <1>1, <1>2, <1>4, <2>2
<1>5. CASE FinishInterrupted(s) \/ \E outcome : FinishFailed(s, outcome)
  BY <1>4, <1>5 DEF FinishInterrupted, FinishFailed
<1>6. CASE FinishSucceeded(s)
  <2>1. CASE ~Satisfies(execs[s])
    BY <1>4, <1>6, <2>1 DEF FinishSucceeded
  <2>2. CASE Satisfies(execs[s])
    <3> DEFINE w == workflow.trigger
               trg == TriggersWithdrawing(Marked(execs[s].triggers, "fulfilled"), w)
               others == NoneFresh(Without(execs, s))
    <3>1. s \in DOMAIN execs /\ Unlocked /\ pending' = PendingWithout(w) /\ Finished(s, trg, others)
      BY <1>6, <2>2 DEF FinishSucceeded
    <3>2. Resolved(trg, s, w)
      BY MarkedResolved
    <3>3. DOMAIN others = DOMAIN execs \ {s} /\ \A u \in DOMAIN others : others[u].key = execs[u].key
      <4>1. ExecsOK(Without(execs, s))
        BY WithoutExecs DEF TypeOK
      <4>2. QED
        BY <1>1, <4>1, NoneFreshHeld
    <3>4. \A k \in DOMAIN pending' :
            /\ k \in DOMAIN pending
            /\ pending'[k].triggers \subseteq pending[k].triggers
            /\ pending'[k].triggers # {} \/ pending'[k].triggers = pending[k].triggers
            /\ Withdrawn(w) => w \notin pending'[k].triggers
      BY <3>1, WithdrawnQueue
    <3> HIDE DEF w, trg, others
    <3>5. ~Ours(execs[s].key) => Undisturbed
      BY <3>1, <3>2, <3>3, <3>4, FinishedUndisturbed
    <3>6. QED
      BY <1>2, <3>1, <3>3, <3>5
  <2>3. QED
    BY <2>1, <2>2
<1>7. QED
  BY <1>3, <1>5, <1>6 DEF Finish

(* The execution of a removal ends with the verdict given; nothing else     *)
(* happens to the triggers, but that settled ones may be trimmed.           *)
Settles(s, verdict) ==
  /\ Ours(execs[s].key) /\ Ceases(s)
  /\ pending' = pending
  /\ DOMAIN triggers' \subseteq DOMAIN triggers
  /\ \A t \in DOMAIN triggers' : /\ t \notin execs[s].triggers => triggers'[t] = triggers[t]
                                 /\ t \in execs[s].triggers /\ triggers[t].durable =>
                                      triggers'[t].state = verdict
  /\ \A t \in DOMAIN triggers :
       t \notin execs[s].triggers /\ triggers[t].state \notin Terminal => t \in DOMAIN triggers'

LEMMA ReturnEffect ==
  ASSUME TypeOK, BooksNow, NEW s \in DOMAIN execs, Ours(execs[s].key),
         NEW failed \in BOOLEAN,
         IF failed THEN FinishFailed(s, "permanent") ELSE FinishSucceeded(s)
  PROVE  Settles(s, IF failed THEN "failed" ELSE "fulfilled")
<1>1. ~Satisfies(execs[s])
  <2>1. SUFFICES ASSUME workflow.step < Len(Steps), Ours(Steps[workflow.step + 1])
                 PROVE  FALSE
    BY DEF Satisfies, Ours
  <2>2. workflow.step + 1 \in {1, 2}
    BY <2>1, RemovalsAssumption DEF TypeOK, WorkflowOK, Workflow
  <2>3. QED
    BY <2>1, <2>2, RemovalsAssumption DEF Ours, Inventory, Files
<1> DEFINE verdict == IF failed THEN "failed" ELSE "fulfilled"
<1>2. pending' = pending /\ Finished(s, Marked(execs[s].triggers, verdict), Without(execs, s))
  BY <1>1 DEF FinishFailed, FinishSucceeded
<1>3. verdict \in Terminal
  BY DEF Terminal
<1> HIDE DEF verdict
<1> DEFINE trg == Marked(execs[s].triggers, verdict)
<1>4. /\ DOMAIN trg = DOMAIN triggers
      /\ \A t \in DOMAIN triggers : /\ t \notin execs[s].triggers => trg[t] = triggers[t]
                                    /\ t \in execs[s].triggers => trg[t].state = verdict
  BY DEF Marked, TypeOK, TriggersOK, Trigger
<1> HIDE DEF trg
<1>5. /\ execs' = Without(execs, s)
      /\ DOMAIN triggers' \subseteq DOMAIN trg
      /\ \A t \in DOMAIN triggers' : triggers'[t] = trg[t]
      /\ \A t \in DOMAIN trg : trg[t].state \notin Terminal => t \in DOMAIN triggers'
  <2>1. Finished(s, trg, Without(execs, s))
    BY <1>2 DEF trg
  <2>2. QED
    BY <2>1, FinishedEffect
<1>6. Ceases(s)
  BY <1>5 DEF Ceases, Without, Restrict
<1>7. Settles(s, verdict)
  BY <1>2, <1>4, <1>5, <1>6 DEF Settles
<1>8. QED
  BY <1>7 DEF verdict


LEMMA AdvanceEffect ==
  ASSUME TypeOK, BooksNow, NEW quiet, AdvanceWorkflow(quiet)
  PROVE  Undisturbed /\ Lasting /\ Unlocked /\ phase' = phase /\ loop' = loop
<1>0. Unlocked /\ phase' = phase /\ loop' = loop
  BY DEF AdvanceWorkflow
<1>1. CASE UNCHANGED manager
  BY <1>0, <1>1, SameUndisturbed DEF manager
<1>2. CASE ~UNCHANGED manager
  <2> DEFINE w == workflow.trigger
  <2>1. /\ pending' = PendingWithout(w)
        /\ triggers' = TriggersWithdrawing(triggers, w)
        /\ execs' = NoneFresh(execs)
    BY <1>2 DEF AdvanceWorkflow
  <2>2. \A k \in DOMAIN pending' :
          /\ k \in DOMAIN pending
          /\ pending'[k].triggers \subseteq pending[k].triggers
          /\ pending'[k].triggers # {} \/ pending'[k].triggers = pending[k].triggers
    BY <2>1, WithdrawnQueue
  <2> HIDE DEF w
  <2>3. /\ DOMAIN triggers' = DOMAIN triggers
        /\ \A t \in DOMAIN triggers : /\ triggers'[t].key = triggers[t].key
                                      /\ triggers'[t] = triggers[t] \/ triggers'[t].state = "cancelled"
    BY <2>1 DEF TriggersWithdrawing, Withdrawn, TypeOK, TriggersOK, Trigger
  <2>4. DOMAIN execs' = DOMAIN execs /\ \A s \in DOMAIN execs : execs'[s].key = execs[s].key
    BY <2>1, NoneFreshHeld DEF TypeOK
  <2>5. Undisturbed
    BY <2>2, <2>3, <2>4 DEF Undisturbed, Final
  <2>6. QED
    BY <1>0, <2>4, <2>5 DEF Lasting
<1>3. QED
  BY <1>1, <1>2

(* A round of the recovery.  A removal that was running is never retried. *)
LEMMA RecoverEffect ==
  ASSUME TypeOK, BooksNow, NEW s, RecoverInterrupted(s)
  PROVE  \/ phase' = "panicked" /\ Forget /\ disk' = disk
         \/ phase' = phase /\ disk' = disk /\ Ceases(s)
            /\ (Settles(s, "attention") \/ Undisturbed)
<1>1. CASE Panics
  BY <1>1 DEF Panics
<1>2. CASE ~Panics
  <2> DEFINE e == execs[s]
  <2>1. s \in DOMAIN execs /\ phase' = phase /\ disk' = disk /\ execs' = Without(execs, s)
    BY <1>2 DEF RecoverInterrupted
  <2>2. Ceases(s)
    BY <2>1 DEF Ceases, Without, Restrict
  <2>3. \/ pending' = Requeued(e, FALSE) /\ triggers' = Marked(e.triggers, "pending")
           /\ TaskOf[e.key] \in RetryRecovery
        \/ UNCHANGED pending /\ triggers' = [t \in DOMAIN triggers |->
                 IF t \notin e.triggers THEN triggers[t]
                 ELSE [triggers[t] EXCEPT !.state =
                         IF triggers[t].durable THEN "attention" ELSE "interrupted"]]
    BY <1>2 DEF RecoverInterrupted
  <2>4. /\ DOMAIN triggers' = DOMAIN triggers
        /\ \A t \in DOMAIN triggers : /\ triggers'[t].key = triggers[t].key
                                      /\ t \notin e.triggers => triggers'[t] = triggers[t]
    BY <2>3 DEF Marked, TypeOK, TriggersOK, Trigger
  <2>5. CASE Ours(e.key)
    <3>1. UNCHANGED pending
      BY <2>3, <2>5, RemovalsAssumption DEF Ours
    <3>2. \A t \in DOMAIN triggers : t \in e.triggers /\ triggers[t].durable =>
            triggers'[t].state = "attention"
      <4>1. triggers' = [t \in DOMAIN triggers |->
                 IF t \notin e.triggers THEN triggers[t]
                 ELSE [triggers[t] EXCEPT !.state =
                         IF triggers[t].durable THEN "attention" ELSE "interrupted"]]
        BY <2>3, <2>5, RemovalsAssumption DEF Ours
      <4>2. QED
        BY <4>1 DEF TypeOK, TriggersOK, Trigger
    <3>3. QED
      BY <2>1, <2>2, <2>4, <2>5, <3>1, <3>2 DEF Settles
  <2>6. CASE ~Ours(e.key)
    <3>1. \A k \in DOMAIN pending' : k # e.key => k \in DOMAIN pending /\ pending'[k] = pending[k]
      BY <2>3 DEF Requeued, Put
    <3>2. \A t \in DOMAIN triggers : Ours(triggers[t].key) => t \notin e.triggers
      BY <2>1, <2>6 DEF BooksNow, Books, ServedRight
    <3>3. \A t \in DOMAIN triggers' : Ours(triggers'[t].key) => triggers'[t] = triggers[t]
      BY <2>4, <3>2
    <3>4. \A k \in DOMAIN pending' : Ours(k) => k \in DOMAIN pending /\ pending'[k] = pending[k]
      BY <2>6, <3>1
    <3> HIDE DEF e
    <3>5. Undisturbed
      BY <2>2, <2>4, <3>3, <3>4 DEF Undisturbed, Ceases
    <3>6. QED
      BY <2>1, <2>2, <3>5
  <2>7. QED
    BY <2>5, <2>6
<1>3. QED
  BY <1>1, <1>2

LEMMA DelayEffect ==
  ASSUME TypeOK, QuietPeriodElapses \/ \E k \in Key : DelayElapses(k)
  PROVE  /\ Undisturbed /\ Lasting /\ phase' = phase /\ loop' = loop
         /\ DOMAIN execs' = DOMAIN execs /\ DOMAIN pending' = DOMAIN pending
         /\ Unlocked /\ triggers' = triggers
<1>1. CASE QuietPeriodElapses
  BY <1>1, SameUndisturbed DEF QuietPeriodElapses, WorkflowTimePasses
<1>2. ASSUME NEW k \in Key, DelayElapses(k)
      PROVE  /\ Undisturbed /\ Lasting /\ phase' = phase /\ loop' = loop
             /\ DOMAIN execs' = DOMAIN execs /\ DOMAIN pending' = DOMAIN pending
             /\ Unlocked /\ triggers' = triggers
  <2>1. UNCHANGED <<triggers, execs, phase, loop>> /\ pending' = Elapsed(pending, k) /\ Unlocked
    BY <1>2 DEF DelayElapses
  <2>2. DOMAIN pending' = DOMAIN pending
        /\ \A j \in DOMAIN pending : pending'[j].triggers = pending[j].triggers
    BY <2>1 DEF Elapsed, TypeOK, PendingOK, Intent
  <2>3. QED
    BY <2>1, <2>2, SameUndisturbed
<1>3. QED
  BY <1>1, <1>2


(* The process ends, and with it everything but SQLite. *)
Gone == phase' \in {"down", "panicked"} /\ Forget
Reset ==
  /\ caller' = [c \in Caller |-> IdleCaller]
  /\ runner' = EmptyMap /\ scan' = EmptyMap
  /\ server' = Starting
  /\ UNCHANGED <<journal, scope, edits, acted, refused, debts>>

(* The next process reads what is there. *)
Loaded ==
  /\ phase \in {"down", "panicked"} /\ phase' = "recovering"
  /\ triggers' = disk.triggers /\ pending' = disk.pending /\ execs' = disk.execs
  /\ disk' = disk

(* What runs for the domain goes on running. *)
Attended ==
  \A s \in DOMAIN runner' \cup DOMAIN scan' :
    s \in DOMAIN execs /\ s \in DOMAIN execs' /\ execs'[s].key = execs[s].key

(* Life goes on, and until NewServer has returned nothing is started. *)
GoesOn ==
  /\ \/ phase' = phase
     \/ phase = "up" /\ phase' = "stopping"
     \/ phase = "recovering" /\ phase' = "up" /\ DOMAIN execs' = {} /\ loop' = loop
  /\ Alive /\ server.at # "open" => DOMAIN execs' = DOMAIN execs /\ loop' = loop

Calm == Undisturbed /\ Attended /\ GoesOn

(* How far NewServer is, and what may happen meanwhile. *)
Orderly ==
  /\ ~Alive => server = Starting
  /\ server.at # "open" =>
       DOMAIN runner = {} /\ DOMAIN scan = {} /\ \A c \in Caller : caller[c].at = "idle"
  /\ Alive /\ server.at # "open" => DOMAIN execs = {} /\ loop = "asleep"

(* The operation a caller hands over has a row. *)
Submitting ==
  \A c \in Caller :
    /\ caller[c].at \in {"submit", "refuse"} => caller[c].operation \in DOMAIN journal
    /\ caller[c].at = "refuse" => c \in Browser

(* The keys the scheduler knows, in memory and on disk. *)
Keys(trg, pend, ex) ==
  DOMAIN pend \cup {ex[s].key : s \in DOMAIN ex} \cup {trg[t].key : t \in DOMAIN trg}
Everywhere == Keys(triggers, pending, execs) \cup Keys(disk.triggers, disk.pending, disk.execs)

(* A removal the scheduler knows has a row. *)
Journaled == \A k \in Everywhere : Ours(k) => \E i \in DOMAIN journal : OperationKey[i] = k

Core == Below /\ RemovalsTypeOK /\ Submitting /\ Journaled /\ Orderly

LEMMA SchedulerEffect ==
  ASSUME Core, SchedulerSteps
  PROVE  \/ Gone /\ Reset
         \/ Loaded /\ UNCHANGED domain
         \/ UNCHANGED domain /\ Calm
         \/ /\ UNCHANGED domain /\ Attended /\ phase' = phase
            /\ \/ server.at = "open" /\ \E k, s : Takes(k, s)
               \/ phase = "recovering" /\ disk' = disk /\ \E s : Settles(s, "attention")
<1> USE DEF Core, Below, Accounted
<1>0. TypeOK /\ BooksNow /\ Idle
  OBVIOUS
<1>1. Gone => Reset
  BY DEF Gone, SchedulerSteps, Reset
<1>2. phase' \notin {"down", "panicked"} => UNCHANGED domain
  BY DEF SchedulerSteps
<1>3. \A s \in DOMAIN runner \cup DOMAIN scan : s \in DOMAIN execs
  BY DEF RemovalsTypeOK, RemovalRuns, Scans
<1>4. Lasting /\ UNCHANGED domain => Attended
  BY <1>3 DEF Lasting, Attended, domain
<1>5. Alive \/ (phase = "recovering" /\ DOMAIN runner = {} /\ DOMAIN scan = {}) \/ phase \in {"down", "panicked"}
  BY DEF Alive, TypeOK, Orderly, Starting
<1>6. ASSUME Lasting, Undisturbed, phase' = phase, phase \notin {"down", "panicked"},
             Alive /\ server.at # "open" => DOMAIN execs' = DOMAIN execs /\ loop' = loop
      PROVE  UNCHANGED domain /\ Calm
  BY <1>2, <1>4, <1>6 DEF Calm, GoesOn
<1>7. CASE server.at = "open" /\ Pass
  <2>1. Alive
    BY <1>7 DEF Orderly, Starting
  <2>2. phase \notin {"down", "panicked"}
    BY <2>1 DEF Alive
  <2>3. CASE phase' = "panicked" /\ Forget
    BY <1>1, <2>3 DEF Gone
  <2>4. CASE phase' = phase /\ Lasting /\ Undisturbed
    BY <1>6, <1>7, <2>2, <2>4
  <2>5. CASE phase' = phase /\ Lasting /\ \E k, s : Takes(k, s)
    BY <1>2, <1>4, <1>7, <2>2, <2>5
  <2>6. QED
    BY <1>0, <1>7, <2>3, <2>4, <2>5, PassEffect
<1>8. CASE server.at = "open" /\ StopLoop
  <2>1. /\ UNCHANGED <<triggers, pending, execs, phase>> /\ phase = "stopping"
    BY <1>8 DEF StopLoop, manager
  <2>2. QED
    BY <1>6, <1>8, <2>1, SameUndisturbed
<1>9. ASSUME server.at = "open", NEW r \in Requests, Submit(r)
      PROVE  UNCHANGED domain /\ Calm
  <2>1. Alive /\ phase' = phase
    BY <1>9 DEF Submit, Unlocked
  <2>2. Lasting /\ Undisturbed
    <3>1. r \in Request /\ ~Ours(r.key)
      BY SchedulerAssumption, RemovalsAssumption DEF Ours
    <3>2. CASE SubmitLocked(r)
      BY <3>1, <3>2, SubmitLockedUndisturbed
    <3>3. CASE UNCHANGED manager
      BY <3>3, SameUndisturbed DEF manager
    <3>4. QED
      BY <1>9, <3>2, <3>3 DEF Submit
  <2>3. QED
    BY <1>6, <1>9, <2>1, <2>2 DEF Alive
<1>10. ASSUME NEW s \in Slot, RecoverInterrupted(s)
       PROVE  \/ Gone /\ Reset
              \/ UNCHANGED domain /\ Calm
              \/ /\ UNCHANGED domain /\ Attended /\ phase' = phase
                 /\ phase = "recovering" /\ disk' = disk /\ \E u : Settles(u, "attention")
  <2>1. phase = "recovering"
    BY <1>10 DEF RecoverInterrupted
  <2>2. ~Alive /\ DOMAIN runner = {} /\ DOMAIN scan = {}
    BY <1>5, <2>1 DEF Alive
  <2>3. CASE phase' = "panicked" /\ Forget
    BY <1>1, <2>3 DEF Gone
  <2>4. CASE phase' = phase /\ disk' = disk /\ Ceases(s) /\ (Settles(s, "attention") \/ Undisturbed)
    <3>1. UNCHANGED domain
      BY <1>2, <2>1, <2>4
    <3>2. Attended /\ GoesOn
      BY <2>2, <2>4, <3>1 DEF Attended, GoesOn, domain
    <3>3. QED
      BY <2>1, <2>4, <3>1, <3>2 DEF Calm
  <2>5. QED
    BY <1>10, <2>3, <2>4, RecoverEffect
<1>11. CASE RecoveryDone
  <2>1. phase = "recovering" /\ execs = EmptyMap
    BY <1>11 DEF RecoveryDone
  <2>2. ~Alive /\ DOMAIN runner = {} /\ DOMAIN scan = {} /\ DOMAIN execs = {}
    BY <1>5, <2>1 DEF Alive, EmptyMap
  <2>3. CASE phase' = "down"
    <3>1. Forget
      BY <1>11, <2>3 DEF RecoveryDone
    <3>2. QED
      BY <1>1, <2>3, <3>1 DEF Gone
  <2>4. CASE phase' = "up"
    <3>1. UNCHANGED <<triggers, pending, execs, loop>>
      BY <1>11, <2>4 DEF RecoveryDone, manager
    <3>2. UNCHANGED domain
      BY <1>2, <2>4
    <3>3. Undisturbed /\ Attended
      BY <2>2, <3>1, <3>2, SameUndisturbed DEF Attended, domain
    <3>4. QED
      BY <2>1, <2>2, <2>4, <3>1, <3>2, <3>3 DEF Calm, GoesOn
  <2>5. QED
    BY <1>11, <2>3, <2>4 DEF RecoveryDone
<1>12. CASE QuietPeriodElapses \/ \E k \in Key : DelayElapses(k)
  <2>1. Undisturbed /\ Lasting /\ phase' = phase /\ loop' = loop /\ DOMAIN execs' = DOMAIN execs
        /\ Unlocked
    BY <1>0, <1>12, DelayEffect
  <2>2. phase \notin {"down", "panicked"}
    BY <2>1 DEF Unlocked, Alive
  <2>3. QED
    BY <1>6, <2>1, <2>2
<1>13. CASE Restart
  BY <1>2, <1>13 DEF Restart, Loaded
<1>14. CASE Crash \/ Stopped \/ Exit
  BY <1>1, <1>14 DEF Crash, Stopped, Exit, Gone
<1>15. CASE Shutdown \/ GraceExpires
  <2>1. /\ UNCHANGED <<triggers, pending, execs, loop>>
        /\ phase' = phase \/ (phase = "up" /\ phase' = "stopping")
        /\ phase' = "stopping"
    BY <1>15 DEF Shutdown, GraceExpires, manager
  <2>2. UNCHANGED domain
    BY <1>2, <2>1
  <2>3. Undisturbed /\ Lasting
    BY <2>1, SameUndisturbed
  <2>4. Attended
    BY <1>4, <2>2, <2>3
  <2>5. QED
    BY <2>1, <2>2, <2>3, <2>4 DEF Calm, GoesOn
<1>16. QED
  BY <1>7, <1>8, <1>9, <1>10, <1>11, <1>12, <1>13, <1>14, <1>15 DEF SchedulerSteps, Recovery


(* The scheduler takes the removal of row i, and knows it on disk. *)
Handed(i) ==
  /\ i \in DOMAIN journal
  /\ SubmitLocked(RemovalRequest(i)) /\ disk' = PersistenceView' /\ Unlocked
  /\ UNCHANGED <<phase, loop>> /\ count' = [count EXCEPT !.submits = @ + 1]

LEMMA RequestOfRow ==
  ASSUME NEW i \in DOMAIN OperationKey
  PROVE  /\ RemovalRequest(i) \in Request /\ Ours(OperationKey[i])
         /\ RemovalRequest(i).key = OperationKey[i]
<1>1. OperationKey[i] \in Key
  BY RemovalsAssumption, ElementOfSeq, LenProperties
<1>2. QED
  BY <1>1, RemovalsAssumption DEF RemovalRequest, Request, Kind, Priority, Ours

LEMMA RowsHaveKeys ==
  ASSUME RemovalsTypeOK
  PROVE  /\ DOMAIN journal = 1 .. Len(journal) /\ Len(journal) \in Nat
         /\ DOMAIN OperationKey = 1 .. Len(OperationKey) /\ Len(OperationKey) \in Nat
         /\ DOMAIN journal \subseteq DOMAIN OperationKey
<1>1. DOMAIN journal = 1 .. Len(journal) /\ Len(journal) \in Nat /\ Len(journal) <= Len(OperationKey)
  BY LenProperties DEF RemovalsTypeOK
<1>2. DOMAIN OperationKey = 1 .. Len(OperationKey) /\ Len(OperationKey) \in Nat
  BY RemovalsAssumption, LenProperties
<1>3. QED
  BY <1>1, <1>2

LEMMA NextEventIsDue ==
  ASSUME RemovalsTypeOK, server.todo # {}
  PROVE  NextEvent \in server.todo /\ NextEvent \in DOMAIN journal
<1>1. server.todo \subseteq DOMAIN journal
  BY DEF RemovalsTypeOK
<1>2. server.todo \in SUBSET Nat
  BY <1>1, RowsHaveKeys
<1>3. \E m \in server.todo : \A i \in server.todo : m <= i
  BY <1>2, SmallestOf
<1>4. QED
  BY <1>1, <1>3 DEF NextEvent

(* A submission is taken or it leaves no trace. *)
LEMMA SubmissionEffect ==
  ASSUME Core, NEW i \in DOMAIN journal, Submit(RemovalRequest(i))
  PROVE  /\ phase' = phase /\ loop' = loop /\ Lasting /\ Unlocked /\ DOMAIN execs' = DOMAIN execs
         /\ \/ Handed(i) /\ issued' # issued
            \/ Undisturbed /\ issued' = issued /\ PersistFails
<1>0. phase' = phase /\ loop' = loop /\ Unlocked
  BY DEF Submit
<1>1. CASE /\ SubmitLocked(RemovalRequest(i)) /\ disk' = PersistenceView'
           /\ count' = [count EXCEPT !.submits = @ + 1]
  <2>1. issued' # issued
    BY <1>1 DEF SubmitLocked, Core, Below, TypeOK
  <2>2. Lasting /\ DOMAIN execs' = DOMAIN execs
    BY <1>1, SubmitLockedHeld DEF Lasting, Core, Below
  <2>3. QED
    BY <1>0, <1>1, <2>1, <2>2 DEF Handed
<1>2. CASE UNCHANGED manager /\ PersistFails
  BY <1>0, <1>2, SameUndisturbed DEF manager
<1>3. QED
  BY <1>1, <1>2 DEF Submit

(* What a step does to the removals the scheduler knows.                    *)
Happens ==
  \/ Undisturbed
  \/ UNCHANGED domain /\ server.at = "open" /\ \E k, s : Takes(k, s)
  \/ UNCHANGED domain /\ phase = "recovering" /\ disk' = disk /\ \E s : Settles(s, "attention")
  \/ \E c \in Caller : HandOver(c) /\ Handed(caller[c].operation)
  \/ RecoverEvent /\ RecoverUnscheduled /\ Handed(NextEvent)
  \/ \E s \in DOMAIN runner :
       Return(s) /\ Settles(s, IF runner[s].failed THEN "failed" ELSE "fulfilled")

LEMMA DomainEffect ==
  ASSUME Core, Admission \/ Running \/ Scanning \/ ServiceChanges \/ ServerStarts
  PROVE  Attended /\ GoesOn /\ phase' = phase /\ Alive /\ Happens
<1> DEFINE Goal == /\ Attended /\ GoesOn /\ phase' = phase /\ Alive
                   /\ \/ Undisturbed
                      \/ \E c \in Caller : HandOver(c) /\ Handed(caller[c].operation)
                      \/ RecoverEvent /\ RecoverUnscheduled /\ Handed(NextEvent)
                      \/ \E s \in DOMAIN runner :
                           Return(s) /\ Settles(s, IF runner[s].failed THEN "failed" ELSE "fulfilled")
<1> SUFFICES Goal
  BY DEF Happens
<1> USE DEF Core, Below, Accounted
<1>0. TypeOK /\ BooksNow /\ Idle
  OBVIOUS
<1>1. \A s \in DOMAIN runner \cup DOMAIN scan : s \in DOMAIN execs
  BY DEF RemovalsTypeOK, RemovalRuns, Scans
<1>2. /\ server.at = "open" => Alive
      /\ Unlocked => Alive
      /\ DOMAIN runner # {} \/ DOMAIN scan # {} \/ (\E c \in Caller : caller[c].at # "idle") => Alive
  BY DEF Orderly, Starting, Unlocked
<1>3. ASSUME UNCHANGED <<triggers, pending, execs, phase, loop>>, Alive,
             DOMAIN runner' \subseteq DOMAIN execs, DOMAIN scan' \subseteq DOMAIN execs
      PROVE  Goal
  <2>1. Undisturbed
    BY <1>3, SameUndisturbed
  <2>2. Attended /\ GoesOn
    BY <1>3 DEF Attended, GoesOn
  <2>3. QED
    BY <1>3, <2>1, <2>2
<1>4. (Written \/ NotWritten) => UNCHANGED <<triggers, pending, execs, phase, loop>>
  BY DEF Written, NotWritten, vars, manager
<1>5. ASSUME Admission
      PROVE  Goal
  <2>1. ASSUME NEW c \in Caller, Arrive(c) \/ Save(c)
        PROVE  Goal
    <3>1. UNCHANGED <<triggers, pending, execs, phase, loop>> /\ UNCHANGED <<runner, scan>>
      BY <1>4, <2>1 DEF Arrive, Save, vars, manager
    <3>2. Alive
      BY <1>2, <2>1 DEF Arrive, Save
    <3>3. QED
      BY <1>1, <1>3, <3>1, <3>2
  <2>2. ASSUME NEW c \in Browser, Lookup(c) \/ Refuse(c)
        PROVE  Goal
    <3>1. UNCHANGED <<triggers, pending, execs, phase, loop>> /\ UNCHANGED <<runner, scan>>
      BY <1>4, <2>2 DEF Lookup, Refuse, vars, manager
    <3>2. Alive
      BY <1>2, <2>2 DEF Lookup, Refuse, Caller
    <3>3. QED
      BY <1>1, <1>3, <3>1, <3>2
  <2>3. ASSUME NEW c \in Caller, HandOver(c)
        PROVE  Goal
    <3> DEFINE i == caller[c].operation
    <3>1. Submit(RemovalRequest(i)) /\ UNCHANGED <<runner, scan>> /\ caller[c].at = "submit"
      BY <2>3 DEF HandOver
    <3>2. i \in DOMAIN journal
      BY <3>1 DEF Submitting
    <3>3. /\ phase' = phase /\ loop' = loop /\ Lasting /\ Unlocked /\ DOMAIN execs' = DOMAIN execs
          /\ Handed(i) \/ Undisturbed
      BY <3>1, <3>2, SubmissionEffect
    <3>4. Attended /\ GoesOn
      BY <1>1, <3>1, <3>3 DEF Attended, GoesOn, Lasting
    <3>5. QED
      BY <1>2, <2>3, <3>3, <3>4
  <2>4. QED
    BY <1>5, <2>1, <2>2, <2>3 DEF Admission
<1>6. ASSUME NEW s \in Slot, Revalidate(s) \/ Reject(s) \/ Act(s) \/ QueueScope(s) \/ Finalize(s)
      PROVE  Goal
  <2>1. UNCHANGED <<triggers, pending, execs, phase, loop>> /\ UNCHANGED scan
    BY <1>4, <1>6 DEF Revalidate, Reject, Act, QueueScope, Finalize, vars, manager
  <2>2. s \in DOMAIN execs /\ Alive
    BY <1>1, <1>2, <1>6 DEF Revalidate, Reject, Act, QueueScope, Finalize, RemovalRuns
  <2>3. DOMAIN runner' \subseteq DOMAIN runner \cup {s}
    BY <1>6 DEF Revalidate, Reject, Act, QueueScope, Finalize, Step, Put
  <2>4. QED
    BY <1>1, <1>3, <2>1, <2>2, <2>3
<1>7. ASSUME AdvanceWorkflow(TRUE) \/ AdvanceWorkflow(FALSE), DOMAIN runner' = DOMAIN runner, scan' = scan
      PROVE  Goal
  <2>1. Undisturbed /\ Lasting /\ Unlocked /\ phase' = phase /\ loop' = loop
    BY <1>0, <1>7, AdvanceEffect
  <2>2. DOMAIN execs' = DOMAIN execs
    BY <1>7, NoneFreshHeld DEF AdvanceWorkflow, manager, TypeOK
  <2>3. Attended /\ GoesOn
    BY <1>1, <1>7, <2>1, <2>2 DEF Attended, GoesOn, Lasting
  <2>4. QED
    BY <1>2, <2>1, <2>3
<1>8. ASSUME NEW s \in Slot, AdvanceAfter(s)
      PROVE  Goal
  <2>1. AdvanceWorkflow(FALSE) /\ DOMAIN runner' = DOMAIN runner /\ scan' = scan
    BY <1>8 DEF AdvanceAfter
  <2>2. QED
    BY <1>7, <2>1
<1>9. CASE ServiceChanges \/ RestoreWorkflow
  <2>1. (AdvanceWorkflow(TRUE) \/ AdvanceWorkflow(FALSE)) /\ DOMAIN runner' = DOMAIN runner /\ scan' = scan
    BY <1>9 DEF ServiceChanges, RestoreWorkflow
  <2>2. QED
    BY <1>7, <2>1
<1>10. ASSUME NEW s \in DOMAIN execs, Finish(s), s \in Slot,
              DOMAIN runner' \subseteq DOMAIN runner, DOMAIN scan' \subseteq DOMAIN scan,
              s \notin DOMAIN runner', s \notin DOMAIN scan'
       PROVE  /\ Attended /\ GoesOn /\ phase' = phase /\ Alive
              /\ ~Ours(execs[s].key) => Undisturbed
  <2>1. /\ Unlocked /\ phase' = phase /\ loop' = loop /\ Ceases(s)
        /\ ~Ours(execs[s].key) => Undisturbed
    BY <1>0, <1>10, FinishEffect
  <2>2. Attended
    BY <1>1, <1>10, <2>1 DEF Attended, Ceases
  <2>3. GoesOn
    BY <1>10, <2>1 DEF GoesOn, Orderly
  <2>4. QED
    BY <1>2, <2>1, <2>2, <2>3
<1>11. ASSUME NEW s \in Slot, Return(s)
       PROVE  Goal
  <2>1. /\ s \in DOMAIN runner /\ runner' = Without(runner, s) /\ scan' = scan
        /\ IF runner[s].failed THEN FinishFailed(s, "permanent") ELSE FinishSucceeded(s)
    BY <1>11 DEF Return
  <2>2. s \in DOMAIN execs /\ Ours(execs[s].key) /\ runner[s].failed \in BOOLEAN /\ s \notin DOMAIN scan
    BY <2>1, RemovalsAssumption DEF RemovalsTypeOK, RemovalRuns, Scans, Ours
  <2>3. DOMAIN runner' = DOMAIN runner \ {s}
    BY <2>1 DEF Without, Restrict
  <2>4. Finish(s)
    BY <2>1, <2>2 DEF Finish
  <2>5. Settles(s, IF runner[s].failed THEN "failed" ELSE "fulfilled")
    <3>1. PICK failed \in BOOLEAN : failed = runner[s].failed
      BY <2>2
    <3>2. IF failed THEN FinishFailed(s, "permanent") ELSE FinishSucceeded(s)
      BY <2>1, <3>1
    <3>3. Settles(s, IF failed THEN "failed" ELSE "fulfilled")
      BY <1>0, <2>2, <3>2, ReturnEffect
    <3>4. QED
      BY <3>1, <3>3
  <2>6. QED
    BY <1>10, <1>11, <2>1, <2>2, <2>3, <2>4, <2>5
<1>12. ASSUME NEW s \in Slot, BeginScan(s) \/ Publish(s) \/ ClearScope(s)
       PROVE  Goal
  <2>1. UNCHANGED <<triggers, pending, execs, phase, loop>> /\ UNCHANGED runner
    BY <1>4, <1>12 DEF BeginScan, Publish, ClearScope, vars, manager
  <2>2. s \in DOMAIN execs /\ Alive
    BY <1>1, <1>2, <1>12 DEF BeginScan, Publish, ClearScope, Scans
  <2>3. DOMAIN scan' \subseteq DOMAIN scan \cup {s}
    BY <1>12 DEF BeginScan, Publish, ClearScope, Put
  <2>4. QED
    BY <1>1, <1>3, <2>1, <2>2, <2>3
<1>13. ASSUME NEW s \in Slot, ScanReturns(s)
       PROVE  Goal
  <2>1. Scans(s) /\ scan' = Restrict(scan, DOMAIN scan \ {s}) /\ runner' = runner /\ Finish(s)
    BY <1>13 DEF ScanReturns, Finish
  <2>2. s \in DOMAIN execs /\ ~Ours(execs[s].key) /\ s \notin DOMAIN runner
    BY <2>1, RemovalsAssumption DEF RemovalsTypeOK, RemovalRuns, Scans, Ours
  <2>3. DOMAIN scan' = DOMAIN scan \ {s}
    BY <2>1 DEF Restrict
  <2>4. QED
    BY <1>10, <2>1, <2>2, <2>3
<1>14. CASE ReadJournal \/ InterruptStarted \/ RestoreScope
  <2>1. UNCHANGED <<triggers, pending, execs, phase, loop>> /\ UNCHANGED <<runner, scan>> /\ Unlocked
    BY <1>4, <1>14 DEF ReadJournal, InterruptStarted, RestoreScope, vars, manager
  <2>2. QED
    BY <1>1, <1>2, <1>3, <2>1
<1>15. CASE RecoverEvent
  <2>1. Unlocked /\ server.todo # {} /\ UNCHANGED <<runner, scan>>
    BY <1>15 DEF RecoverEvent
  <2>2. CASE RecoverStarted \/ RecoverScheduled
    <3>1. UNCHANGED <<triggers, pending, execs, phase, loop>>
      BY <1>4, <2>2 DEF RecoverStarted, RecoverScheduled, vars, manager
    <3>2. QED
      BY <1>1, <1>2, <1>3, <2>1, <3>1
  <2>3. CASE RecoverUnscheduled
    <3>1. NextEvent \in DOMAIN journal
      BY <2>1, NextEventIsDue
    <3>2. Submit(RemovalRequest(NextEvent))
      BY <2>3 DEF RecoverUnscheduled
    <3>3. /\ phase' = phase /\ loop' = loop /\ Lasting /\ Unlocked /\ DOMAIN execs' = DOMAIN execs
          /\ Handed(NextEvent) \/ Undisturbed
      BY <3>1, <3>2, SubmissionEffect
    <3>4. Attended /\ GoesOn
      BY <1>1, <2>1, <3>3 DEF Attended, GoesOn, Lasting
    <3>5. QED
      BY <1>2, <1>15, <2>3, <3>3, <3>4
  <2>4. QED
    BY <1>15, <2>2, <2>3 DEF RecoverEvent
<1>16. QED
  BY <1>5, <1>6, <1>8, <1>9, <1>11, <1>12, <1>13, <1>14, <1>15 DEF Running, Scanning, ServerStarts


(* Seen from below, every step is one of the scheduler's, a failing         *)
(* statement, the submission of a removal or the end of main.               *)
DiskMoves == DiskStays \/ disk' = PersistenceView' \/ (disk' = PersistenceView /\ Forget)

LEMMA StepsBelow ==
  ASSUME Core, [RemovalsNext]_system
  PROVE  \/ [Next]_vars
         \/ NotWritten
         \/ \E i \in DOMAIN journal : Submit(RemovalRequest(i))
         \/ phase' = "down" /\ Forget /\ UNCHANGED <<ticks, disk, count>>
<1> USE DEF Core
<1>1. CASE SchedulerSteps
  BY <1>1 DEF SchedulerSteps, Next, Recovery, TimePasses, Client, Process, Exit
<1>2. CASE Admission
  <2>1. ASSUME NEW c \in Caller, Arrive(c) \/ Save(c)
        PROVE  UNCHANGED vars \/ NotWritten
    BY <2>1 DEF Arrive, Save, Written
  <2>2. ASSUME NEW c \in Browser, Lookup(c) \/ Refuse(c)
        PROVE  UNCHANGED vars \/ NotWritten
    BY <2>2 DEF Lookup, Refuse, Written
  <2>3. ASSUME NEW c \in Caller, HandOver(c)
        PROVE  \E i \in DOMAIN journal : Submit(RemovalRequest(i))
    BY <2>3 DEF HandOver, Submitting
  <2>4. QED
    BY <1>2, <2>1, <2>2, <2>3 DEF Admission
<1>3. ASSUME NEW quiet \in BOOLEAN, AdvanceWorkflow(quiet)
      PROVE  Next
  BY <1>3 DEF Next, Client
<1>4. CASE Running
  <2>1. ASSUME NEW s \in Slot, Revalidate(s) \/ Reject(s) \/ Act(s) \/ QueueScope(s) \/ Finalize(s)
        PROVE  UNCHANGED vars \/ NotWritten
    BY <2>1 DEF Revalidate, Reject, Act, QueueScope, Finalize, Written
  <2>2. ASSUME NEW s \in Slot, AdvanceAfter(s)
        PROVE  Next
    BY <1>3, <2>2 DEF AdvanceAfter
  <2>3. ASSUME NEW s \in Slot, Return(s)
        PROVE  Next
    BY <2>3 DEF Return, Next, Finish
  <2>4. QED
    BY <1>4, <2>1, <2>2, <2>3 DEF Running
<1>5. CASE Scanning
  <2>1. ASSUME NEW s \in Slot, BeginScan(s) \/ Publish(s) \/ ClearScope(s)
        PROVE  UNCHANGED vars \/ NotWritten
    BY <2>1 DEF BeginScan, Publish, ClearScope, Written
  <2>2. ASSUME NEW s \in Slot, ScanReturns(s)
        PROVE  Next
    BY <2>2 DEF ScanReturns, Next, Finish
  <2>3. QED
    BY <1>5, <2>1, <2>2 DEF Scanning
<1>6. CASE ServiceChanges
  BY <1>3, <1>6 DEF ServiceChanges
<1>7. CASE ServerStarts
  <2>1. CASE ReadJournal \/ InterruptStarted \/ RestoreScope
    BY <2>1 DEF ReadJournal, InterruptStarted, RestoreScope, Written
  <2>2. CASE RestoreWorkflow
    BY <1>3, <2>2 DEF RestoreWorkflow
  <2>3. CASE RecoverEvent
    <3>1. NextEvent \in DOMAIN journal
      BY <2>3, NextEventIsDue DEF RecoverEvent
    <3>2. QED
      BY <2>3, <3>1 DEF RecoverEvent, RecoverStarted, RecoverScheduled, RecoverUnscheduled, Written
  <2>4. QED
    BY <1>7, <2>1, <2>2, <2>3 DEF ServerStarts
<1>8. CASE UNCHANGED system
  BY <1>8 DEF system
<1>9. QED
  BY <1>1, <1>2, <1>4, <1>5, <1>6, <1>7, <1>8 DEF RemovalsNext

LEMMA BelowStep ==
  ASSUME Core, [RemovalsNext]_system
  PROVE  Below' /\ Accounts /\ DiskMoves
<1>0. Below
  BY DEF Core
<1>1. CASE [Next]_vars
  <2>1. TypeOK
    BY <1>0 DEF Below
  <2>2. QED
    BY <1>0, <1>1, <2>1, NextBelow, DiskShape DEF DiskMoves
<1>2. CASE NotWritten
  <2>1. disk' = disk
    BY <1>2 DEF NotWritten, PersistFails
  <2>2. QED
    BY <1>0, <1>2, <2>1, NotWrittenBelow DEF DiskMoves, DiskStays
<1>3. ASSUME NEW i \in DOMAIN journal, Submit(RemovalRequest(i))
      PROVE  Below' /\ Accounts /\ DiskMoves
  <2>1. RemovalRequest(i) \in Request
    BY RowsHaveKeys, RequestOfRow DEF Core
  <2>2. disk' = disk \/ disk' = PersistenceView'
    BY <1>3 DEF Submit, PersistFails
  <2>3. QED
    BY <1>0, <1>3, <2>1, <2>2, SubmitBelow DEF DiskMoves, DiskStays
<1>4. CASE phase' = "down" /\ Forget /\ UNCHANGED <<ticks, disk, count>>
  BY <1>0, <1>4, ExitBelow DEF DiskMoves, DiskStays
<1>5. QED
  BY <1>1, <1>2, <1>3, <1>4, StepsBelow

LEMMA StepEffect ==
  ASSUME Core, [RemovalsNext]_system
  PROVE  \/ Gone /\ Reset
         \/ Loaded /\ UNCHANGED domain
         \/ Attended /\ GoesOn /\ (Alive \/ UNCHANGED domain) /\ Happens
<1>1. CASE SchedulerSteps
  <2>1. /\ Undisturbed => Happens
        /\ UNCHANGED domain /\ server.at = "open" /\ (\E k, s : Takes(k, s)) => Happens
        /\ UNCHANGED domain /\ phase = "recovering" /\ disk' = disk /\ (\E s : Settles(s, "attention"))
             => Happens
    BY DEF Happens
  <2>2. phase' = phase /\ (server.at = "open" \/ phase = "recovering") => GoesOn
    BY DEF GoesOn, Alive
  <2>3. QED
    BY <1>1, <2>1, <2>2, SchedulerEffect DEF Calm
<1>2. CASE Admission \/ Running \/ Scanning \/ ServiceChanges \/ ServerStarts
  BY <1>2, DomainEffect
<1>3. CASE UNCHANGED system
  <2>1. UNCHANGED domain /\ UNCHANGED <<triggers, pending, execs, phase, loop>>
    BY <1>3 DEF system, vars, manager
  <2>2. Undisturbed /\ Lasting
    BY <2>1, SameUndisturbed
  <2>3. Attended
    <3>1. \A s \in DOMAIN runner \cup DOMAIN scan : s \in DOMAIN execs
      BY DEF Core, RemovalsTypeOK, RemovalRuns, Scans
    <3>2. runner' = runner /\ scan' = scan
      BY <2>1 DEF domain
    <3>3. QED
      BY <2>2, <3>1, <3>2 DEF Attended, Lasting
  <2>4. QED
    BY <2>1, <2>2, <2>3 DEF GoesOn, Happens
<1>4. QED
  BY <1>1, <1>2, <1>3 DEF RemovalsNext


-----------------------------------------------------------------------------
(* 3. The journal, and the keys the scheduler knows *)

Row == [status : Status, token : Token \cup {NoToken}, dry : BOOLEAN]

LEMMA OperationOfRun ==
  ASSUME Core, NEW s \in DOMAIN execs, Ours(execs[s].key)
  PROVE  /\ OperationOf(s) \in DOMAIN journal /\ OperationOf(s) \in DOMAIN OperationKey
         /\ OperationKey[OperationOf(s)] = execs[s].key
<1>1. execs[s].key \in Everywhere
  BY DEF Everywhere, Keys
<1>2. PICK i \in DOMAIN journal : OperationKey[i] = execs[s].key
  BY <1>1 DEF Core, Journaled
<1>3. i \in DOMAIN OperationKey
  BY RowsHaveKeys DEF Core
<1>4. OperationOf(s) \in DOMAIN OperationKey /\ OperationKey[OperationOf(s)] = execs[s].key
  BY <1>2, <1>3 DEF OperationOf
<1>5. OperationOf(s) = i
  BY <1>2, <1>3, <1>4, RemovalsAssumption
<1>6. QED
  BY <1>2, <1>4, <1>5

LEMMA OperationOfRunner ==
  ASSUME Core, NEW s \in DOMAIN runner
  PROVE  /\ s \in DOMAIN execs /\ Ours(execs[s].key)
         /\ OperationOf(s) \in DOMAIN journal /\ OperationOf(s) \in DOMAIN OperationKey
         /\ OperationKey[OperationOf(s)] = execs[s].key
BY OperationOfRun DEF Core, RemovalsTypeOK, RemovalRuns, Ours

(* A row of the journal is rewritten, or one is added. *)
Rewritten(i, row) ==
  i \in DOMAIN journal /\ row \in Row /\ row.token = journal[i].token
    /\ journal' = [journal EXCEPT ![i] = row]

LEMMA RewrittenJournal ==
  ASSUME journal \in Seq(Row), NEW i, NEW row, Rewritten(i, row)
  PROVE  /\ journal' \in Seq(Row) /\ Len(journal') = Len(journal) /\ DOMAIN journal' = DOMAIN journal
         /\ journal'[i] = row
         /\ \A j \in DOMAIN journal : j # i => journal'[j] = journal[j]
<1>1. i \in 1 .. Len(journal)
  BY LenProperties DEF Rewritten
<1>2. QED
  BY <1>1, ExceptSeq DEF Rewritten

LEMMA RecordedRow ==
  ASSUME journal \in Seq(Row), NEW i \in DOMAIN journal, NEW status \in Status, Recorded(i, status)
  PROVE  Rewritten(i, [journal[i] EXCEPT !.status = status])
<1>1. journal[i] \in Row
  BY ElementOfSeq, LenProperties
<1>2. QED
  BY <1>1 DEF Recorded, Rewritten, Row

(* Who gives a row another status, and which. *)
Closes(i) ==
  \/ \E s \in Slot : i = OperationOf(s) /\ Revalidate(s) /\ journal'[i].status = "started"
  \/ /\ journal'[i].dry = journal[i].dry
     /\ \/ \E s \in Slot : i = OperationOf(s) /\ Reject(s) /\ journal'[i].status = "failed"
        \/ \E s \in Slot : i = OperationOf(s) /\ Finalize(s) /\ journal'[i].status = Outcome(runner[s])
        \/ \E b \in Browser : i = caller[b].operation /\ Refuse(b) /\ journal'[i].status = "failed"
        \/ RecoverEvent /\ RecoverScheduled /\ i = NextEvent /\ journal'[i].status = "interrupted"
        \/ InterruptStarted /\ journal[i].status = "started" /\ journal'[i].status = "interrupted"

LEMMA JournalEffect ==
  ASSUME Core, [RemovalsNext]_system
  PROVE  \/ /\ journal' \in Seq(Row) /\ Len(journal') = Len(journal) /\ DOMAIN journal' = DOMAIN journal
            /\ \A i \in DOMAIN journal : /\ journal'[i].token = journal[i].token
                                         /\ journal'[i] = journal[i] \/ Closes(i)
         \/ \E c \in Caller : /\ Save(c) /\ UNCHANGED vars
                              /\ Len(journal) < Len(OperationKey)
                              /\ \E dry \in BOOLEAN : journal' =
                                   Append(journal, [status |-> "queued", token |-> caller[c].token, dry |-> dry])
                              /\ caller' = [caller EXCEPT ![c].at = "submit", ![c].operation = Len(journal) + 1]
<1> DEFINE Same == /\ journal' \in Seq(Row) /\ Len(journal') = Len(journal) /\ DOMAIN journal' = DOMAIN journal
                   /\ \A i \in DOMAIN journal : /\ journal'[i].token = journal[i].token
                                                /\ journal'[i] = journal[i] \/ Closes(i)
           Adds == \E c \in Caller : /\ Save(c) /\ UNCHANGED vars
                              /\ Len(journal) < Len(OperationKey)
                              /\ \E dry \in BOOLEAN : journal' =
                                   Append(journal, [status |-> "queued", token |-> caller[c].token, dry |-> dry])
                              /\ caller' = [caller EXCEPT ![c].at = "submit", ![c].operation = Len(journal) + 1]
<1>0. journal \in Seq(Row)
  BY DEF Core, RemovalsTypeOK, Row
<1>1. journal' = journal => Same
  BY <1>0
<1>2. ASSUME NEW i \in DOMAIN journal, NEW status \in Status, Recorded(i, status),
             journal'[i].status = status /\ journal'[i].dry = journal[i].dry => Closes(i)
      PROVE  Same
  <2> DEFINE row == [journal[i] EXCEPT !.status = status]
  <2>1. Rewritten(i, row)
    BY <1>0, <1>2, RecordedRow
  <2>2. row.status = status /\ row.dry = journal[i].dry
    BY <1>0, ElementOfSeq, LenProperties DEF Row
  <2>3. row.token = journal[i].token
    BY <2>1 DEF Rewritten
  <2> HIDE DEF row
  <2>4. /\ journal' \in Seq(Row) /\ Len(journal') = Len(journal) /\ DOMAIN journal' = DOMAIN journal
         /\ journal'[i] = row
         /\ \A j \in DOMAIN journal : j # i => journal'[j] = journal[j]
    BY <1>0, <2>1, RewrittenJournal
  <2>5. Closes(i)
    BY <1>2, <2>2, <2>4
  <2>6. QED
    BY <2>3, <2>4, <2>5
<1>3. "failed" \in Status /\ "interrupted" \in Status /\ "started" \in Status
  BY DEF Status, Verdict
<1>4. ASSUME NEW s \in Slot, Revalidate(s)
      PROVE  Same
  <2>1. CASE journal' = journal
    BY <1>1, <2>1
  <2>2. CASE journal' # journal
    <3> DEFINE i == OperationOf(s)
    <3>1. PICK dry \in DryRunModes : journal' = [journal EXCEPT ![i].status = "started", ![i].dry = dry]
      BY <1>4, <2>2 DEF Revalidate
    <3>2. i \in DOMAIN journal
      BY <1>4, OperationOfRun DEF Revalidate, RemovalRuns, Ours
    <3>3. journal[i] \in Row /\ dry \in BOOLEAN
      BY <1>0, <3>2, ElementOfSeq, LenProperties, RemovalsAssumption
    <3> DEFINE row == [journal[i] EXCEPT !.status = "started", !.dry = dry]
    <3>4. row \in Row /\ row.status = "started" /\ row.token = journal[i].token
      BY <1>3, <3>3 DEF Row
    <3>5. journal' = [journal EXCEPT ![i] = row]
      BY <3>1, <3>2
    <3> HIDE DEF row
    <3>6. Rewritten(i, row)
      BY <3>2, <3>4, <3>5 DEF Rewritten
    <3>7. /\ journal' \in Seq(Row) /\ Len(journal') = Len(journal) /\ DOMAIN journal' = DOMAIN journal
          /\ journal'[i] = row
          /\ \A j \in DOMAIN journal : j # i => journal'[j] = journal[j]
      BY <1>0, <3>6, RewrittenJournal
    <3>8. Closes(i)
      BY <1>4, <3>4, <3>7 DEF Closes
    <3>9. QED
      BY <3>4, <3>7, <3>8
  <2>3. QED
    BY <2>1, <2>2
<1>5. ASSUME NEW s \in Slot, Reject(s)
      PROVE  Same
  <2>1. OperationOf(s) \in DOMAIN journal
    BY <1>5, OperationOfRunner DEF Reject
  <2>2. CASE Recorded(OperationOf(s), "failed")
    BY <1>2, <1>3, <1>5, <2>1, <2>2 DEF Closes
  <2>3. QED
    BY <1>1, <1>5, <2>2 DEF Reject
<1>6. ASSUME NEW s \in Slot, Finalize(s)
      PROVE  Same
  <2>1. OperationOf(s) \in DOMAIN journal
    BY <1>6, OperationOfRunner DEF Finalize
  <2>2. Outcome(runner[s]) \in Status
    BY DEF Outcome, Status, Verdict
  <2>3. CASE Recorded(OperationOf(s), Outcome(runner[s]))
    BY <1>2, <1>6, <2>1, <2>2, <2>3 DEF Closes
  <2>4. QED
    BY <1>1, <1>6, <2>3 DEF Finalize
<1>7. ASSUME NEW b \in Browser, Refuse(b)
      PROVE  Same
  <2>1. caller[b].operation \in DOMAIN journal
    BY <1>7 DEF Core, Submitting, Refuse, Caller
  <2>2. CASE Recorded(caller[b].operation, "failed")
    BY <1>2, <1>3, <1>7, <2>1, <2>2 DEF Closes
  <2>3. QED
    BY <1>1, <1>7, <2>2 DEF Refuse
<1>8. CASE RecoverEvent
  <2>1. NextEvent \in DOMAIN journal
    BY <1>8, NextEventIsDue DEF RecoverEvent, Core
  <2>2. CASE RecoverScheduled /\ Recorded(NextEvent, "interrupted")
    BY <1>2, <1>3, <1>8, <2>1, <2>2 DEF Closes
  <2>3. QED
    BY <1>1, <1>8, <2>2 DEF RecoverEvent, RecoverStarted, RecoverScheduled, RecoverUnscheduled
<1>9. CASE InterruptStarted
  <2>1. CASE journal' = journal
    BY <1>1, <2>1
  <2>2. CASE journal' # journal
    <3>1. journal' = [i \in DOMAIN journal |->
             IF journal[i].status = "started" THEN [journal[i] EXCEPT !.status = "interrupted"]
             ELSE journal[i]]
      BY <1>9, <2>2 DEF InterruptStarted
    <3>2. \A i \in DOMAIN journal : journal[i] \in Row
      BY <1>0, ElementOfSeq, LenProperties
    <3>3. \A i \in DOMAIN journal : /\ journal'[i] \in Row /\ journal'[i].token = journal[i].token
                                    /\ journal'[i].dry = journal[i].dry
                                    /\ journal'[i] = journal[i] \/ (journal[i].status = "started"
                                                                   /\ journal'[i].status = "interrupted")
      BY <1>3, <3>1, <3>2 DEF Row
    <3>4. DOMAIN journal' = DOMAIN journal /\ DOMAIN journal = 1 .. Len(journal) /\ Len(journal) \in Nat
      BY <1>0, <3>1, LenProperties
    <3>5. journal' \in [1 .. Len(journal) -> Row]
      BY <3>1, <3>3, <3>4
    <3>6. journal' \in Seq(Row) /\ Len(journal') = Len(journal)
      BY <3>4, <3>5, SeqDef, LenProperties
    <3>7. QED
      BY <1>9, <3>3, <3>4, <3>6 DEF Closes
  <2>3. QED
    BY <2>1, <2>2
<1>10. ASSUME NEW c \in Caller, Save(c)
       PROVE  Same \/ Adds
  BY <1>1, <1>10, RemovalsAssumption DEF Save, Written
<1>11. CASE SchedulerSteps \/ UNCHANGED system
  BY <1>1, <1>11 DEF SchedulerSteps, system, domain
<1>12. CASE Admission
  BY <1>1, <1>7, <1>10, <1>12 DEF Admission, Arrive, HandOver, Lookup
<1>13. CASE Running
  BY <1>1, <1>4, <1>5, <1>6, <1>13 DEF Running, Act, QueueScope, AdvanceAfter, Return
<1>14. CASE Scanning \/ ServiceChanges
  BY <1>1, <1>14 DEF Scanning, BeginScan, Publish, ClearScope, ScanReturns, ServiceChanges
<1>15. CASE ServerStarts
  BY <1>1, <1>8, <1>9, <1>15 DEF ServerStarts, ReadJournal, RestoreScope, RestoreWorkflow
<1>16. QED
  BY <1>11, <1>12, <1>13, <1>14, <1>15 DEF RemovalsNext


LEMMA RowsGrow ==
  ASSUME Core, [RemovalsNext]_system
  PROVE  /\ journal' \in Seq(Row) /\ Len(journal') <= Len(OperationKey)
         /\ DOMAIN journal \subseteq DOMAIN journal'
         /\ Len(journal) <= Len(journal') /\ Len(journal') \in Nat /\ DOMAIN journal' = 1 .. Len(journal')
<1>1. journal \in Seq(Row) /\ Len(journal) \in Nat /\ DOMAIN journal = 1 .. Len(journal)
      /\ Len(journal) <= Len(OperationKey) /\ Len(OperationKey) \in Nat
  BY RowsHaveKeys DEF Core, RemovalsTypeOK, Row
<1>2. CASE journal' \in Seq(Row) /\ Len(journal') = Len(journal) /\ DOMAIN journal' = DOMAIN journal
  BY <1>1, <1>2
<1>3. ASSUME NEW c \in Caller, NEW dry \in BOOLEAN, Len(journal) < Len(OperationKey),
             journal' = Append(journal, [status |-> "queued", token |-> caller[c].token, dry |-> dry])
      PROVE  /\ journal' \in Seq(Row) /\ Len(journal') <= Len(OperationKey)
             /\ DOMAIN journal \subseteq DOMAIN journal'
             /\ Len(journal) <= Len(journal') /\ Len(journal') \in Nat /\ DOMAIN journal' = 1 .. Len(journal')
  <2> DEFINE row == [status |-> "queued", token |-> caller[c].token, dry |-> dry]
  <2>1. row \in Row
    BY DEF Core, RemovalsTypeOK, Row, Status
  <2> HIDE DEF row
  <2>2. journal' \in Seq(Row) /\ Len(journal') = Len(journal) + 1
    BY <1>1, <1>3, <2>1, AppendProperties DEF row
  <2>3. DOMAIN journal' = 1 .. Len(journal')
    BY <2>2, LenProperties
  <2>4. QED
    BY <1>1, <1>3, <2>2, <2>3
<1>4. QED
  BY <1>2, <1>3, JournalEffect

(* No step but a submission shows the scheduler a removal it did not know. *)
LEMMA KeysKept ==
  ASSUME Accounts,
         Undisturbed \/ (\E k, s : Takes(k, s)) \/ (\E s, verdict : Settles(s, verdict))
  PROVE  \A k \in Keys(triggers', pending', execs') : Ours(k) => k \in Keys(triggers, pending, execs)
<1>1. CASE Undisturbed
  BY <1>1 DEF Undisturbed, Keys, Accounts, Follows
<1>2. ASSUME NEW k, NEW s, Takes(k, s)
      PROVE  \A j \in Keys(triggers', pending', execs') : j \in Keys(triggers, pending, execs)
  BY <1>2 DEF Takes, Keys, Accounts, Follows
<1>3. ASSUME NEW s, NEW verdict, Settles(s, verdict)
      PROVE  \A j \in Keys(triggers', pending', execs') : j \in Keys(triggers, pending, execs)
  BY <1>3 DEF Settles, Ceases, Keys, Accounts, Follows
<1>4. QED
  BY <1>1, <1>2, <1>3

LEMMA HandedKeys ==
  ASSUME Core, NEW i, Handed(i)
  PROVE  \A k \in Keys(triggers', pending', execs') :
           k \in Keys(triggers, pending, execs) \/ k = OperationKey[i]
<1> DEFINE r == RemovalRequest(i)
           t == issued + 1
<1>0. TypeOK /\ SubmitLocked(r)
  BY DEF Handed, Core, Below
<1>1. r.key = OperationKey[i]
  BY DEF RemovalRequest
<1> HIDE DEF r
<1>2. PICK state : triggers' = Put(triggers, t, NewTrigger(r, state))
  BY <1>0 DEF SubmitLocked
<1>3. \A u \in DOMAIN triggers' : triggers'[u].key = r.key \/ (u \in DOMAIN triggers /\ triggers'[u] = triggers[u])
  BY <1>2 DEF Put, NewTrigger
<1>4. DOMAIN pending' \subseteq DOMAIN pending \cup {r.key}
  BY <1>0 DEF SubmitLocked, Put
<1>5. DOMAIN execs' = DOMAIN execs /\ \A s \in DOMAIN execs : execs'[s].key = execs[s].key
  BY <1>0, SubmitLockedHeld
<1>6. QED
  BY <1>1, <1>3, <1>4, <1>5 DEF Keys

(* What is saved is no more than what is known. *)
ViewNoMore ==
  Keys(PersistenceView.triggers, PersistenceView.pending, PersistenceView.execs)
    \subseteq Keys(triggers, pending, execs)

LEMMA ViewKnowsNoMore == ViewNoMore
BY DEF ViewNoMore, Keys, PersistenceView, Restrict

LEMMA ViewKnowsNoMoreNext == ViewNoMore'
BY ViewKnowsNoMore, PTL

LEMMA DiskKeys ==
  ASSUME DiskMoves
  PROVE  \/ Keys(disk'.triggers, disk'.pending, disk'.execs) = Keys(disk.triggers, disk.pending, disk.execs)
         \/ Keys(disk'.triggers, disk'.pending, disk'.execs) \subseteq Keys(triggers', pending', execs')
         \/ Keys(disk'.triggers, disk'.pending, disk'.execs) \subseteq Keys(triggers, pending, execs)
<1>1. CASE DiskStays
  BY <1>1 DEF DiskStays, Keys
<1>2. CASE disk' = PersistenceView'
  BY <1>2, ViewKnowsNoMoreNext DEF ViewNoMore, Keys
<1>3. CASE disk' = PersistenceView
  BY <1>3, ViewKnowsNoMore DEF ViewNoMore
<1>4. QED
  BY <1>1, <1>2, <1>3 DEF DiskMoves

(* The handlers and start-up hand removals over. *)
HandsOver(i) ==
  /\ Handed(i)
  /\ \/ \E c \in Caller : HandOver(c) /\ caller[c].operation = i
     \/ RecoverEvent /\ RecoverUnscheduled /\ NextEvent = i

LEMMA KnownKeys ==
  ASSUME Core, [RemovalsNext]_system, NEW k \in Everywhere', Ours(k)
  PROVE  k \in Everywhere \/ \E i \in DOMAIN journal : HandsOver(i) /\ k = OperationKey[i]
<1>0. Accounts /\ DiskMoves
  BY BelowStep
<1>1. k \in Keys(triggers', pending', execs') \/ k \in Keys(disk'.triggers, disk'.pending, disk'.execs)
  BY DEF Everywhere, Keys
<1>2. /\ Keys(triggers, pending, execs) \subseteq Everywhere
      /\ Keys(disk.triggers, disk.pending, disk.execs) \subseteq Everywhere
  BY DEF Everywhere
<1>3. ASSUME \A j \in Keys(triggers', pending', execs') : Ours(j) => j \in Everywhere
      PROVE  k \in Everywhere
  BY <1>0, <1>1, <1>2, <1>3, DiskKeys
<1>4. ASSUME NEW i, HandsOver(i)
      PROVE  k \in Everywhere \/ k = OperationKey[i]
  BY <1>0, <1>1, <1>2, <1>4, DiskKeys, HandedKeys DEF HandsOver
<1>5. ASSUME NEW i, HandsOver(i)
      PROVE  i \in DOMAIN journal
  BY <1>5 DEF HandsOver, Handed
<1>6. CASE Gone
  <2>1. Keys(triggers', pending', execs') = {}
    BY <1>6 DEF Gone, Forget, Keys, EmptyMap
  <2>2. QED
    BY <1>3, <2>1
<1>7. CASE Loaded
  <2>1. Keys(triggers', pending', execs') = Keys(disk.triggers, disk.pending, disk.execs)
    BY <1>7 DEF Loaded
  <2>2. QED
    BY <1>2, <1>3, <2>1
<1>8. CASE Undisturbed \/ (\E j, s : Takes(j, s)) \/ (\E s, verdict : Settles(s, verdict))
  BY <1>0, <1>2, <1>3, <1>8, KeysKept
<1>9. CASE \E i : HandsOver(i)
  BY <1>4, <1>5, <1>9
<1>10. CASE Happens
  <2>1. CASE \E c \in Caller : HandOver(c) /\ Handed(caller[c].operation)
    BY <1>9, <2>1 DEF HandsOver
  <2>2. CASE RecoverEvent /\ RecoverUnscheduled /\ Handed(NextEvent)
    BY <1>9, <2>2 DEF HandsOver
  <2>3. QED
    BY <1>8, <1>10, <2>1, <2>2 DEF Happens
<1>11. QED
  BY <1>6, <1>7, <1>10, StepEffect

LEMMA JournaledStep ==
  ASSUME Core, [RemovalsNext]_system
  PROVE  Journaled'
<1>1. ASSUME NEW k \in Everywhere', Ours(k)
      PROVE  \E i \in DOMAIN journal' : OperationKey[i] = k
  BY <1>1, KnownKeys, RowsGrow DEF Core, Journaled
<1>2. QED
  BY <1>1 DEF Journaled, Ours

(* Everything but start-up waits until NewServer has returned. *)
LEMMA ServerOpen ==
  ASSUME Core, Admission \/ Running \/ Scanning \/ ServiceChanges
  PROVE  server.at = "open" /\ server' = server
<1> USE DEF Core
<1>1. DOMAIN runner # {} \/ DOMAIN scan # {} \/ (\E c \in Caller : caller[c].at # "idle")
        => server.at = "open"
  BY DEF Orderly
<1>2. Unlocked /\ DOMAIN execs # {} => server.at = "open"
  BY DEF Orderly, Unlocked
<1>3. CASE Admission
  BY <1>1, <1>3 DEF Admission, Arrive, Save, HandOver, Lookup, Refuse, Caller
<1>4. CASE Running
  BY <1>1, <1>2, <1>4 DEF Running, Revalidate, Reject, Act, QueueScope, AdvanceAfter, Finalize, Return,
                          RemovalRuns
<1>5. CASE Scanning
  BY <1>1, <1>2, <1>5 DEF Scanning, BeginScan, Publish, ClearScope, ScanReturns, Scans,
                          FinishRequeued, FinishFailed, FinishSucceeded
<1>6. CASE ServiceChanges
  BY <1>6 DEF ServiceChanges
<1>7. QED
  BY <1>3, <1>4, <1>5, <1>6

LEMMA OrderlyStep ==
  ASSUME Core, [RemovalsNext]_system
  PROVE  Orderly'
<1> USE DEF Core
<1>1. CASE Gone /\ Reset
  <2>1. server' = Starting /\ DOMAIN runner' = {} /\ DOMAIN scan' = {} /\ DOMAIN execs' = {} /\ loop' = "asleep"
        /\ \A c \in Caller : caller'[c].at = "idle"
    BY <1>1 DEF Reset, Gone, Forget, EmptyMap, IdleCaller
  <2>2. QED
    BY <2>1 DEF Orderly
<1>2. CASE Loaded /\ UNCHANGED domain
  <2>1. ~Alive /\ ~Alive' /\ UNCHANGED <<caller, runner, scan, server>>
    BY <1>2 DEF Loaded, Alive, domain
  <2>2. QED
    BY <2>1 DEF Orderly
<1>3. CASE Attended /\ GoesOn /\ (Alive \/ UNCHANGED domain) /\ Happens
  <2>0. Idle /\ TypeOK
    BY DEF Below
  <2>1. Alive => Alive'
    BY <1>3 DEF GoesOn, Alive
  <2>2. Alive' /\ server.at # "open" => DOMAIN execs' = {} /\ loop' = "asleep"
    <3>1. CASE Alive
      BY <1>3, <3>1 DEF GoesOn, Orderly
    <3>2. CASE ~Alive
      BY <1>3, <2>0, <3>2 DEF GoesOn, Alive, Idle
    <3>3. QED
      BY <3>1, <3>2
  <2>3. CASE UNCHANGED domain
    <3>1. UNCHANGED <<caller, runner, scan, server>>
      BY <2>3 DEF domain
    <3>2. QED
      BY <2>1, <2>2, <3>1 DEF Orderly
  <2>4. CASE Alive /\ (Admission \/ Running \/ Scanning \/ ServiceChanges)
    BY <2>1, <2>4, ServerOpen DEF Orderly
  <2>5. CASE Alive /\ ServerStarts
    <3>1. server.at # "open" /\ UNCHANGED <<caller, runner, scan>>
      BY <2>5 DEF ServerStarts, ReadJournal, RecoverEvent, InterruptStarted, RestoreScope, RestoreWorkflow
    <3>2. QED
      BY <2>1, <2>2, <2>5, <3>1 DEF Orderly
  <2>6. CASE SchedulerSteps
    <3>1. CASE phase' \in {"down", "panicked"}
      <4>1. server' = Starting /\ DOMAIN runner' = {} /\ DOMAIN scan' = {}
            /\ \A c \in Caller : caller'[c].at = "idle"
        BY <2>6, <3>1 DEF SchedulerSteps, EmptyMap, IdleCaller
      <4>2. ~Alive'
        BY <3>1 DEF Alive
      <4>3. QED
        BY <4>1, <4>2 DEF Orderly
    <3>2. CASE phase' \notin {"down", "panicked"}
      BY <2>3, <2>6, <3>2 DEF SchedulerSteps
    <3>3. QED
      BY <3>1, <3>2
  <2>7. CASE UNCHANGED system
    BY <2>3, <2>7 DEF system
  <2>8. QED
    BY <1>3, <2>3, <2>4, <2>5, <2>6, <2>7 DEF RemovalsNext
<1>4. QED
  BY <1>1, <1>2, <1>3, StepEffect


(* Who changes what. *)
LEMMA AdmissionChanges ==
  ASSUME Admission
  PROVE  /\ UNCHANGED <<scope, runner, scan, server, edits, acted, debts>>
         /\ refused' = refused \/ \E b \in Browser : Refuse(b)
<1>1. ASSUME NEW c \in Caller, Arrive(c) \/ Save(c) \/ HandOver(c)
      PROVE  UNCHANGED <<scope, runner, scan, server, edits, acted, debts, refused>>
  BY <1>1 DEF Arrive, Save, HandOver
<1>2. ASSUME NEW b \in Browser, Lookup(b)
      PROVE  UNCHANGED <<scope, runner, scan, server, edits, acted, debts, refused>>
  BY <1>2 DEF Lookup
<1>3. ASSUME NEW b \in Browser, Refuse(b)
      PROVE  UNCHANGED <<scope, runner, scan, server, edits, acted, debts>>
  BY <1>3 DEF Refuse
<1>4. QED
  BY <1>1, <1>2, <1>3 DEF Admission

LEMMA RunningChanges ==
  ASSUME Running
  PROVE  /\ UNCHANGED <<caller, scan, server, edits, refused>>
         /\ scope' = scope \/ \E s \in Slot : QueueScope(s)
         /\ UNCHANGED <<acted, debts>> \/ \E s \in Slot : Act(s)
<1>1. ASSUME NEW s \in Slot,
             Revalidate(s) \/ Reject(s) \/ AdvanceAfter(s) \/ Finalize(s) \/ Return(s)
      PROVE  UNCHANGED <<caller, scan, server, edits, refused, scope, acted, debts>>
  BY <1>1 DEF Revalidate, Reject, AdvanceAfter, Finalize, Return
<1>2. ASSUME NEW s \in Slot, Act(s)
      PROVE  UNCHANGED <<caller, scan, server, edits, refused, scope>>
  BY <1>2 DEF Act
<1>3. ASSUME NEW s \in Slot, QueueScope(s)
      PROVE  UNCHANGED <<caller, scan, server, edits, refused, acted, debts>>
  BY <1>3 DEF QueueScope
<1>4. QED
  BY <1>1, <1>2, <1>3 DEF Running

LEMMA ScanningChanges ==
  ASSUME Scanning
  PROVE  /\ UNCHANGED <<journal, caller, runner, server, edits, acted, refused>>
         /\ scope' = scope \/ \E s \in Slot : Publish(s) \/ ClearScope(s)
         /\ debts' = debts \/ \E s \in Slot : Publish(s)
<1>1. ASSUME NEW s \in Slot, BeginScan(s) \/ ScanReturns(s)
      PROVE  UNCHANGED <<journal, caller, runner, server, edits, acted, refused, scope, debts>>
  BY <1>1 DEF BeginScan, ScanReturns
<1>2. ASSUME NEW s \in Slot, Publish(s)
      PROVE  UNCHANGED <<journal, caller, runner, server, edits, acted, refused>>
  BY <1>2 DEF Publish
<1>3. ASSUME NEW s \in Slot, ClearScope(s)
      PROVE  UNCHANGED <<journal, caller, runner, server, edits, acted, refused, debts>>
  BY <1>3 DEF ClearScope
<1>4. QED
  BY <1>1, <1>2, <1>3 DEF Scanning

LEMMA StartChanges ==
  ASSUME ServerStarts
  PROVE  /\ UNCHANGED <<caller, runner, scan, edits, acted, refused, debts>>
         /\ scope' = scope \/ RestoreScope
BY DEF ServerStarts, ReadJournal, RecoverEvent, InterruptStarted, RestoreScope, RestoreWorkflow

LEMMA EditChanges ==
  ASSUME ServiceChanges
  PROVE  UNCHANGED <<journal, scope, caller, runner, scan, server, acted, refused>>
BY DEF ServiceChanges

LEMMA OwnChanges ==
  ASSUME Core, [RemovalsNext]_system
  PROVE  \/ Gone /\ Reset
         \/ UNCHANGED domain
         \/ Admission \/ Running \/ Scanning \/ ServiceChanges \/ ServerStarts
<1>1. CASE SchedulerSteps
  BY <1>1, SchedulerEffect
<1>2. CASE UNCHANGED system
  BY <1>2 DEF system
<1>3. QED
  BY <1>1, <1>2 DEF RemovalsNext

LEMMA WhoChanges ==
  ASSUME Core, [RemovalsNext]_system
  PROVE  /\ caller' = caller \/ (Gone /\ Reset) \/ Admission
         /\ runner' = runner \/ (Gone /\ Reset) \/ Running
         /\ scan' = scan \/ (Gone /\ Reset) \/ Scanning
         /\ server' = server \/ (Gone /\ Reset) \/ ServerStarts
         /\ scope' = scope \/ RestoreScope \/ (\E s \in Slot : QueueScope(s))
              \/ (\E s \in Slot : Publish(s) \/ ClearScope(s))
         /\ acted' = acted \/ \E s \in Slot : Act(s)
         /\ debts' = debts \/ ServiceChanges \/ (\E s \in Slot : Act(s)) \/ (\E s \in Slot : Publish(s))
         /\ refused' = refused \/ \E b \in Browser : Refuse(b)
         /\ edits' = edits \/ ServiceChanges
<1>1. CASE Gone /\ Reset
  BY <1>1 DEF Reset
<1>2. CASE UNCHANGED domain
  BY <1>2 DEF domain
<1>3. CASE Admission
  BY <1>3, AdmissionChanges
<1>4. CASE Running
  BY <1>4, RunningChanges
<1>5. CASE Scanning
  BY <1>5, ScanningChanges
<1>6. CASE ServiceChanges
  BY <1>6, EditChanges
<1>7. CASE ServerStarts
  BY <1>7, StartChanges
<1>8. QED
  BY <1>1, <1>2, <1>3, <1>4, <1>5, <1>6, <1>7, OwnChanges


(* RemovalsTypeOK, one variable at a time. *)
ScopeOK == scope \in [full : BOOLEAN, named : SUBSET DOMAIN journal]
CallerOK ==
  caller \in [Caller -> [at : {"idle", "lookup", "save", "submit", "refuse", "accepted", "rejected"},
                         token : Token \cup {NoToken}, operation : 0 .. Len(journal)]]
Run == [at : {"act", "reject", "scope", "advance", "finalize", "return"},
        dry : BOOLEAN, mutated : BOOLEAN, uncertain : BOOLEAN, errors : BOOLEAN, failed : BOOLEAN]
RunnerOK == \A s \in DOMAIN runner : RemovalRuns(s) /\ runner[s] \in Run
Look == [reads : SUBSET (Nat \X Task), full : BOOLEAN, at : {"work", "clear", "failed", "done"}]
ScanOK == \A s \in DOMAIN scan : Scans(s) /\ scan[s] \in Look
ServerOK == server \in [at : {"starting", "events", "scope", "advance", "open", "fatal"},
                        todo : SUBSET DOMAIN journal, restore : BOOLEAN]

LEMMA ScopeType ==
  ASSUME Core, [RemovalsNext]_system
  PROVE  ScopeOK'
<1>1. ScopeOK /\ DOMAIN journal \subseteq DOMAIN journal'
  BY RowsGrow DEF Core, RemovalsTypeOK, ScopeOK
<1>2. CASE scope' = scope
  BY <1>1, <1>2 DEF ScopeOK
<1>3. CASE RestoreScope
  BY <1>1, <1>3 DEF ScopeOK, RestoreScope
<1>4. ASSUME NEW s \in Slot, QueueScope(s) PROVE ScopeOK'
  <2>1. s \in DOMAIN runner /\ OperationOf(s) \in DOMAIN journal /\ runner[s].uncertain \in BOOLEAN
    BY <1>4, OperationOfRunner DEF QueueScope, Core, RemovalsTypeOK
  <2>2. scope' = scope \/ scope' = [full |-> scope.full \/ runner[s].uncertain,
                                    named |-> scope.named \cup {OperationOf(s)}]
    BY <1>4 DEF QueueScope
  <2>3. QED
    BY <1>1, <2>1, <2>2 DEF ScopeOK
<1>5. ASSUME NEW s \in Slot, Publish(s) \/ ClearScope(s) PROVE ScopeOK'
  <2>1. scope' = scope \/ scope' = NoScope
    BY <1>5 DEF Publish, ClearScope
  <2>2. CASE scope' = NoScope
    BY <2>2 DEF ScopeOK, NoScope
  <2>3. QED
    BY <1>2, <2>1, <2>2
<1>6. QED
  BY <1>2, <1>3, <1>4, <1>5, WhoChanges

LEMMA CallerType ==
  ASSUME Core, [RemovalsNext]_system
  PROVE  CallerOK'
<1>1. CallerOK /\ Len(journal) <= Len(journal') /\ Len(journal) \in Nat /\ Len(journal') \in Nat
  BY RowsGrow, RowsHaveKeys DEF Core, RemovalsTypeOK, CallerOK
<1> DEFINE One == [at : {"idle", "lookup", "save", "submit", "refuse", "accepted", "rejected"},
                   token : Token \cup {NoToken}, operation : 0 .. Len(journal)]
           New == [at : {"idle", "lookup", "save", "submit", "refuse", "accepted", "rejected"},
                   token : Token \cup {NoToken}, operation : 0 .. Len(journal')]
<1>2. One \subseteq New /\ caller \in [Caller -> One]
  BY <1>1 DEF CallerOK
<1>3. SUFFICES caller' \in [Caller -> New]
  BY DEF CallerOK
<1>4. ASSUME NEW c \in Caller, NEW v \in New, caller' = [caller EXCEPT ![c] = v]
      PROVE  caller' \in [Caller -> New]
  <2> HIDE DEF One, New
  <2>1. QED
    BY <1>2, <1>4
<1>5. CASE caller' = caller
  <2> HIDE DEF One, New
  <2>1. QED
    BY <1>2, <1>5
<1>6. CASE Gone /\ Reset
  BY <1>1, <1>6 DEF Reset, IdleCaller
<1>7. CASE Admission
  <2>1. ASSUME NEW c \in Caller, Arrive(c) PROVE caller' \in [Caller -> New]
    <3>1. PICK t \in (IF c \in Browser THEN Token ELSE {NoToken}) : caller' = [caller EXCEPT ![c] =
            [at |-> IF c \in Browser THEN "lookup" ELSE "save", token |-> t, operation |-> 0]]
      BY <2>1 DEF Arrive
    <3>2. [at |-> IF c \in Browser THEN "lookup" ELSE "save", token |-> t, operation |-> 0] \in New
      BY <1>1
    <3>3. QED
      BY <1>4, <3>1, <3>2
  <2>2. ASSUME NEW c \in Caller, Save(c) PROVE caller' \in [Caller -> New]
    <3>1. caller[c] \in One
      BY <1>2
    <3>2. CASE caller' = [caller EXCEPT ![c].at = "rejected"]
      <4>1. [caller[c] EXCEPT !.at = "rejected"] \in New
        BY <1>1, <3>1
      <4>2. QED
        BY <1>4, <3>2, <4>1
    <3>3. CASE caller' = [caller EXCEPT ![c].at = "submit", ![c].operation = Len(journal) + 1]
                 /\ Len(journal') = Len(journal) + 1
      <4>1. caller' = [caller EXCEPT ![c] = [@ EXCEPT !.at = "submit", !.operation = Len(journal) + 1]]
        BY <3>3
      <4>2. [caller[c] EXCEPT !.at = "submit", !.operation = Len(journal) + 1] \in New
        <5>1. Len(journal) + 1 \in 0 .. Len(journal')
          BY <1>1, <3>3
        <5>2. QED
          BY <3>1, <5>1
      <4>3. QED
        BY <1>4, <4>1, <4>2
    <3>4. QED
      <4>1. journal \in Seq(Row)
        BY DEF Core, RemovalsTypeOK, Row
      <4>2. ASSUME NEW dry, journal' = Append(journal, [status |-> "queued", token |-> caller[c].token, dry |-> dry])
            PROVE  Len(journal') = Len(journal) + 1
        BY <4>1, <4>2
      <4>3. QED
        BY <2>2, <3>2, <3>3, <4>2 DEF Save
  <2>3. ASSUME NEW c \in Caller, HandOver(c) PROVE caller' \in [Caller -> New]
    <3>1. caller[c] \in One
      BY <1>2
    <3>2. PICK at \in {"accepted", "refuse", "rejected"} : caller' = [caller EXCEPT ![c].at = at]
      BY <2>3 DEF HandOver
    <3>3. [caller[c] EXCEPT !.at = at] \in New
      BY <1>1, <3>1
    <3>4. QED
      BY <1>4, <3>2, <3>3
  <2>4. ASSUME NEW b \in Browser, Lookup(b) PROVE caller' \in [Caller -> New]
    <3>1. b \in Caller /\ caller[b] \in One
      BY <1>2 DEF Caller
    <3>2. CASE caller' = [caller EXCEPT ![b].at = "save"]
      <4>1. [caller[b] EXCEPT !.at = "save"] \in New
        BY <1>1, <3>1
      <4>2. QED
        BY <1>4, <3>1, <3>2, <4>1
    <3>3. CASE SameToken(b) # {} /\ caller' # [caller EXCEPT ![b].at = "save"]
      <4> DEFINE newest == CHOOSE i \in SameToken(b) : \A j \in SameToken(b) : j <= i
      <4>1. DOMAIN journal = 1 .. Len(journal)
        BY RowsHaveKeys DEF Core
      <4>2. SameToken(b) \subseteq Nat /\ \A i \in SameToken(b) : i <= Len(journal)
        BY <1>1, <4>1 DEF SameToken, Recent
      <4>3. \E i \in SameToken(b) : \A j \in SameToken(b) : j <= i
        BY <1>1, <3>3, <4>2, LargestOf
      <4>4. newest \in SameToken(b)
        BY <4>3
      <4>5. newest \in 0 .. Len(journal')
        BY <1>1, <4>1, <4>2, <4>4
      <4>6. caller' = [caller EXCEPT ![b] = [@ EXCEPT !.at = "accepted", !.operation = newest]]
        BY <2>4, <3>3 DEF Lookup
      <4> HIDE DEF newest
      <4>7. [caller[b] EXCEPT !.at = "accepted", !.operation = newest] \in New
        BY <3>1, <4>5
      <4>8. QED
        BY <1>4, <3>1, <4>6, <4>7
    <3>4. SameToken(b) = {} => caller' = [caller EXCEPT ![b].at = "save"]
      BY <2>4 DEF Lookup
    <3>5. QED
      BY <3>2, <3>3, <3>4
  <2>5. ASSUME NEW b \in Browser, Refuse(b) PROVE caller' \in [Caller -> New]
    <3>1. b \in Caller /\ caller[b] \in One /\ caller' = [caller EXCEPT ![b].at = "rejected"]
      BY <1>2, <2>5 DEF Caller, Refuse
    <3>2. [caller[b] EXCEPT !.at = "rejected"] \in New
      BY <1>1, <3>1
    <3>3. QED
      BY <1>4, <3>1, <3>2
  <2>6. QED
    BY <1>7, <2>1, <2>2, <2>3, <2>4, <2>5 DEF Admission
<1>8. QED
  BY <1>5, <1>6, <1>7, WhoChanges


(* What a running removal does next. *)
Starts(s) ==
  /\ Revalidate(s) /\ s \notin DOMAIN runner
  /\ DOMAIN runner' = DOMAIN runner \cup {s}
  /\ \E dry \in BOOLEAN, at \in {"act", "reject"} :
       runner'[s] = [at |-> at, dry |-> dry, mutated |-> FALSE, uncertain |-> FALSE,
                     errors |-> FALSE, failed |-> FALSE]
Proceeds(s) ==
  /\ s \in DOMAIN runner /\ DOMAIN runner' = DOMAIN runner
  /\ \/ Reject(s) /\ runner'[s] = [runner[s] EXCEPT !.at = "return", !.failed = TRUE]
     \/ Act(s) /\ runner[s].dry /\ runner'[s] = [runner[s] EXCEPT !.at = "finalize"]
     \/ /\ Act(s) /\ ~runner[s].dry
        /\ \E mutated, uncertain, errors \in BOOLEAN :
             runner'[s] = [runner[s] EXCEPT !.at = IF mutated \/ uncertain THEN "scope" ELSE "finalize",
                             !.mutated = mutated, !.uncertain = uncertain, !.errors = errors]
     \/ QueueScope(s) /\ runner'[s] = [runner[s] EXCEPT !.at = "advance"]
     \/ /\ QueueScope(s)
        /\ runner'[s] = [runner[s] EXCEPT !.at = "advance", !.errors = TRUE, !.uncertain = TRUE]
     \/ /\ AdvanceAfter(s)
        /\ \E errors \in BOOLEAN : runner'[s] = [runner[s] EXCEPT !.at = "finalize", !.errors = errors]
     \/ /\ Finalize(s)
        /\ runner'[s] = [runner[s] EXCEPT !.at = "return",
                           !.failed = (journal'[OperationOf(s)].status = "failed")]
Leaves(s) == Return(s) /\ DOMAIN runner' = DOMAIN runner \ {s}

LEMMA RunningEffect ==
  ASSUME Core, NEW s \in Slot,
         Revalidate(s) \/ Reject(s) \/ Act(s) \/ QueueScope(s) \/ AdvanceAfter(s) \/ Finalize(s) \/ Return(s)
  PROVE  /\ Starts(s) \/ Proceeds(s) \/ Leaves(s)
         /\ s \in DOMAIN runner' => runner'[s] \in Run
         /\ \A u \in DOMAIN runner \ {s} : u \in DOMAIN runner' /\ runner'[u] = runner[u]
<1>1. \A u \in DOMAIN runner : runner[u] \in Run
  BY DEF Core, RemovalsTypeOK, Run
<1>2. CASE Revalidate(s)
  <2>1. PICK dry \in DryRunModes, at \in {"act", "reject"} :
          runner' = Put(runner, s, [at |-> at, dry |-> dry, mutated |-> FALSE, uncertain |-> FALSE,
                                    errors |-> FALSE, failed |-> FALSE])
    BY <1>2 DEF Revalidate
  <2>2. dry \in BOOLEAN
    BY RemovalsAssumption
  <2>3. s \notin DOMAIN runner
    BY <1>2 DEF Revalidate
  <2>4. QED
    BY <1>2, <2>1, <2>2, <2>3 DEF Starts, Put, Run
<1>3. CASE Reject(s)
  <2>1. runner' = [runner EXCEPT ![s].at = "return", ![s].failed = TRUE] /\ s \in DOMAIN runner
    BY <1>3 DEF Reject
  <2>2. runner'[s] = [runner[s] EXCEPT !.at = "return", !.failed = TRUE] /\ DOMAIN runner' = DOMAIN runner
        /\ \A u \in DOMAIN runner \ {s} : runner'[u] = runner[u]
    BY <2>1
  <2>3. runner'[s] \in Run
    BY <1>1, <2>1, <2>2 DEF Run
  <2>4. QED
    BY <1>3, <2>1, <2>2, <2>3 DEF Proceeds
<1>4. CASE Act(s)
  <2>1. s \in DOMAIN runner /\ runner[s] \in Run
    BY <1>1, <1>4 DEF Act
  <2>2. CASE runner[s].dry
    <3>1. runner' = [runner EXCEPT ![s].at = "finalize"]
      BY <1>4, <2>2 DEF Act, Step
    <3>2. runner'[s] = [runner[s] EXCEPT !.at = "finalize"] /\ DOMAIN runner' = DOMAIN runner
          /\ \A u \in DOMAIN runner \ {s} : runner'[u] = runner[u]
      BY <2>1, <3>1
    <3>3. runner'[s] \in Run
      BY <2>1, <3>2 DEF Run
    <3>4. QED
      BY <1>4, <2>1, <2>2, <3>2, <3>3 DEF Proceeds
  <2>3. CASE ~runner[s].dry
    <3>1. PICK mutated, uncertain, errors \in BOOLEAN : runner' = [runner EXCEPT ![s] =
            [@ EXCEPT !.at = IF mutated \/ uncertain THEN "scope" ELSE "finalize",
                      !.mutated = mutated, !.uncertain = uncertain, !.errors = errors]]
      BY <1>4, <2>3 DEF Act
    <3>2. /\ runner'[s] = [runner[s] EXCEPT !.at = IF mutated \/ uncertain THEN "scope" ELSE "finalize",
                             !.mutated = mutated, !.uncertain = uncertain, !.errors = errors]
          /\ DOMAIN runner' = DOMAIN runner
          /\ \A u \in DOMAIN runner \ {s} : runner'[u] = runner[u]
      BY <2>1, <3>1
    <3>3. runner'[s] \in Run
      BY <2>1, <3>2 DEF Run
    <3>4. QED
      BY <1>4, <2>1, <2>3, <3>2, <3>3 DEF Proceeds
  <2>4. QED
    BY <2>2, <2>3
<1>5. CASE QueueScope(s)
  <2>1. s \in DOMAIN runner /\ runner[s] \in Run
    BY <1>1, <1>5 DEF QueueScope
  <2>2. CASE Step(s, "advance")
    <3>1. runner'[s] = [runner[s] EXCEPT !.at = "advance"] /\ DOMAIN runner' = DOMAIN runner
          /\ \A u \in DOMAIN runner \ {s} : runner'[u] = runner[u]
      BY <2>1, <2>2 DEF Step
    <3>2. runner'[s] \in Run
      BY <2>1, <3>1 DEF Run
    <3>3. QED
      BY <1>5, <2>1, <3>1, <3>2 DEF Proceeds
  <2>3. CASE runner' = [runner EXCEPT ![s].at = "advance", ![s].errors = TRUE, ![s].uncertain = TRUE]
    <3>1. /\ runner'[s] = [runner[s] EXCEPT !.at = "advance", !.errors = TRUE, !.uncertain = TRUE]
          /\ DOMAIN runner' = DOMAIN runner
          /\ \A u \in DOMAIN runner \ {s} : runner'[u] = runner[u]
      BY <2>1, <2>3
    <3>2. runner'[s] \in Run
      BY <2>1, <3>1 DEF Run
    <3>3. QED
      BY <1>5, <2>1, <3>1, <3>2 DEF Proceeds
  <2>4. QED
    BY <1>5, <2>2, <2>3 DEF QueueScope
<1>6. CASE AdvanceAfter(s)
  <2>1. /\ s \in DOMAIN runner /\ runner[s] \in Run
        /\ runner' = [runner EXCEPT ![s].at = "finalize", ![s].errors = @ \/ workflow' = workflow]
    BY <1>1, <1>6 DEF AdvanceAfter
  <2>2. PICK errors \in BOOLEAN : errors = (runner[s].errors \/ workflow' = workflow)
    OBVIOUS
  <2>3. /\ runner'[s] = [runner[s] EXCEPT !.at = "finalize", !.errors = errors]
        /\ DOMAIN runner' = DOMAIN runner
        /\ \A u \in DOMAIN runner \ {s} : runner'[u] = runner[u]
    BY <2>1, <2>2 DEF Run
  <2>4. runner'[s] \in Run
    BY <2>1, <2>3 DEF Run
  <2>5. QED
    BY <1>6, <2>1, <2>3, <2>4 DEF Proceeds
<1>7. CASE Finalize(s)
  <2>1. /\ s \in DOMAIN runner /\ runner[s] \in Run
        /\ runner' = [runner EXCEPT ![s].at = "return",
                                    ![s].failed = journal'[OperationOf(s)].status = "failed"]
    BY <1>1, <1>7 DEF Finalize
  <2>2. PICK failed \in BOOLEAN : failed = (journal'[OperationOf(s)].status = "failed")
    OBVIOUS
  <2>3. /\ runner'[s] = [runner[s] EXCEPT !.at = "return", !.failed = failed]
        /\ DOMAIN runner' = DOMAIN runner
        /\ \A u \in DOMAIN runner \ {s} : runner'[u] = runner[u]
    BY <2>1, <2>2 DEF Run
  <2>4. runner'[s] \in Run
    BY <2>1, <2>3 DEF Run
  <2>5. QED
    BY <1>7, <2>1, <2>2, <2>3, <2>4 DEF Proceeds
<1>8. CASE Return(s)
  BY <1>8 DEF Return, Leaves, Without, Restrict
<1>9. QED
  BY <1>2, <1>3, <1>4, <1>5, <1>6, <1>7, <1>8


LEMMA RunnerEffect ==
  ASSUME Core, [RemovalsNext]_system
  PROVE  /\ \A s \in DOMAIN runner' : /\ runner'[s] \in Run
                                      /\ \/ s \in DOMAIN runner /\ runner'[s] = runner[s]
                                         \/ s \in Slot /\ (Starts(s) \/ Proceeds(s))
         /\ \A s \in DOMAIN runner \ DOMAIN runner' : (Gone /\ Reset) \/ (s \in Slot /\ Leaves(s))
<1>1. \A s \in DOMAIN runner : runner[s] \in Run
  BY DEF Core, RemovalsTypeOK, Run
<1>2. CASE runner' = runner
  BY <1>1, <1>2
<1>3. CASE Gone /\ Reset
  BY <1>3 DEF Reset, EmptyMap
<1>4. CASE Running
  <2>1. PICK s \in Slot : Revalidate(s) \/ Reject(s) \/ Act(s) \/ QueueScope(s)
                            \/ AdvanceAfter(s) \/ Finalize(s) \/ Return(s)
    BY <1>4 DEF Running
  <2>2. /\ Starts(s) \/ Proceeds(s) \/ Leaves(s)
        /\ s \in DOMAIN runner' => runner'[s] \in Run
        /\ \A u \in DOMAIN runner \ {s} : u \in DOMAIN runner' /\ runner'[u] = runner[u]
    BY <2>1, RunningEffect
  <2>3. CASE Starts(s)
    <3>1. DOMAIN runner' = DOMAIN runner \cup {s}
      BY <2>3 DEF Starts
    <3>2. QED
      BY <1>1, <2>2, <2>3, <3>1
  <2>4. CASE Proceeds(s)
    <3>1. DOMAIN runner' = DOMAIN runner
      BY <2>4 DEF Proceeds
    <3>2. QED
      BY <1>1, <2>2, <2>4, <3>1
  <2>5. CASE Leaves(s)
    <3>1. DOMAIN runner' = DOMAIN runner \ {s}
      BY <2>5 DEF Leaves
    <3>2. QED
      BY <1>1, <2>2, <2>5, <3>1
  <2>6. QED
    BY <2>2, <2>3, <2>4, <2>5
<1>5. QED
  BY <1>2, <1>3, <1>4, WhoChanges

LEMMA RunnerType ==
  ASSUME Core, [RemovalsNext]_system
  PROVE  RunnerOK'
<1>1. SUFFICES ASSUME NEW s \in DOMAIN runner'
               PROVE  s \in DOMAIN execs' /\ TaskOf[execs'[s].key] = RemovalTask
  BY RunnerEffect DEF RunnerOK, RemovalRuns
<1>2. CASE Gone /\ Reset
  BY <1>1, <1>2 DEF Reset, EmptyMap
<1>3. CASE Loaded /\ UNCHANGED domain
  BY <1>1, <1>3 DEF Loaded, domain, Core, Orderly, Starting, Alive
<1>4. CASE Attended
  <2>1. s \in DOMAIN execs /\ s \in DOMAIN execs' /\ execs'[s].key = execs[s].key
    BY <1>1, <1>4 DEF Attended
  <2>2. RemovalRuns(s)
    BY <1>1, RunnerEffect DEF Starts, Proceeds, Revalidate, Core, RemovalsTypeOK
  <2>3. QED
    BY <2>1, <2>2 DEF RemovalRuns
<1>5. QED
  BY <1>2, <1>3, <1>4, StepEffect

(* And what a running reconciliation does. *)
LEMMA ScanEffect ==
  ASSUME Core, [RemovalsNext]_system, NEW s \in DOMAIN scan'
  PROVE  \/ s \in DOMAIN scan /\ scan'[s] = scan[s]
         \/ /\ s \in Slot /\ BeginScan(s) /\ s \notin DOMAIN scan
            /\ \E full \in BOOLEAN :
                 /\ full \/ (execs[s].targeted /\ ScopeIsExact)
                 /\ scan'[s] = [reads |-> Read(TaskOf[execs[s].key], full), full |-> full, at |-> "work"]
         \/ /\ s \in Slot /\ s \in DOMAIN scan
            /\ \/ Publish(s) /\ \E at \in {"clear", "done"} : scan'[s] = [scan[s] EXCEPT !.at = at]
               \/ ClearScope(s) /\ \E at \in {"failed", "done"} : scan'[s] = [scan[s] EXCEPT !.at = at]
<1>1. CASE scan' = scan
  BY <1>1
<1>2. CASE Gone /\ Reset
  BY <1>2 DEF Reset, EmptyMap
<1>3. CASE Scanning
  <2>1. ASSUME NEW u \in Slot, BeginScan(u)
        PROVE  \/ s \in DOMAIN scan /\ scan'[s] = scan[s]
               \/ /\ s = u /\ s \notin DOMAIN scan
                  /\ \E full \in BOOLEAN :
                       /\ full \/ (execs[s].targeted /\ ScopeIsExact)
                       /\ scan'[s] = [reads |-> Read(TaskOf[execs[s].key], full), full |-> full, at |-> "work"]
    <3>1. PICK full \in BOOLEAN :
            /\ full \/ (execs[u].targeted /\ ScopeIsExact)
            /\ scan' = Put(scan, u, [reads |-> Read(TaskOf[execs[u].key], full), full |-> full, at |-> "work"])
      BY <2>1 DEF BeginScan
    <3>2. u \notin DOMAIN scan
      BY <2>1 DEF BeginScan
    <3> DEFINE v == [reads |-> Read(TaskOf[execs[u].key], full), full |-> full, at |-> "work"]
    <3>3. scan'[u] = v /\ DOMAIN scan' = DOMAIN scan \cup {u}
          /\ \A x \in DOMAIN scan : scan'[x] = scan[x]
      <4> HIDE DEF v
      <4>1. scan' = Put(scan, u, v)
        BY <3>1 DEF v
      <4>2. QED
        BY <3>2, <4>1 DEF Put
    <3>4. QED
      BY <3>1, <3>2, <3>3
  <2>2. ASSUME NEW u \in Slot, Publish(u)
        PROVE  \/ s \in DOMAIN scan /\ scan'[s] = scan[s]
               \/ /\ s = u /\ s \in DOMAIN scan
                  /\ \E at \in {"clear", "done"} : scan'[s] = [scan[s] EXCEPT !.at = at]
    BY <2>2 DEF Publish, Published
  <2>3. ASSUME NEW u \in Slot, ScanReturns(u)
        PROVE  s \in DOMAIN scan /\ scan'[s] = scan[s]
    BY <2>3 DEF ScanReturns, Restrict
  <2>4. ASSUME NEW u \in Slot, ClearScope(u)
        PROVE  \/ s \in DOMAIN scan /\ scan'[s] = scan[s]
               \/ /\ s = u /\ s \in DOMAIN scan
                  /\ \E at \in {"failed", "done"} : scan'[s] = [scan[s] EXCEPT !.at = at]
    BY <2>4 DEF ClearScope
  <2>5. QED
    BY <1>3, <2>1, <2>2, <2>3, <2>4 DEF Scanning
<1>4. QED
  BY <1>1, <1>2, <1>3, WhoChanges

LEMMA StepTasks == Inventory \in Task /\ Files \in Task
<1>1. Steps \in Seq(Key) /\ TaskOf \in [Key -> Task]
  BY SchedulerAssumption
<1>2. Len(Steps) = 2
  BY RemovalsAssumption
<1>3. Steps[1] \in Key /\ Steps[2] \in Key
  BY <1>1, <1>2
<1>4. QED
  BY <1>1, <1>3 DEF Inventory, Files

LEMMA ScanType ==
  ASSUME Core, [RemovalsNext]_system
  PROVE  ScanOK'
<1>1. SUFFICES ASSUME NEW s \in DOMAIN scan' PROVE Scans(s)' /\ scan'[s] \in Look
  BY DEF ScanOK
<1>2. Scans(s) \/ (Gone /\ Reset)
  BY <1>1, ScanEffect DEF BeginScan, Publish, ClearScope, Core, RemovalsTypeOK
<1>3. CASE Gone /\ Reset
  BY <1>1, <1>3 DEF Reset, EmptyMap
<1>4. CASE Loaded /\ UNCHANGED domain
  BY <1>1, <1>4 DEF Loaded, domain, Core, Orderly, Starting, Alive
<1>5. CASE Attended
  <2>1. s \in DOMAIN execs /\ s \in DOMAIN execs' /\ execs'[s].key = execs[s].key
    BY <1>1, <1>5 DEF Attended
  <2>2. Scans(s)'
    BY <1>2, <1>3, <2>1 DEF Scans
  <2>3. Inventory \in Task /\ Files \in Task
    BY StepTasks
  <2>4. \A task, full : Read(task, full) \subseteq Nat \X Task
    BY <2>3 DEF Read, Core, RemovalsTypeOK
  <2>5. \A u \in DOMAIN scan : scan[u] \in Look
    BY DEF Core, RemovalsTypeOK, Look
  <2>6. scan'[s] \in Look
    BY <1>1, <2>4, <2>5, ScanEffect DEF Look
  <2>7. QED
    BY <2>2, <2>6
<1>6. QED
  BY <1>3, <1>4, <1>5, StepEffect

LEMMA ServerType ==
  ASSUME Core, [RemovalsNext]_system
  PROVE  ServerOK'
<1>1. ServerOK /\ DOMAIN journal \subseteq DOMAIN journal'
  BY RowsGrow DEF Core, RemovalsTypeOK, ServerOK
<1>2. CASE server' = server
  BY <1>1, <1>2 DEF ServerOK
<1>3. CASE Gone /\ Reset
  BY <1>1, <1>3 DEF ServerOK, Reset, Starting
<1>4. CASE ReadJournal
  BY <1>1, <1>4 DEF ServerOK, ReadJournal, InFlight
<1>5. CASE RecoverEvent
  <2>1. Fatal \/ \E restore \in BOOLEAN : Handled(restore)
    <3>1. NextEvent \in DOMAIN journal
      BY <1>5, NextEventIsDue DEF RecoverEvent, Core
    <3>2. (~journal[NextEvent].dry) \in BOOLEAN
      OBVIOUS
    <3>3. QED
      BY <1>5, <3>2 DEF RecoverEvent, RecoverStarted, RecoverScheduled, RecoverUnscheduled
  <2>2. QED
    BY <1>1, <2>1 DEF ServerOK, Fatal, Handled
<1>6. CASE InterruptStarted \/ RestoreScope \/ RestoreWorkflow
  <2>1. \E at \in {"scope", "open", "advance", "fatal"} : server' = [server EXCEPT !.at = at]
    BY <1>6 DEF InterruptStarted, RestoreScope, RestoreWorkflow, Fatal
  <2>2. QED
    BY <1>1, <2>1 DEF ServerOK
<1>7. QED
  BY <1>2, <1>3, <1>4, <1>5, <1>6, WhoChanges DEF ServerStarts


LEMMA RestType ==
  ASSUME Core, [RemovalsNext]_system
  PROVE  /\ edits' \in Nat /\ acted' \in [DOMAIN OperationKey -> 0 .. 2]
         /\ refused' \subseteq DOMAIN journal' /\ debts' \subseteq Nat \X {Inventory, Files}
<1>1. /\ edits \in Nat /\ acted \in [DOMAIN OperationKey -> 0 .. 2]
      /\ refused \subseteq DOMAIN journal /\ debts \subseteq Nat \X {Inventory, Files}
  BY DEF Core, RemovalsTypeOK
<1>2. /\ DOMAIN journal \subseteq DOMAIN journal' /\ DOMAIN journal \subseteq Nat
      /\ DOMAIN journal \subseteq DOMAIN OperationKey
  BY RowsGrow, RowsHaveKeys DEF Core
<1>3. edits' \in Nat
  <2>1. ServiceChanges => edits' = edits + 1
    BY DEF ServiceChanges
  <2>2. edits' = edits \/ edits' = edits + 1
    BY <2>1, WhoChanges
  <2>3. QED
    BY <1>1, <2>2
<1>4. acted' \in [DOMAIN OperationKey -> 0 .. 2]
  <2>1. ASSUME NEW s \in Slot, Act(s) PROVE acted' \in [DOMAIN OperationKey -> 0 .. 2]
    <3>1. acted' = acted \/ acted' = [acted EXCEPT ![OperationOf(s)] = IF @ < 2 THEN @ + 1 ELSE @]
      BY <2>1 DEF Act
    <3>2. QED
      BY <1>1, <3>1
  <2>2. QED
    BY <1>1, <2>1, WhoChanges
<1>5. refused' \subseteq DOMAIN journal'
  <2>1. ASSUME NEW b \in Browser, Refuse(b) PROVE refused' \subseteq DOMAIN journal'
    <3>1. b \in Caller /\ caller[b].at = "refuse" /\ refused' = refused \cup {caller[b].operation}
      BY <2>1 DEF Caller, Refuse
    <3>2. caller[b].operation \in DOMAIN journal
      BY <3>1 DEF Core, Submitting
    <3>3. QED
      BY <1>1, <1>2, <3>1, <3>2
  <2>2. QED
    BY <1>1, <1>2, <2>1, WhoChanges
<1>6. debts' \subseteq Nat \X {Inventory, Files}
  <2>1. CASE ServiceChanges
    BY <1>1, <2>1 DEF ServiceChanges, Services
  <2>2. ASSUME NEW s \in Slot, Act(s) PROVE debts' \subseteq Nat \X {Inventory, Files}
    <3>1. OperationOf(s) \in Nat
      BY <1>2, <2>2, OperationOfRunner DEF Act
    <3>2. \/ debts' = debts
          \/ \E more \in {{}, {<<OperationOf(s), Inventory>>}} :
               debts' = debts \cup {<<OperationOf(s), Files>>} \cup more
      BY <2>2 DEF Act
    <3>3. QED
      BY <1>1, <3>1, <3>2
  <2>3. ASSUME NEW s \in Slot, Publish(s) PROVE debts' \subseteq Nat \X {Inventory, Files}
    BY <1>1, <2>3 DEF Publish
  <2>4. QED
    BY <1>1, <2>1, <2>2, <2>3, WhoChanges
<1>7. QED
  BY <1>3, <1>4, <1>5, <1>6

(* What a request that is being served does next. *)
Turns(c) ==
  \/ /\ Arrive(c) /\ journal' = journal
     /\ caller'[c].at = IF c \in Browser THEN "lookup" ELSE "save"
     /\ caller'[c].token \in IF c \in Browser THEN Token ELSE {NoToken}
  \/ Save(c) /\ journal' = journal /\ caller'[c] = [caller[c] EXCEPT !.at = "rejected"]
  \/ /\ Save(c) /\ UNCHANGED vars /\ Len(journal) < Len(OperationKey)
     /\ caller'[c] = [caller[c] EXCEPT !.at = "submit", !.operation = Len(journal) + 1]
     /\ \E dry \in BOOLEAN :
          journal' = Append(journal, [status |-> "queued", token |-> caller[c].token, dry |-> dry])
  \/ /\ HandOver(c) /\ journal' = journal
     /\ caller'[c] = [caller[c] EXCEPT !.at = IF issued' # issued THEN "accepted"
                                             ELSE IF c \in Browser THEN "refuse" ELSE "rejected"]
  \/ /\ c \in Browser /\ Lookup(c) /\ journal' = journal
     /\ caller'[c].token = caller[c].token
     /\ caller'[c].at \in {"save", "accepted"}
     /\ caller'[c].at = "save" => NotWritten \/ SameToken(c) = {}
  \/ c \in Browser /\ Refuse(c) /\ caller'[c] = [caller[c] EXCEPT !.at = "rejected"]

LEMMA WrittenOrNot == ASSUME Below PROVE ~(Written /\ NotWritten)
<1>1. count \in [submits : Nat, faults : Nat, stops : Nat]
  BY DEF Below, TypeOK
<1>2. NotWritten => count' # count
  BY <1>1 DEF NotWritten, PersistFails
<1>3. QED
  BY <1>2 DEF Written, vars

LEMMA CallerEffect ==
  ASSUME Core, [RemovalsNext]_system
  PROVE  \/ caller' = caller
         \/ (Gone /\ Reset)
         \/ \E c \in Caller : Turns(c) /\ \A d \in Caller \ {c} : caller'[d] = caller[d]
<1>1. DOMAIN caller = Caller /\ \A c \in Caller : caller[c] \in [
           at : {"idle", "lookup", "save", "submit", "refuse", "accepted", "rejected"},
           token : Token \cup {NoToken}, operation : 0 .. Len(journal)]
  BY DEF Core, RemovalsTypeOK
<1>2. CASE Admission
  <2>1. ASSUME NEW c \in Caller, Arrive(c)
        PROVE  Turns(c) /\ \A d \in Caller \ {c} : caller'[d] = caller[d]
    <3>1. PICK t \in (IF c \in Browser THEN Token ELSE {NoToken}) : caller' = [caller EXCEPT ![c] =
            [at |-> IF c \in Browser THEN "lookup" ELSE "save", token |-> t, operation |-> 0]]
      BY <2>1 DEF Arrive
    <3>2. caller'[c] = [at |-> IF c \in Browser THEN "lookup" ELSE "save", token |-> t, operation |-> 0]
          /\ \A d \in Caller \ {c} : caller'[d] = caller[d]
      BY <1>1, <3>1
    <3>3. journal' = journal
      BY <2>1 DEF Arrive
    <3>4. QED
      BY <2>1, <3>2, <3>3 DEF Turns
  <2>2. ASSUME NEW c \in Caller, Save(c)
        PROVE  Turns(c) /\ \A d \in Caller \ {c} : caller'[d] = caller[d]
    <3>1. CASE caller' = [caller EXCEPT ![c].at = "rejected"] /\ UNCHANGED journal
      BY <1>1, <2>2, <3>1 DEF Turns
    <3>2. CASE /\ Len(journal) < Len(OperationKey)
               /\ \E dry \in DryRunModes :
                    journal' = Append(journal, [status |-> "queued", token |-> caller[c].token, dry |-> dry])
               /\ caller' = [caller EXCEPT ![c].at = "submit", ![c].operation = Len(journal) + 1]
               /\ Written
      <4> DEFINE v == [caller[c] EXCEPT !.at = "submit", !.operation = Len(journal) + 1]
      <4>1. caller' = [caller EXCEPT ![c] = v]
        BY <1>1, <3>2
      <4>2. \A d \in Caller \ {c} : caller'[d] = caller[d]
        BY <1>1, <4>1
      <4>3. caller'[c] = [caller[c] EXCEPT !.at = "submit", !.operation = Len(journal) + 1]
        BY <1>1, <4>1
      <4>4. DryRunModes \subseteq BOOLEAN
        BY RemovalsAssumption
      <4>5. QED
        BY <2>2, <3>2, <4>2, <4>3, <4>4 DEF Turns, Written
    <3>3. QED
      BY <2>2, <3>1, <3>2 DEF Save
  <2>3. ASSUME NEW c \in Caller, HandOver(c)
        PROVE  Turns(c) /\ \A d \in Caller \ {c} : caller'[d] = caller[d]
    BY <1>1, <2>3 DEF Turns, HandOver
  <2>4. ASSUME NEW b \in Browser, Lookup(b)
        PROVE  Turns(b) /\ \A d \in Caller \ {b} : caller'[d] = caller[d]
    <3>1. b \in Caller
      BY DEF Caller
    <3>2. CASE /\ caller' = [caller EXCEPT ![b].at = "save"] /\ journal' = journal
               /\ NotWritten \/ SameToken(b) = {}
      BY <1>1, <2>4, <3>1, <3>2 DEF Turns
    <3>3. CASE Written /\ SameToken(b) # {}
      <4> DEFINE newest == CHOOSE i \in SameToken(b) : \A j \in SameToken(b) : j <= i
      <4>1. /\ caller' = [caller EXCEPT ![b] = [@ EXCEPT !.at = "accepted", !.operation = newest]]
            /\ journal' = journal
        BY <2>4, <3>3, WrittenOrNot DEF Core, Lookup
      <4> HIDE DEF newest
      <4>2. QED
        BY <1>1, <2>4, <3>1, <3>3, <4>1 DEF Turns
    <3>4. QED
      BY <2>4, <3>2, <3>3 DEF Lookup
  <2>5. ASSUME NEW b \in Browser, Refuse(b)
        PROVE  Turns(b) /\ \A d \in Caller \ {b} : caller'[d] = caller[d]
    BY <1>1, <2>5 DEF Turns, Refuse, Caller
  <2>6. Browser \subseteq Caller
    BY DEF Caller
  <2>7. QED
    BY <1>2, <2>1, <2>2, <2>3, <2>4, <2>5, <2>6 DEF Admission
<1>3. QED
  BY <1>2, WhoChanges

LEMMA SubmittingStep ==
  ASSUME Core, [RemovalsNext]_system
  PROVE  Submitting'
<1>1. Submitting /\ DOMAIN journal \subseteq DOMAIN journal' /\ DOMAIN journal' = 1 .. Len(journal')
      /\ Len(journal') \in Nat
  BY RowsGrow DEF Core
<1> DEFINE Right(c) == /\ caller'[c].at \in {"submit", "refuse"} => caller'[c].operation \in DOMAIN journal'
                       /\ caller'[c].at = "refuse" => c \in Browser
<1>2. SUFFICES ASSUME NEW c \in Caller PROVE Right(c)
  BY DEF Submitting
<1>3. CASE caller'[c] = caller[c]
  BY <1>1, <1>3 DEF Submitting
<1>4. CASE Gone /\ Reset
  BY <1>4 DEF Reset, IdleCaller
<1>5. CASE Turns(c)
  <2>1. caller[c] \in [at : {"idle", "lookup", "save", "submit", "refuse", "accepted", "rejected"},
                       token : Token \cup {NoToken}, operation : 0 .. Len(journal)]
    BY DEF Core, RemovalsTypeOK
  <2>2. CASE \E dry \in BOOLEAN :
               journal' = Append(journal, [status |-> "queued", token |-> caller[c].token, dry |-> dry])
             /\ caller'[c] = [caller[c] EXCEPT !.at = "submit", !.operation = Len(journal) + 1]
    <3>1. journal \in Seq(Row)
      BY DEF Core, RemovalsTypeOK, Row
    <3>2. Len(journal') = Len(journal) + 1 /\ Len(journal) \in Nat
      BY <2>2, <3>1
    <3>3. QED
      BY <1>1, <2>1, <2>2, <3>2
  <2>3. CASE HandOver(c) /\ caller'[c] = [caller[c] EXCEPT !.at = IF issued' # issued THEN "accepted"
                                             ELSE IF c \in Browser THEN "refuse" ELSE "rejected"]
    <3>1. caller[c].at = "submit"
      BY <2>3 DEF HandOver
    <3>2. QED
      BY <1>1, <2>1, <2>3, <3>1 DEF Submitting
  <2>4. CASE caller'[c].at \in {"lookup", "save", "accepted", "rejected"}
    BY <2>4
  <2>5. QED
    BY <1>5, <2>1, <2>2, <2>3, <2>4 DEF Turns
<1>6. QED
  BY <1>3, <1>4, <1>5, CallerEffect


LEMMA CoreStep ==
  ASSUME Core, [RemovalsNext]_system
  PROVE  Core'
<1>1. RemovalsTypeOK'
  <2>1. journal' \in Seq(Row) /\ Len(journal') <= Len(OperationKey)
    BY RowsGrow
  <2>2. QED
    BY <2>1, ScopeType, CallerType, RunnerType, ScanType, ServerType, RestType
       DEF RemovalsTypeOK, Row, ScopeOK, CallerOK, RunnerOK, Run, ScanOK, Look, ServerOK
<1>2. QED
  BY <1>1, BelowStep, SubmittingStep, JournaledStep, OrderlyStep DEF Core

LEMMA CoreInit == RemovalsInit => Core
<1> SUFFICES ASSUME RemovalsInit PROVE Core
  OBVIOUS
<1>1. Init
  BY DEF RemovalsInit
<1>2. Below
  <2>1. TypeOK /\ Idle /\ TableInv
    BY <1>1, InitType, TableInit
  <2>2. QED
    BY <1>1, <2>1, AccountedInit DEF Below
<1>3. RemovalsTypeOK
  <2>1. journal = <<>> /\ Len(journal) = 0 /\ Len(OperationKey) \in Nat
    BY RemovalsAssumption DEF RemovalsInit
  <2>2. caller \in [Caller -> [at : {"idle"}, token : {NoToken}, operation : {0}]]
    BY DEF RemovalsInit, IdleCaller
  <2>3. DOMAIN runner = {} /\ DOMAIN scan = {}
    BY DEF RemovalsInit, EmptyMap
  <2>4. QED
    BY <2>1, <2>2, <2>3 DEF RemovalsTypeOK, RemovalsInit, NoScope, Starting
<1>4. Submitting
  BY DEF RemovalsInit, Submitting, IdleCaller
<1>5. Journaled
  BY <1>1 DEF Journaled, Everywhere, Keys, Init, EmptyMap, EmptyDisk
<1>6. Orderly
  BY <1>1 DEF RemovalsInit, Orderly, Init, Alive, EmptyMap, IdleCaller
<1>7. QED
  BY <1>2, <1>3, <1>4, <1>5, <1>6 DEF Core

LEMMA AlwaysCore == RemovalsSpec => []Core
BY CoreInit, CoreStep, PTL DEF RemovalsSpec

(* What a step does to the counters and to the copy on disk.  Outside a     *)
(* pass the copy lacks no intent that memory does not lack too.             *)
Counts ==
  \/ count' = count
  \/ count' = [count EXCEPT !.submits = @ + 1]
  \/ count' = [count EXCEPT !.stops = @ + 1]
Synced ==
  Unlocked' => \/ disk' = PersistenceView'
               \/ Unlocked /\ DiskStays /\ DOMAIN pending' = DOMAIN pending

LEMMA SyncBelow ==
  ASSUME TypeOK, [Next]_vars
  PROVE  PersistFails \/ (Counts /\ Synced)
<1>1. ASSUME disk' = disk, pending' = pending, loop' = loop, phase' = phase PROVE Synced
  BY <1>1 DEF Synced, DiskStays, Unlocked, Alive
<1>2. CASE Pass
  <2>1. CASE StartPass \/ Preempt \/ CreateWorkflowTrigger \/ (\E task \in Periodic : CreatePeriodicTrigger(task))
    <3>1. loop' \in {"create", "admit"} /\ count' = count
      BY <2>1 DEF StartPass, Preempt, CreateWorkflowTrigger, CreatePeriodicTrigger
    <3>2. QED
      BY <3>1 DEF Counts, Synced, Unlocked
  <2>2. ASSUME Panics PROVE Counts /\ Synced
    BY <2>2 DEF Panics, Counts, Synced, Unlocked, Alive
  <2>3. ASSUME NEW k \in Key, Admit(k) PROVE Counts /\ Synced
    <3>1. loop = "admit" /\ (Panics \/ (loop' = loop /\ count' = count))
      BY <2>3 DEF Admit
    <3>2. QED
      BY <2>2, <3>1 DEF Counts, Synced, Unlocked
  <2>4. CASE EndPass
    <3>1. Panics \/ PersistOrLog
      BY <2>4 DEF EndPass
    <3>2. QED
      BY <2>2, <3>1 DEF PersistOrLog, Persisted, Counts, Synced
  <2>5. QED
    BY <1>2, <2>1, <2>3, <2>4 DEF Pass
<1>3. ASSUME NEW s \in Slot, Finish(s)
      PROVE  PersistFails \/ (Counts /\ Synced)
  <2>1. PersistOrLog
    BY <1>3 DEF Finish, FinishRequeued, FinishInterrupted, FinishFailed, FinishSucceeded, Finished
  <2>2. QED
    BY <2>1 DEF PersistOrLog, Persisted, Counts, Synced
<1>4. CASE Recovery
  <2>1. ASSUME NEW s, RecoverInterrupted(s) PROVE Counts /\ Synced
    <3>1. Panics \/ (phase' = "recovering" /\ count' = count)
      BY <2>1 DEF RecoverInterrupted
    <3>2. QED
      BY <3>1 DEF Panics, Counts, Synced, Unlocked, Alive
  <2>2. CASE RecoveryDone
    BY <2>2 DEF RecoveryDone, Persisted, Counts, Synced
  <2>3. QED
    BY <1>4, <2>1, <2>2 DEF Recovery
<1>5. CASE TimePasses
  <2>1. ASSUME NEW k \in Key, DelayElapses(k)
        PROVE  Counts /\ Synced
    <3>1. /\ disk' = [disk EXCEPT !.pending = Elapsed(@, k)] /\ pending' = Elapsed(pending, k)
          /\ Unlocked /\ count' = count
      BY <2>1 DEF DelayElapses
    <3>2. \A j \in DOMAIN disk.pending : disk.pending[j] \in Intent
      BY DEF TypeOK, SavedOK, PendingOK
    <3>3. /\ disk'.triggers = disk.triggers /\ disk'.execs = disk.execs
          /\ disk'.issued = disk.issued /\ disk'.pending = Elapsed(disk.pending, k)
      BY <3>1 DEF TypeOK, SavedOK
    <3>4. DiskStays
      BY <3>2, <3>3 DEF DiskStays, Elapsed, Intent
    <3>5. DOMAIN pending' = DOMAIN pending
      BY <3>1 DEF Elapsed
    <3>6. QED
      BY <3>1, <3>4, <3>5 DEF Counts, Synced
  <2>2. ASSUME NEW ready, NEW overdue, WorkflowTimePasses(ready, overdue)
        PROVE  Counts /\ Synced
    <3>1. DiskStays
      BY <2>2 DEF WorkflowTimePasses, DiskStays, TypeOK, SavedOK
    <3>2. QED
      BY <2>2, <3>1 DEF WorkflowTimePasses, Counts, Synced
  <2>3. ASSUME NEW k \in Key, Age(k)
        PROVE  Counts /\ Synced
    <3>1. /\ disk' = [disk EXCEPT !.pending = Aged(@, k)] /\ pending' = Aged(pending, k)
          /\ Unlocked /\ count' = count
      BY <2>3 DEF Age
    <3>2. \A j \in DOMAIN disk.pending : disk.pending[j] \in Intent
      BY DEF TypeOK, SavedOK, PendingOK
    <3>3. /\ disk'.triggers = disk.triggers /\ disk'.execs = disk.execs
          /\ disk'.issued = disk.issued /\ disk'.pending = Aged(disk.pending, k)
      BY <3>1 DEF TypeOK, SavedOK
    <3>4. DiskStays
      BY <3>2, <3>3 DEF DiskStays, Aged, Intent
    <3>5. DOMAIN pending' = DOMAIN pending
      BY <3>1 DEF Aged
    <3>6. QED
      BY <3>1, <3>4, <3>5 DEF Counts, Synced
  <2>4. ASSUME NEW task \in Periodic, Tick(task)
        PROVE  Counts /\ Synced
    BY <1>1, <2>4 DEF Tick, Counts, manager
  <2>5. QED
    BY <1>5, <2>1, <2>2, <2>3, <2>4 DEF TimePasses, QuietPeriodElapses, DeadlinePasses
<1>6. CASE Client
  <2>1. ASSUME NEW r, Submit(r) PROVE PersistFails \/ (Counts /\ Synced)
    BY <2>1 DEF Submit, Counts, Synced
  <2>2. ASSUME NEW quiet, AdvanceWorkflow(quiet) PROVE PersistFails \/ (Counts /\ Synced)
    BY <2>2 DEF AdvanceWorkflow, Counts, Synced
  <2>3. QED
    BY <1>6, <2>1, <2>2 DEF Client
<1>7. CASE Process
  <2>1. CASE Restart
    BY <2>1 DEF Restart, Counts, Synced, Unlocked, Alive
  <2>2. CASE Crash \/ Stopped
    <3>1. PersistFails \/ (phase' = "down" /\ Counts)
      BY <2>2 DEF Crash, Stopped, Counts
    <3>2. QED
      BY <3>1 DEF Synced, Unlocked, Alive
  <2>3. CASE Shutdown
    BY <2>3 DEF Shutdown, Counts, Synced, DiskStays, manager
  <2>4. CASE StopLoop
    BY <2>4 DEF StopLoop, Counts, Synced, DiskStays, manager, Unlocked, Alive
  <2>5. CASE GraceExpires
    BY <1>1, <2>5 DEF GraceExpires, Counts, manager
  <2>6. QED
    BY <1>7, <2>1, <2>2, <2>3, <2>4, <2>5 DEF Process
<1>8. CASE UNCHANGED vars
  BY <1>1, <1>8 DEF vars, manager, Counts
<1>9. QED
  BY <1>2, <1>3, <1>4, <1>5, <1>6, <1>7, <1>8 DEF Next

LEMMA SyncStep ==
  ASSUME Core, [RemovalsNext]_system
  PROVE  PersistFails \/ (Counts /\ Synced)
<1>1. CASE [Next]_vars
  BY <1>1, SyncBelow DEF Core, Below
<1>2. CASE NotWritten
  BY <1>2 DEF NotWritten
<1>3. ASSUME NEW i \in DOMAIN journal, Submit(RemovalRequest(i))
      PROVE  PersistFails \/ (Counts /\ Synced)
  BY <1>3 DEF Submit, Counts, Synced
<1>4. CASE phase' = "down" /\ Forget /\ UNCHANGED <<ticks, disk, count>>
  BY <1>4 DEF Counts, Synced, Unlocked, Alive
<1>5. QED
  BY <1>1, <1>2, <1>3, <1>4, StepsBelow

LEMMA NoFaultStep ==
  ASSUME Core, [RemovalsNext]_system, count'.faults = 0
  PROVE  count.faults = 0 /\ ~PersistFails /\ Synced
<1>1. count \in [submits : Nat, faults : Nat, stops : Nat]
  BY DEF Core, Below, TypeOK
<1>2. ~PersistFails
  BY <1>1 DEF PersistFails
<1>3. Counts => count.faults = 0
  BY <1>1 DEF Counts
<1>4. QED
  BY <1>2, <1>3, SyncStep

-----------------------------------------------------------------------------
(* 4. One trigger, one intent and one execution for every removal, in       *)
(* memory and on disk; and none before it is handed over.                   *)
Single(trg, pend, ex) ==
  /\ \A k \in DOMAIN pend : Ours(k) => pend[k].triggers # {} /\ pend[k].triggers \subseteq DOMAIN trg
  /\ \A t \in DOMAIN trg : Ours(trg[t].key) =>
       trg[t].durable /\ \A u \in DOMAIN trg : trg[u].key = trg[t].key => u = t
  /\ \A s \in DOMAIN ex : Ours(ex[s].key) =>
       ex[s].key \notin DOMAIN pend /\ \A u \in DOMAIN ex : ex[u].key = ex[s].key => u = s
Ledger ==
  Single(triggers, pending, execs) /\ Single(disk.triggers, disk.pending, disk.execs)

(* A row whose caller has not handed it over is known to that caller only. *)
Handing(c) == caller[c].at \in {"submit", "refuse"}
Promised ==
  \A c \in Caller : Handing(c) =>
    /\ journal[caller[c].operation].status = "queued"
    /\ OperationKey[caller[c].operation] \notin Everywhere
    /\ \A d \in Caller \ {c} : Handing(d) => caller[d].operation # caller[c].operation

(* One request at a time is between the look at its token and the answer,   *)
(* and what the look has shown remains true.                                *)
Tokens ==
  /\ \A b, c \in Admitting : b = c
  /\ \A b \in Browser : /\ count.faults = 0 /\ caller[b].at = "save" => SameToken(b) = {}
                        /\ caller[b].at \in {"lookup", "save"} => caller[b].token \in Token
  /\ \A c \in Planner : caller[c].token = NoToken
  /\ OneOperationPerToken

Booked == Core /\ Ledger /\ Promised /\ Tokens

(* What is handed over is new to the scheduler. *)
LEMMA HandedOverIsNew ==
  ASSUME Core, Ledger, Promised, NEW i, HandsOver(i)
  PROVE  OperationKey[i] \notin Keys(triggers, pending, execs)
<1>1. CASE \E c \in Caller : HandOver(c) /\ caller[c].operation = i
  BY <1>1 DEF HandOver, Promised, Handing, Everywhere
<1>2. CASE RecoverEvent /\ RecoverUnscheduled /\ NextEvent = i
  <2>1. i \in DOMAIN journal /\ i \in DOMAIN OperationKey
    BY RowsHaveKeys DEF HandsOver, Handed, Core
  <2>2. Ours(OperationKey[i])
    BY <2>1, RequestOfRow
  <2>3. TriggersOf(i) = {}
    <3>1. \A t \in DOMAIN triggers : triggers[t].state # "none"
      BY DEF Core, Below, TypeOK, TriggersOK, Trigger, TriggerState
    <3>2. SUFFICES ASSUME TriggersOf(i) # {} PROVE FALSE
      OBVIOUS
    <3>3. TriggersOf(i) \subseteq Nat /\ \E n \in Nat : \A t \in TriggersOf(i) : t <= n
      BY DEF TriggersOf, Core, Below, TypeOK, TriggersOK
    <3>4. \E t \in TriggersOf(i) : \A u \in TriggersOf(i) : u <= t
      BY <3>2, <3>3, LargestOf
    <3>5. LatestState(i) # "none"
      BY <3>1, <3>2, <3>4 DEF LatestState, TriggersOf
    <3>6. QED
      BY <1>2, <3>5 DEF RecoverUnscheduled
  <2>4. \A t \in DOMAIN triggers : triggers[t].key # OperationKey[i]
    BY <2>3 DEF TriggersOf
  <2>5. OperationKey[i] \notin DOMAIN pending
    <3>1. SUFFICES ASSUME OperationKey[i] \in DOMAIN pending PROVE FALSE
      OBVIOUS
    <3>2. PICK t \in pending[OperationKey[i]].triggers : t \in DOMAIN triggers
      BY <2>2, <3>1 DEF Ledger, Single
    <3>3. triggers[t].key = OperationKey[i]
      BY <3>1, <3>2 DEF Core, Below, Accounted, BooksNow, Books, QueuedRight
    <3>4. QED
      BY <2>4, <3>2, <3>3
  <2>6. DOMAIN execs = {}
    BY <1>2 DEF RecoverEvent, Unlocked, Core, Orderly
  <2>7. QED
    BY <2>4, <2>5, <2>6 DEF Keys
<1>3. QED
  BY <1>1, <1>2 DEF HandsOver

LEMMA HandedSingle ==
  ASSUME Core, Single(triggers, pending, execs), NEW i, Handed(i),
         OperationKey[i] \notin Keys(triggers, pending, execs)
  PROVE  /\ Single(triggers', pending', execs')
         /\ execs' = execs
         /\ DOMAIN pending' = DOMAIN pending \cup {OperationKey[i]}
<1> DEFINE k == OperationKey[i]
           t == issued + 1
           new == NewTrigger(RemovalRequest(i), "pending")
<1>1. /\ k \notin DOMAIN pending /\ \A s \in DOMAIN execs : execs[s].key # k
      /\ \A u \in DOMAIN triggers : triggers[u].key # k
  BY DEF Keys
<1>2. Attachable(RemovalRequest(i)) = {} /\ RemovalRequest(i).key = k /\ RemovalRequest(i).durable = TRUE
  BY <1>1 DEF Attachable, RemovalRequest
<1>3. t \notin DOMAIN triggers
  BY ShapedNow, NewIDs DEF Core, Below, Accounted, BooksNow
<1> DEFINE intent == Coalesce(NewIntent(RemovalRequest(i).priority, RemovalRequest(i).coverage, 1, FALSE),
                              t, RemovalRequest(i))
<1>4. intent.triggers = {t}
  BY DEF Coalesce, NewIntent
<1>5. triggers' = Put(triggers, t, new) /\ pending' = Put(pending, k, intent) /\ execs' = execs
  BY <1>1, <1>2 DEF Handed, SubmitLocked
<1>6. new.key = k /\ new.durable = TRUE
  BY <1>2 DEF NewTrigger
<1> HIDE DEF intent, new, t, k
<1>7. /\ DOMAIN triggers' = DOMAIN triggers \cup {t} /\ triggers'[t] = new
      /\ \A u \in DOMAIN triggers : triggers'[u] = triggers[u]
      /\ DOMAIN pending' = DOMAIN pending \cup {k} /\ pending'[k] = intent
      /\ \A j \in DOMAIN pending : pending'[j] = pending[j]
  BY <1>1, <1>3, <1>5 DEF Put
<1>8. Single(triggers', pending', execs')
  BY <1>1, <1>3, <1>4, <1>5, <1>6, <1>7 DEF Single
<1>9. QED
  BY <1>5, <1>7, <1>8 DEF k

(* The manager's books of removals. *)
LEMMA SingleKept ==
  ASSUME BooksNow, Follows(triggers, triggers'), Single(triggers, pending, execs),
         Undisturbed \/ (\E k, s : Takes(k, s)) \/ (\E s, verdict : Settles(s, verdict))
  PROVE  Single(triggers', pending', execs')
<1>1. CASE Undisturbed
  <2>1. ASSUME NEW k \in DOMAIN pending', Ours(k)
        PROVE  pending'[k].triggers # {} /\ pending'[k].triggers \subseteq DOMAIN triggers'
    <3>1. /\ k \in DOMAIN pending
          /\ pending'[k].triggers \subseteq pending[k].triggers
          /\ pending'[k].triggers # {} \/ pending'[k].triggers = pending[k].triggers
          /\ pending'[k].triggers \cap DOMAIN triggers \subseteq DOMAIN triggers'
      BY <1>1, <2>1 DEF Undisturbed
    <3>2. pending[k].triggers # {} /\ pending[k].triggers \subseteq DOMAIN triggers
      BY <2>1, <3>1 DEF Single
    <3>3. QED
      BY <3>1, <3>2
  <2>2. ASSUME NEW t \in DOMAIN triggers', Ours(triggers'[t].key)
        PROVE  triggers'[t].durable /\ \A u \in DOMAIN triggers' : triggers'[u].key = triggers'[t].key => u = t
    <3>1. \A u \in DOMAIN triggers' : Ours(triggers'[u].key) =>
            u \in DOMAIN triggers /\ triggers[u].key = triggers'[u].key
            /\ triggers[u].durable = triggers'[u].durable
      BY <1>1 DEF Undisturbed, Follows
    <3>2. QED
      BY <2>2, <3>1 DEF Single
  <2>3. ASSUME NEW s \in DOMAIN execs', Ours(execs'[s].key)
        PROVE  /\ execs'[s].key \notin DOMAIN pending'
               /\ \A u \in DOMAIN execs' : execs'[u].key = execs'[s].key => u = s
    <3>1. \A u \in DOMAIN execs' : Ours(execs'[u].key) => u \in DOMAIN execs /\ execs[u].key = execs'[u].key
      BY <1>1 DEF Undisturbed
    <3>2. \A k \in DOMAIN pending' : Ours(k) => k \in DOMAIN pending
      BY <1>1 DEF Undisturbed
    <3>3. QED
      BY <2>3, <3>1, <3>2 DEF Single
  <2>4. QED
    BY <2>1, <2>2, <2>3 DEF Single
<1>2. ASSUME NEW k, NEW s, Takes(k, s) PROVE Single(triggers', pending', execs')
  BY <1>2 DEF Takes, Single, Follows
<1>3. ASSUME NEW s, NEW verdict, Settles(s, verdict) PROVE Single(triggers', pending', execs')
  <2>1. ASSUME NEW k \in DOMAIN pending', Ours(k)
        PROVE  pending'[k].triggers # {} /\ pending'[k].triggers \subseteq DOMAIN triggers'
    <3>1. pending' = pending /\ pending[k].triggers # {} /\ pending[k].triggers \subseteq DOMAIN triggers
      BY <1>3, <2>1 DEF Settles, Single
    <3>2. ASSUME NEW t \in pending[k].triggers PROVE t \in DOMAIN triggers'
      <4>1. triggers[t].state \in {"pending", "waiting"}
        BY <2>1, <3>1, <3>2 DEF BooksNow, Books, QueuedRight
      <4>2. t \notin execs[s].triggers
        BY <1>3, <3>1, <3>2, <4>1 DEF Settles, Ceases, BooksNow, Books, ServedRight
      <4>3. QED
        BY <1>3, <3>1, <3>2, <4>1, <4>2 DEF Settles, Terminal
    <3>3. QED
      BY <3>1, <3>2
  <2>2. QED
    BY <1>3, <2>1 DEF Settles, Ceases, Single, Follows
<1>4. QED
  BY <1>1, <1>2, <1>3


SingleView ==
  Single(PersistenceView.triggers, PersistenceView.pending, PersistenceView.execs)
LEMMA SavedSingle ==
  BooksNow /\ Single(triggers, pending, execs) => SingleView
<1> SUFFICES ASSUME BooksNow, Single(triggers, pending, execs) PROVE SingleView
  OBVIOUS
<1> DEFINE trg == PersistenceView.triggers
           pend == PersistenceView.pending
<1>1. /\ DOMAIN trg \subseteq DOMAIN triggers /\ \A t \in DOMAIN trg : trg[t] = triggers[t]
      /\ \A t \in DOMAIN triggers : triggers[t].durable => t \in DOMAIN trg
      /\ DOMAIN pend \subseteq DOMAIN pending /\ \A k \in DOMAIN pend : pend[k] = pending[k]
      /\ PersistenceView.execs = execs
  BY DEF PersistenceView, Restrict
<1>2. ASSUME NEW k \in DOMAIN pend, Ours(k)
      PROVE  pend[k].triggers # {} /\ pend[k].triggers \subseteq DOMAIN trg
  <2>1. pending[k].triggers # {} /\ pending[k].triggers \subseteq DOMAIN triggers
    BY <1>1, <1>2 DEF Single
  <2>2. \A t \in pending[k].triggers : triggers[t].key = k
    BY <1>1, <2>1 DEF BooksNow, Books, QueuedRight
  <2>3. \A t \in pending[k].triggers : triggers[t].durable
    BY <1>2, <2>1, <2>2 DEF Single
  <2>4. QED
    BY <1>1, <2>1, <2>3
<1> HIDE DEF trg, pend
<1>3. Single(trg, pend, execs)
  BY <1>1, <1>2 DEF Single
<1>4. QED
  BY <1>1, <1>3 DEF SingleView, trg, pend

LEMMA SavedSingleNext ==
  BooksNow' /\ Single(triggers, pending, execs)' => SingleView'
BY SavedSingle, PTL

LEMMA LedgerStep ==
  ASSUME Core, Ledger, Promised, [RemovalsNext]_system
  PROVE  Ledger'
<1>1. Below' /\ Accounts /\ DiskMoves
  BY BelowStep
<1>2. BooksNow /\ BooksNow' /\ Follows(triggers, triggers')
  BY <1>1 DEF Core, Below, Accounted, Accounts
<1>3. Single(triggers', pending', execs')
  <2>1. CASE Gone /\ Reset
    BY <2>1 DEF Gone, Forget, EmptyMap, Single
  <2>2. CASE Loaded
    BY <2>2 DEF Loaded, Ledger
  <2>3. CASE Undisturbed \/ (\E k, s : Takes(k, s)) \/ (\E s, verdict : Settles(s, verdict))
    BY <1>2, <2>3, SingleKept DEF Ledger
  <2>4. ASSUME NEW i, HandsOver(i) PROVE Single(triggers', pending', execs')
    BY <2>4, HandedOverIsNew, HandedSingle DEF HandsOver, Ledger
  <2>5. (\E c \in Caller : HandOver(c) /\ Handed(caller[c].operation))
          \/ (RecoverEvent /\ RecoverUnscheduled /\ Handed(NextEvent)) => \E i : HandsOver(i)
    BY DEF HandsOver
  <2>6. Happens => \/ Undisturbed \/ (\E k, s : Takes(k, s)) \/ (\E s, verdict : Settles(s, verdict))
                   \/ \E i : HandsOver(i)
    BY <2>5 DEF Happens
  <2>7. QED
    BY <2>1, <2>2, <2>3, <2>4, <2>6, StepEffect
<1>4. Single(disk'.triggers, disk'.pending, disk'.execs)
  <2>1. CASE DiskStays
    BY <2>1 DEF DiskStays, Ledger, Single
  <2>2. CASE disk' = PersistenceView'
    <3>1. SingleView'
      BY <1>2, <1>3, SavedSingleNext
    <3>2. QED
      BY <2>2, <3>1 DEF SingleView
  <2>3. CASE disk' = PersistenceView
    BY <1>2, <2>3, SavedSingle DEF SingleView, Ledger
  <2>4. QED
    BY <1>1, <2>1, <2>2, <2>3 DEF DiskMoves
<1>5. QED
  BY <1>3, <1>4 DEF Ledger

(* An operation that has not been handed over stays so until it is. *)
LEMMA StillHanding ==
  ASSUME Core, [RemovalsNext]_system, NEW c \in Caller, Handing(c)'
  PROVE  \/ /\ Handing(c) /\ caller'[c].operation = caller[c].operation
            /\ ~(HandOver(c) /\ issued' # issued) /\ ~Refuse(c)
         \/ /\ Save(c) /\ UNCHANGED vars /\ Len(journal) < Len(OperationKey)
            /\ caller'[c].operation = Len(journal) + 1
            /\ \E dry \in BOOLEAN :
                 journal' = Append(journal, [status |-> "queued", token |-> caller[c].token, dry |-> dry])
<1>1. \A d \in Caller : caller[d] \in [
           at : {"idle", "lookup", "save", "submit", "refuse", "accepted", "rejected"},
           token : Token \cup {NoToken}, operation : 0 .. Len(journal)]
  BY DEF Core, RemovalsTypeOK
<1>2. /\ HandOver(c) /\ issued' # issued => caller'[c].at = "accepted"
      /\ Refuse(c) => caller'[c].at = "rejected"
  <2>1. DOMAIN caller = Caller
    BY DEF Core, RemovalsTypeOK
  <2>2. HandOver(c) => caller'[c].at = IF issued' # issued THEN "accepted"
                                       ELSE IF c \in Browser THEN "refuse" ELSE "rejected"
    BY <1>1, <2>1 DEF HandOver
  <2>3. Refuse(c) => caller'[c].at = "rejected"
    BY <1>1, <2>1 DEF Refuse
  <2>4. QED
    BY <2>2, <2>3
<1>3. CASE caller'[c] = caller[c]
  BY <1>2, <1>3 DEF Handing
<1>4. CASE Gone /\ Reset
  BY <1>4 DEF Reset, IdleCaller, Handing
<1>5. CASE Turns(c)
  <2>1. CASE HandOver(c) /\ caller'[c] = [caller[c] EXCEPT !.at = IF issued' # issued THEN "accepted"
                                             ELSE IF c \in Browser THEN "refuse" ELSE "rejected"]
    <3>1. caller[c].at = "submit" /\ caller'[c].operation = caller[c].operation /\ ~Refuse(c)
      BY <1>1, <2>1 DEF HandOver, Refuse
    <3>2. QED
      BY <1>2, <3>1 DEF Handing
  <2>2. CASE /\ Save(c) /\ UNCHANGED vars /\ Len(journal) < Len(OperationKey)
             /\ caller'[c] = [caller[c] EXCEPT !.at = "submit", !.operation = Len(journal) + 1]
             /\ \E dry \in BOOLEAN :
                  journal' = Append(journal, [status |-> "queued", token |-> caller[c].token, dry |-> dry])
    <3>1. caller'[c].operation = Len(journal) + 1
      BY <1>1, <2>2
    <3>2. QED
      BY <2>2, <3>1
  <2>3. CASE caller'[c].at \in {"lookup", "save", "accepted", "rejected"}
    BY <2>3 DEF Handing
  <2>4. caller'[c] = [caller[c] EXCEPT !.at = "rejected"] => caller'[c].at = "rejected"
    BY <1>1
  <2>5. QED
    BY <1>5, <2>1, <2>2, <2>3, <2>4 DEF Turns
<1>6. QED
  BY <1>3, <1>4, <1>5, CallerEffect


LEMMA PromisedStep ==
  ASSUME Core, Ledger, Promised, [RemovalsNext]_system
  PROVE  Promised'
<1>1. DOMAIN journal = 1 .. Len(journal) /\ Len(journal) \in Nat /\ DOMAIN journal \subseteq DOMAIN OperationKey
      /\ DOMAIN OperationKey = 1 .. Len(OperationKey) /\ Len(OperationKey) \in Nat
  BY RowsHaveKeys DEF Core
<1>2. \A i, j \in DOMAIN OperationKey : OperationKey[i] = OperationKey[j] => i = j
  BY RemovalsAssumption
<1>3. ASSUME NEW c \in Caller, Handing(c), Handing(c)', caller'[c].operation = caller[c].operation,
             ~(HandOver(c) /\ issued' # issued), ~Refuse(c)
      PROVE  /\ journal'[caller[c].operation].status = "queued"
             /\ OperationKey[caller[c].operation] \notin Everywhere'
  <2> DEFINE i == caller[c].operation
  <2>1. /\ i \in DOMAIN journal /\ journal[i].status = "queued" /\ OperationKey[i] \notin Everywhere
        /\ \A d \in Caller \ {c} : Handing(d) => caller[d].operation # i
    BY <1>3 DEF Promised, Core, Submitting, Handing
  <2>2. server.at = "open"
    BY <1>3 DEF Core, Orderly, Handing
  <2> HIDE DEF i
  <2>3. ASSUME NEW s \in DOMAIN execs, OperationKey[i] = execs[s].key PROVE FALSE
    BY <2>1, <2>3 DEF Everywhere, Keys
  <2>4. ~Closes(i)
    <3>1. ASSUME NEW s \in Slot, i = OperationOf(s), Revalidate(s) \/ Reject(s) \/ Finalize(s) PROVE FALSE
      <4>1. s \in DOMAIN execs /\ Ours(execs[s].key)
        BY <3>1, OperationOfRunner DEF Revalidate, Reject, Finalize, RemovalRuns, Ours
      <4>2. OperationKey[i] = execs[s].key
        BY <3>1, <4>1, OperationOfRun
      <4>3. QED
        BY <2>3, <4>1, <4>2
    <3>2. ASSUME NEW b \in Browser, i = caller[b].operation, Refuse(b) PROVE FALSE
      BY <1>3, <2>1, <3>2 DEF Refuse, Handing, Caller
    <3>3. ~RecoverEvent /\ ~InterruptStarted
      BY <2>2 DEF RecoverEvent, InterruptStarted
    <3>4. QED
      BY <3>1, <3>2, <3>3 DEF Closes
  <2>5. journal'[i] = journal[i]
    <3>1. ASSUME NEW row, journal' = Append(journal, row) PROVE journal'[i] = journal[i]
      BY <1>1, <2>1, <3>1 DEF Core, RemovalsTypeOK
    <3>2. QED
      BY <2>1, <2>4, <3>1, JournalEffect
  <2>6. OperationKey[i] \notin Everywhere'
    <3>1. SUFFICES ASSUME OperationKey[i] \in Everywhere' PROVE FALSE
      OBVIOUS
    <3>2. Ours(OperationKey[i])
      BY <1>1, <2>1, RequestOfRow
    <3>3. PICK j \in DOMAIN journal : HandsOver(j) /\ OperationKey[i] = OperationKey[j]
      BY <2>1, <3>1, <3>2, KnownKeys
    <3>4. j = i
      BY <1>1, <1>2, <2>1, <3>3
    <3>5. PICK d \in Caller : HandOver(d) /\ caller[d].operation = i
      BY <2>2, <3>3, <3>4 DEF HandsOver, RecoverEvent
    <3>6. d = c
      BY <2>1, <3>5 DEF HandOver, Handing
    <3>7. issued' = issued + 1 /\ issued \in Nat
      BY <3>3 DEF HandsOver, Handed, SubmitLocked, Core, Below, TypeOK
    <3>8. QED
      BY <1>3, <3>5, <3>6, <3>7
  <2>7. QED
    BY <2>1, <2>5, <2>6 DEF i
<1>4. ASSUME NEW c \in Caller, UNCHANGED vars, Len(journal) < Len(OperationKey),
             caller'[c].operation = Len(journal) + 1,
             \E dry \in BOOLEAN :
               journal' = Append(journal, [status |-> "queued", token |-> caller[c].token, dry |-> dry])
      PROVE  /\ journal'[caller'[c].operation].status = "queued"
             /\ OperationKey[caller'[c].operation] \notin Everywhere'
  <2>1. journal \in Seq(Row)
    BY DEF Core, RemovalsTypeOK, Row
  <2>2. journal'[Len(journal) + 1].status = "queued"
    BY <1>4, <2>1
  <2>3. Len(journal) + 1 \in DOMAIN OperationKey /\ Len(journal) + 1 \notin DOMAIN journal
    BY <1>1, <1>4
  <2>4. OperationKey[Len(journal) + 1] \notin Everywhere
    <3>1. Ours(OperationKey[Len(journal) + 1])
      BY <2>3, RequestOfRow
    <3>2. \A j \in DOMAIN journal : OperationKey[j] # OperationKey[Len(journal) + 1]
      BY <1>1, <1>2, <2>3
    <3>3. QED
      BY <3>1, <3>2 DEF Core, Journaled
  <2>5. Everywhere' = Everywhere
    BY <1>4 DEF vars, manager, Everywhere
  <2>6. QED
    BY <1>4, <2>2, <2>4, <2>5
<1>5. ASSUME NEW c \in Caller, Handing(c)'
      PROVE  /\ journal'[caller'[c].operation].status = "queued"
             /\ OperationKey[caller'[c].operation] \notin Everywhere'
  <2>1. CASE /\ Handing(c) /\ caller'[c].operation = caller[c].operation
             /\ ~(HandOver(c) /\ issued' # issued) /\ ~Refuse(c)
    BY <1>3, <1>5, <2>1
  <2>2. QED
    BY <1>4, <1>5, <2>1, StillHanding
<1>6. ASSUME NEW c \in Caller, Handing(c)', NEW d \in Caller \ {c}, Handing(d)'
      PROVE  caller'[d].operation # caller'[c].operation
  <2>1. \A e \in Caller : Handing(e) => caller[e].operation \in 1 .. Len(journal)
    BY <1>1 DEF Core, Submitting, Handing
  <2>2. ASSUME NEW e \in Caller, Handing(e)'
        PROVE  \/ Handing(e) /\ caller'[e].operation = caller[e].operation
               \/ Save(e) /\ caller'[e].operation = Len(journal) + 1
    BY <2>2, StillHanding
  <2>3. ~(Save(c) /\ Save(d) /\ ~Handing(c) /\ ~Handing(d)) \/ ~Handing(c)' \/ ~Handing(d)'
    <3>1. SUFFICES ASSUME Save(c), ~Handing(c), ~Handing(d), Handing(d)' PROVE FALSE
      BY <1>6
    <3>2. caller'[d] = caller[d]
      <4>1. DOMAIN caller = Caller /\ d # c
        BY <1>6 DEF Core, RemovalsTypeOK
      <4>2. \/ caller' = [caller EXCEPT ![c].at = "submit", ![c].operation = Len(journal) + 1]
            \/ caller' = [caller EXCEPT ![c].at = "rejected"]
        BY <3>1 DEF Save
      <4>3. QED
        BY <4>1, <4>2
    <3>3. QED
      BY <3>1, <3>2 DEF Handing
  <2>4. \A e \in Caller : Save(e) => ~Handing(e)
    BY DEF Save, Handing
  <2>5. QED
    BY <1>1, <1>6, <2>1, <2>2, <2>3, <2>4 DEF Promised
<1>7. QED
  BY <1>5, <1>6 DEF Promised, Handing


(* The tokens of the rows stay, until a row is added. *)
TokensStay ==
  DOMAIN journal' = DOMAIN journal /\ \A i \in DOMAIN journal : journal'[i].token = journal[i].token

LEMMA TurnsTokens ==
  ASSUME Core, Tokens, [RemovalsNext]_system, NEW c \in Caller, Turns(c)
  PROVE  /\ c \in Planner => caller'[c].token = NoToken
         /\ c \in Browser =>
              /\ caller'[c].at \in {"save", "submit", "refuse"} => c \in Admitting \/ Admitting = {}
              /\ caller'[c].at = "save" => caller'[c].token = caller[c].token
              /\ count'.faults = 0 /\ caller'[c].at = "save" => SameToken(c) = {}
              /\ caller'[c].at \in {"lookup", "save"} => caller'[c].token \in Token
<1>1. caller[c] \in [
           at : {"idle", "lookup", "save", "submit", "refuse", "accepted", "rejected"},
           token : Token \cup {NoToken}, operation : 0 .. Len(journal)]
  BY DEF Core, RemovalsTypeOK
<1>2. c \in Planner => c \notin Browser /\ caller[c].token = NoToken
  BY RemovalsAssumption DEF Tokens
<1>3. CASE Arrive(c) /\ caller'[c].at = (IF c \in Browser THEN "lookup" ELSE "save")
             /\ caller'[c].token \in IF c \in Browser THEN Token ELSE {NoToken}
  BY <1>2, <1>3
<1>4. CASE caller'[c] = [caller[c] EXCEPT !.at = "rejected"]
  BY <1>1, <1>2, <1>4
<1>5. CASE Save(c) /\ caller'[c] = [caller[c] EXCEPT !.at = "submit", !.operation = Len(journal) + 1]
  <2>1. caller[c].at = "save" /\ caller'[c].at = "submit" /\ caller'[c].token = caller[c].token
    BY <1>1, <1>5 DEF Save
  <2>2. QED
    BY <1>2, <2>1 DEF Admitting
<1>6. CASE HandOver(c) /\ caller'[c] = [caller[c] EXCEPT !.at = IF issued' # issued THEN "accepted"
                                             ELSE IF c \in Browser THEN "refuse" ELSE "rejected"]
  <2>1. /\ caller[c].at = "submit" /\ caller'[c].at \in {"accepted", "refuse", "rejected"}
        /\ caller'[c].token = caller[c].token
    BY <1>1, <1>6 DEF HandOver
  <2>2. QED
    BY <1>2, <2>1 DEF Admitting
<1>7. CASE /\ c \in Browser /\ Lookup(c)
           /\ caller'[c].token = caller[c].token
           /\ caller'[c].at \in {"save", "accepted"}
           /\ caller'[c].at = "save" => NotWritten \/ SameToken(c) = {}
  <2>1. caller[c].at = "lookup" /\ Admitting = {}
    BY <1>7 DEF Lookup, AdmissionFree
  <2>2. caller[c].token \in Token
    BY <1>7, <2>1 DEF Tokens
  <2>3. NotWritten => count'.faults # 0
    BY NoFaultStep DEF NotWritten
  <2>4. QED
    BY <1>2, <1>7, <2>1, <2>2, <2>3
<1>8. QED
  BY <1>3, <1>4, <1>5, <1>6, <1>7 DEF Turns

LEMMA TokensStep ==
  ASSUME Core, Tokens, [RemovalsNext]_system
  PROVE  Tokens'
<1>0. /\ count'.faults = 0 => count.faults = 0
      /\ Len(journal) \in Nat /\ DOMAIN journal = 1 .. Len(journal)
      /\ Len(journal') \in Nat /\ DOMAIN journal' = 1 .. Len(journal')
      /\ Window \in Nat \ {0}
  <2>1. count'.faults = 0 => count.faults = 0
    BY NoFaultStep
  <2>2. Len(journal) \in Nat /\ DOMAIN journal = 1 .. Len(journal)
    BY RowsHaveKeys DEF Core
  <2>3. Len(journal') \in Nat /\ DOMAIN journal' = 1 .. Len(journal')
    BY RowsGrow DEF Core
  <2>4. QED
    BY <2>1, <2>2, <2>3, RemovalsAssumption
<1>1. Browser \subseteq Caller /\ Planner \subseteq Caller /\ Browser \cap Planner = {} /\ NoToken \notin Token
      /\ Caller \subseteq Browser \cup Planner
  BY RemovalsAssumption DEF Caller
<1>2. ASSUME TokensStay
      PROVE  OneOperationPerToken' /\ \A b \in Browser : caller'[b].token = caller[b].token =>
               SameToken(b)' = SameToken(b)
  <2>1. DOMAIN journal' = DOMAIN journal /\ \A i \in DOMAIN journal : journal'[i].token = journal[i].token
    BY <1>2 DEF TokensStay
  <2>2. Len(journal') = Len(journal)
    <3> DEFINE l == Len(journal)
               m == Len(journal')
    <3>1. l \in Nat /\ m \in Nat /\ 1 .. l = 1 .. m
      BY <1>0, <2>1
    <3> HIDE DEF l, m
    <3>2. l = m
      <4>1. (l \in 1 .. l \/ l = 0) /\ (m \in 1 .. m \/ m = 0)
        BY <3>1
      <4>2. l <= m /\ m <= l
        BY <3>1, <4>1
      <4>3. QED
        BY <3>1, <4>2
    <3>3. QED
      BY <3>2 DEF l, m
  <2>3. Recent' = Recent
    BY <2>1, <2>2 DEF Recent
  <2>4. OneOperationPerToken'
    BY <1>0, <2>1 DEF OneOperationPerToken, Tokens
  <2>5. QED
    BY <2>1, <2>3, <2>4 DEF SameToken, Recent
<1>3. ASSUME TokensStay, caller' = caller PROVE Tokens'
  <2>1. Admitting' = Admitting
    BY <1>3 DEF Admitting
  <2>2. \A b \in Browser : SameToken(b)' = SameToken(b)
    BY <1>2, <1>3
  <2>3. QED
    BY <1>0, <1>2, <1>3, <2>1, <2>2 DEF Tokens
<1>4. ASSUME TokensStay, Reset PROVE Tokens'
  <2>1. \A c \in Caller : caller'[c] = IdleCaller
    BY <1>4 DEF Reset
  <2>2. Admitting' = {}
    BY <1>1, <2>1 DEF Admitting, IdleCaller
  <2>3. QED
    BY <1>1, <1>2, <1>4, <2>1, <2>2 DEF Tokens, IdleCaller
<1>5. ASSUME TokensStay, NEW c \in Caller, Turns(c), \A d \in Caller \ {c} : caller'[d] = caller[d]
      PROVE  Tokens'
  <2>1. /\ c \in Planner => caller'[c].token = NoToken
        /\ c \in Browser =>
             /\ caller'[c].at \in {"save", "submit", "refuse"} => c \in Admitting \/ Admitting = {}
             /\ caller'[c].at = "save" => caller'[c].token = caller[c].token
             /\ count'.faults = 0 /\ caller'[c].at = "save" => SameToken(c) = {}
             /\ caller'[c].at \in {"lookup", "save"} => caller'[c].token \in Token
    BY <1>5, TurnsTokens
  <2>2. \A b, d \in Admitting' : b = d
    <3>1. \A b \in Admitting' : b = c \/ b \in Admitting
      BY <1>1, <1>5 DEF Admitting
    <3>2. c \in Admitting' => c \in Admitting \/ Admitting = {}
      BY <2>1 DEF Admitting
    <3>3. QED
      BY <3>1, <3>2 DEF Tokens
  <2>3. ASSUME NEW b \in Browser
        PROVE  /\ count'.faults = 0 /\ caller'[b].at = "save" => SameToken(b)' = {}
               /\ caller'[b].at \in {"lookup", "save"} => caller'[b].token \in Token
    BY <1>0, <1>1, <1>2, <1>5, <2>1 DEF Tokens
  <2>4. \A d \in Planner : caller'[d].token = NoToken
    BY <1>1, <1>5, <2>1 DEF Tokens
  <2>5. QED
    BY <1>2, <1>5, <2>2, <2>3, <2>4 DEF Tokens
<1>6. ASSUME NEW c \in Caller, Save(c), NEW dry \in BOOLEAN,
             journal' = Append(journal, [status |-> "queued", token |-> caller[c].token, dry |-> dry]),
             caller' = [caller EXCEPT ![c].at = "submit", ![c].operation = Len(journal) + 1]
      PROVE  Tokens'
  <2>1. /\ caller[c].at = "save" /\ DOMAIN caller = Caller
        /\ caller[c] \in [at : {"idle", "lookup", "save", "submit", "refuse", "accepted", "rejected"},
                          token : Token \cup {NoToken}, operation : 0 .. Len(journal)]
    BY <1>6 DEF Save, Core, RemovalsTypeOK
  <2>2. /\ \A d \in Caller \ {c} : caller'[d] = caller[d]
        /\ caller'[c].at = "submit" /\ caller'[c].token = caller[c].token
    BY <1>6, <2>1
  <2> DEFINE n == Len(journal) + 1
  <2>3. /\ DOMAIN journal' = DOMAIN journal \cup {n} /\ n \notin DOMAIN journal
        /\ journal'[n].token = caller[c].token
        /\ \A i \in DOMAIN journal : journal'[i] = journal[i]
    <3>1. journal \in Seq(Row)
      BY DEF Core, RemovalsTypeOK, Row
    <3>2. DOMAIN journal = 1 .. Len(journal) /\ Len(journal) \in Nat
      BY RowsHaveKeys DEF Core
    <3>3. QED
      BY <1>6, <3>1, <3>2
  <2> HIDE DEF n
  <2>4. c \in Browser => (count.faults = 0 => SameToken(c) = {}) /\ Admitting = {c}
    BY <2>1 DEF Tokens, Admitting
  <2>5. c \in Planner => caller[c].token = NoToken
    BY DEF Tokens
  <2>6. Admitting' = Admitting
    BY <1>1, <2>1, <2>2 DEF Admitting
  <2>7. OneOperationPerToken'
    <3>1. SUFFICES ASSUME count'.faults = 0, NEW i \in DOMAIN journal', NEW j \in DOMAIN journal', i < j,
                          journal'[i].token = journal'[j].token, journal'[i].token # NoToken
                   PROVE  j - i > Window
      BY DEF OneOperationPerToken
    <3>2. count.faults = 0 /\ i \in DOMAIN journal
      BY <1>0, <2>3, <3>1 DEF n
    <3>3. CASE j \in DOMAIN journal
      BY <2>3, <3>1, <3>2, <3>3 DEF Tokens, OneOperationPerToken
    <3>4. CASE j = n
      <4>1. journal[i].token = caller[c].token /\ c \in Browser
        BY <1>1, <2>3, <2>5, <3>1, <3>2, <3>4
      <4>2. i \notin Recent
        BY <2>4, <3>2, <4>1 DEF SameToken
      <4>3. QED
        BY <1>0, <3>2, <3>4, <4>2 DEF Recent, n
    <3>5. QED
      BY <2>3, <3>3, <3>4
  <2>8. ASSUME NEW b \in Browser
        PROVE  /\ count'.faults = 0 /\ caller'[b].at = "save" => SameToken(b)' = {}
               /\ caller'[b].at \in {"lookup", "save"} => caller'[b].token \in Token
    <3>1. CASE b = c
      BY <2>2, <3>1
    <3>2. CASE b # c
      <4>1. caller'[b] = caller[b]
        BY <1>1, <2>2, <3>2
      <4>2. ASSUME count'.faults = 0, caller[b].at = "save" PROVE SameToken(b)' = {}
        <5>1. b \in Admitting
          BY <4>2 DEF Admitting
        <5>2. c \in Planner
          BY <1>1, <2>4, <3>2, <5>1
        <5>3. caller[b].token \in Token /\ SameToken(b) = {} /\ caller[c].token = NoToken
          BY <1>0, <2>5, <4>2, <5>2 DEF Tokens
        <5>4. Recent' \subseteq Recent \cup {n}
          <6>1. n = Len(journal) + 1 /\ n \in DOMAIN journal'
            BY <2>3 DEF n
          <6>2. Len(journal) <= Len(journal')
            BY <1>0, <6>1
          <6>3. \A i \in DOMAIN journal : i > Len(journal') - Window => i > Len(journal) - Window
            BY <1>0, <6>2
          <6>4. QED
            BY <2>3, <6>3 DEF Recent
        <5>5. SUFFICES ASSUME NEW i \in Recent', journal'[i].token = caller'[b].token PROVE FALSE
          BY DEF SameToken
        <5>6. i \in Recent
          BY <1>1, <2>3, <4>1, <5>3, <5>4, <5>5
        <5>7. journal'[i].token = journal[i].token
          BY <2>3, <5>6 DEF Recent
        <5>8. QED
          BY <4>1, <5>3, <5>5, <5>6, <5>7 DEF SameToken
      <4>3. QED
        BY <4>1, <4>2 DEF Tokens
    <3>3. QED
      BY <3>1, <3>2
  <2>9. \A d \in Planner : caller'[d].token = NoToken
    BY <1>1, <2>2 DEF Tokens
  <2>10. QED
    BY <2>6, <2>7, <2>8, <2>9 DEF Tokens
<1>7. TokensStay \/ \E c \in Caller, dry \in BOOLEAN :
        /\ Save(c)
        /\ journal' = Append(journal, [status |-> "queued", token |-> caller[c].token, dry |-> dry])
        /\ caller' = [caller EXCEPT ![c].at = "submit", ![c].operation = Len(journal) + 1]
  BY JournalEffect DEF TokensStay
<1>8. QED
  BY <1>3, <1>4, <1>5, <1>6, <1>7, CallerEffect

LEMMA BookedInit == RemovalsInit => Booked
<1> SUFFICES ASSUME RemovalsInit PROVE Booked
  OBVIOUS
<1>1. Ledger
  BY DEF RemovalsInit, Init, Ledger, Single, EmptyMap, EmptyDisk
<1>2. \A c \in Caller : caller[c] = IdleCaller
  BY DEF RemovalsInit
<1>3. Promised
  BY <1>2 DEF Promised, Handing, IdleCaller
<1>4. Tokens
  <2>1. Browser \subseteq Caller /\ Planner \subseteq Caller
    BY DEF Caller
  <2>2. DOMAIN journal = {}
    BY DEF RemovalsInit
  <2>3. Admitting = {}
    BY <1>2, <2>1 DEF Admitting, IdleCaller
  <2>4. QED
    BY <1>2, <2>1, <2>2, <2>3 DEF Tokens, OneOperationPerToken, IdleCaller
<1>5. QED
  BY <1>1, <1>3, <1>4, CoreInit DEF Booked

LEMMA BookedStep ==
  ASSUME Booked, [RemovalsNext]_system
  PROVE  Booked'
BY CoreStep, LedgerStep, PromisedStep, TokensStep DEF Booked

LEMMA AlwaysBooked == RemovalsSpec => []Booked
BY BookedInit, BookedStep, PTL DEF RemovalsSpec
-----------------------------------------------------------------------------
(* 5. The journal runs ahead of the scheduler as long as SQLite can be      *)
(* written.                                                                 *)

(* The row of an operation that is admitted is its runner's. *)
LEMMA RowOfRun ==
  ASSUME Booked, [RemovalsNext]_system, NEW s \in DOMAIN execs, Ours(execs[s].key)
  PROVE  /\ OperationOf(s) \in DOMAIN journal /\ OperationOf(s) \in DOMAIN journal'
         /\ \/ journal'[OperationOf(s)] = journal[OperationOf(s)]
            \/ Revalidate(s) /\ journal'[OperationOf(s)].status = "started"
            \/ /\ journal'[OperationOf(s)].dry = journal[OperationOf(s)].dry
               /\ \/ Reject(s) /\ journal'[OperationOf(s)].status = "failed"
                  \/ Finalize(s) /\ journal'[OperationOf(s)].status = Outcome(runner[s])
<1> DEFINE i == OperationOf(s)
<1>1. /\ i \in DOMAIN journal /\ OperationKey[i] = execs[s].key /\ OperationKey[i] \in Everywhere
      /\ i \in DOMAIN journal'
  BY OperationOfRun, RowsGrow DEF Booked, Everywhere, Keys
<1>2. ASSUME NEW u \in Slot, i = OperationOf(u), Revalidate(u) \/ Reject(u) \/ Finalize(u) PROVE u = s
  <2>1. u \in DOMAIN execs /\ Ours(execs[u].key)
    BY <1>2, OperationOfRunner DEF Booked, Revalidate, Reject, Finalize, RemovalRuns, Ours
  <2>2. OperationKey[i] = execs[u].key
    BY <1>2, <2>1, OperationOfRun DEF Booked
  <2>3. QED
    BY <1>1, <2>1, <2>2 DEF Booked, Ledger, Single
<1>3. ASSUME NEW b \in Browser, i = caller[b].operation, Refuse(b) PROVE FALSE
  <2>1. b \in Caller /\ Handing(b)
    BY <1>3 DEF Refuse, Caller, Handing
  <2>2. QED
    BY <1>1, <1>3, <2>1 DEF Booked, Promised
<1>4. ~RecoverEvent /\ ~InterruptStarted
  BY <1>1 DEF Booked, Core, Orderly, RecoverEvent, InterruptStarted, Unlocked
<1> HIDE DEF i
<1>5. journal'[i] = journal[i] \/ Closes(i)
  <2>1. ASSUME NEW row, journal' = Append(journal, row) PROVE journal'[i] = journal[i]
    <3>1. journal \in Seq(Row)
      BY DEF Booked, Core, RemovalsTypeOK, Row
    <3>2. QED
      BY <1>1, <2>1, <3>1
  <2>2. QED
    BY <1>1, <2>1, JournalEffect DEF Booked
<1>6. CASE Closes(i)
  <2>1. CASE \E u \in Slot : i = OperationOf(u) /\ Revalidate(u) /\ journal'[i].status = "started"
    BY <1>1, <1>2, <2>1 DEF i
  <2>2. CASE /\ journal'[i].dry = journal[i].dry
             /\ \/ \E u \in Slot : i = OperationOf(u) /\ Reject(u) /\ journal'[i].status = "failed"
                \/ \E u \in Slot : i = OperationOf(u) /\ Finalize(u) /\ journal'[i].status = Outcome(runner[u])
    BY <1>1, <1>2, <2>2 DEF i
  <2>3. QED
    BY <1>3, <1>4, <1>6, <2>1, <2>2 DEF Closes
<1>7. QED
  BY <1>1, <1>5, <1>6 DEF i

(* An execution goes on for the same operation. *)
LEMMA SameOperation ==
  ASSUME NEW s, execs'[s].key = execs[s].key
  PROVE  OperationOf(s)' = OperationOf(s)
BY DEF OperationOf

(* Who queues a removal. *)
LEMMA QueuedKeys ==
  ASSUME Core, [RemovalsNext]_system, NEW k \in DOMAIN pending' \cup DOMAIN disk'.pending, Ours(k)
  PROVE  \/ k \in DOMAIN pending \cup DOMAIN disk.pending
         \/ \E i \in DOMAIN journal : HandsOver(i) /\ k = OperationKey[i]
<1>1. DiskMoves
  BY BelowStep
<1>2. k \in DOMAIN pending' \/ k \in DOMAIN disk.pending \/ k \in DOMAIN pending
  BY <1>1 DEF DiskMoves, DiskStays, PersistenceView, Restrict
<1>3. ASSUME k \in DOMAIN pending'
      PROVE  \/ k \in DOMAIN pending \cup DOMAIN disk.pending
             \/ \E i \in DOMAIN journal : HandsOver(i) /\ k = OperationKey[i]
  <2>1. CASE Gone
    BY <1>3, <2>1 DEF Gone, Forget, EmptyMap
  <2>2. CASE Loaded
    BY <1>3, <2>2 DEF Loaded
  <2>3. CASE Undisturbed \/ (\E j, s : Takes(j, s)) \/ (\E s, verdict : Settles(s, verdict))
    BY <1>3, <2>3 DEF Undisturbed, Takes, Settles
  <2>4. ASSUME NEW i, HandsOver(i)
        PROVE  \/ k \in DOMAIN pending
               \/ i \in DOMAIN journal /\ k = OperationKey[i]
    <3>1. i \in DOMAIN journal /\ SubmitLocked(RemovalRequest(i)) /\ RemovalRequest(i).key = OperationKey[i]
      BY <2>4 DEF HandsOver, Handed, RemovalRequest
    <3>2. pending' = pending \/ \E v : pending' = Put(pending, OperationKey[i], v)
      BY <3>1 DEF SubmitLocked
    <3>3. DOMAIN pending' \subseteq DOMAIN pending \cup {OperationKey[i]}
      BY <3>2 DEF Put
    <3>4. QED
      BY <1>3, <3>1, <3>3
  <2>5. (\E c \in Caller : HandOver(c) /\ Handed(caller[c].operation))
          \/ (RecoverEvent /\ RecoverUnscheduled /\ Handed(NextEvent)) => \E i : HandsOver(i)
    BY DEF HandsOver
  <2>6. Happens => \/ Undisturbed \/ (\E j, s : Takes(j, s)) \/ (\E s, verdict : Settles(s, verdict))
                   \/ \E i : HandsOver(i)
    BY <2>5 DEF Happens
  <2>7. QED
    BY <2>1, <2>2, <2>3, <2>4, <2>6, StepEffect
<1>4. QED
  BY <1>2, <1>3

(* Who is admitted. *)
LEMMA AdmittedKeys ==
  ASSUME Core, Ledger, Promised, [RemovalsNext]_system, Alive',
         NEW s \in DOMAIN execs', Ours(execs'[s].key)
  PROVE  \/ Alive /\ s \in DOMAIN execs /\ execs[s].key = execs'[s].key
         \/ UNCHANGED domain /\ execs'[s].key \in DOMAIN pending
<1>1. CASE Gone
  BY <1>1 DEF Gone, Alive
<1>2. CASE Loaded
  BY <1>2 DEF Loaded, Alive
<1>3. CASE GoesOn /\ Happens
  <2>1. Alive
    BY <1>3 DEF GoesOn, Alive
  <2>2. CASE Undisturbed
    BY <2>1, <2>2 DEF Undisturbed
  <2>3. ASSUME NEW k, NEW u, Takes(k, u), UNCHANGED domain
        PROVE  \/ Alive /\ s \in DOMAIN execs /\ execs[s].key = execs'[s].key
               \/ UNCHANGED domain /\ execs'[s].key \in DOMAIN pending
    BY <2>1, <2>3 DEF Takes
  <2>4. ASSUME NEW u, NEW verdict, Settles(u, verdict) PROVE s \in DOMAIN execs /\ execs[s].key = execs'[s].key
    BY <2>4 DEF Settles, Ceases
  <2>5. ASSUME NEW i, HandsOver(i) PROVE s \in DOMAIN execs /\ execs[s].key = execs'[s].key
    BY <2>5, HandedOverIsNew, HandedSingle DEF HandsOver, Ledger
  <2>6. (\E c \in Caller : HandOver(c) /\ Handed(caller[c].operation))
          \/ (RecoverEvent /\ RecoverUnscheduled /\ Handed(NextEvent)) => \E i : HandsOver(i)
    BY DEF HandsOver
  <2>7. QED
    BY <1>3, <2>1, <2>2, <2>3, <2>4, <2>5, <2>6 DEF Happens
<1>4. QED
  BY <1>1, <1>2, <1>3, StepEffect


(* What is at work was announced; what was not announced was not touched. *)
Announced ==
  \A s \in DOMAIN runner : runner[s].at \in {"act", "scope", "advance", "finalize"} =>
    journal[OperationOf(s)].status = "started"
Untouched ==
  \A i \in DOMAIN acted : i \notin DOMAIN journal \/ journal[i].status = "queued" => acted[i] = 0

(* While no write has failed: what waits has a row that waits, on disk too; *)
(* what was admitted has it until its runner says so; every runner is where *)
(* its row says it is.                                                      *)
Done == {"success", "partial", "dry_run"}
QueuedRows ==
  \A i \in DOMAIN journal : OperationKey[i] \in DOMAIN pending \cup DOMAIN disk.pending =>
    journal[i].status = "queued"
DiskLags ==
  /\ Unlocked => \A k \in DOMAIN disk.pending : Ours(k) => k \in DOMAIN pending
  /\ \A s \in DOMAIN runner : execs[s].key \notin DOMAIN disk.pending
AdmittedRows ==
  Alive => \A s \in DOMAIN execs \ DOMAIN runner : Ours(execs[s].key) =>
    journal[OperationOf(s)].status = "queued"
RunnersRight ==
  \A s \in DOMAIN runner :
    /\ runner[s].at = "reject" => journal[OperationOf(s)].status = "queued"
    /\ runner[s].at = "act" => acted[OperationOf(s)] = 0
    /\ runner[s].at = "return" =>
         IF runner[s].failed THEN journal[OperationOf(s)].status = "failed"
         ELSE journal[OperationOf(s)].status \in Done
Ahead == QueuedRows /\ DiskLags /\ AdmittedRows /\ RunnersRight /\ NeverReplayed
Carried == Booked /\ Announced /\ Untouched /\ (count.faults = 0 => Ahead)

LEMMA RunnerOperation ==
  ASSUME Core, [RemovalsNext]_system, NEW s \in DOMAIN runner'
  PROVE  /\ s \in DOMAIN execs /\ s \in DOMAIN execs' /\ execs'[s].key = execs[s].key
         /\ Ours(execs[s].key) /\ OperationOf(s)' = OperationOf(s) /\ Alive /\ Attended /\ GoesOn
<1>1. CASE Gone /\ Reset
  BY <1>1 DEF Reset, EmptyMap
<1>2. CASE Loaded /\ UNCHANGED domain
  BY <1>2 DEF Loaded, domain, Core, Orderly, Starting, Alive
<1>3. CASE Attended /\ GoesOn /\ (Alive \/ UNCHANGED domain)
  <2>1. s \in DOMAIN execs /\ s \in DOMAIN execs' /\ execs'[s].key = execs[s].key
    BY <1>3 DEF Attended
  <2>2. Alive
    BY <1>3 DEF domain, Core, Orderly, Starting
  <2>3. RemovalRuns(s)
    BY <1>3, RunnerEffect DEF Starts, Proceeds, Revalidate, Core, RemovalsTypeOK
  <2>4. QED
    BY <1>3, <2>1, <2>2, <2>3, SameOperation DEF RemovalRuns, Ours
<1>4. QED
  BY <1>1, <1>2, <1>3, StepEffect

LEMMA AnnouncedStep ==
  ASSUME Booked, Announced, [RemovalsNext]_system
  PROVE  Announced'
<1>1. SUFFICES ASSUME NEW s \in DOMAIN runner', runner'[s].at \in {"act", "scope", "advance", "finalize"}
               PROVE  journal'[OperationOf(s)].status = "started"
  <2>1. \A s \in DOMAIN runner' : OperationOf(s)' = OperationOf(s)
    BY RunnerOperation DEF Booked
  <2>2. QED
    BY <1>1, <2>1 DEF Announced
<1>2. /\ s \in DOMAIN execs /\ Ours(execs[s].key)
      /\ \A u \in DOMAIN runner : runner[u] \in Run
  BY RunnerOperation DEF Booked, Core, RemovalsTypeOK, Run
<1>3. \/ journal'[OperationOf(s)] = journal[OperationOf(s)]
      \/ journal'[OperationOf(s)].status = "started"
      \/ Reject(s) \/ Finalize(s)
  BY <1>2, RowOfRun
<1>4. Reject(s) \/ Finalize(s) => runner'[s].at = "return"
  <2>1. ASSUME Reject(s) PROVE runner'[s].at = "return"
    <3>1. s \in DOMAIN runner /\ runner' = [runner EXCEPT ![s].at = "return", ![s].failed = TRUE]
      BY <2>1 DEF Reject
    <3>2. QED
      BY <1>2, <3>1 DEF Run
  <2>2. ASSUME Finalize(s) PROVE runner'[s].at = "return"
    <3>1. s \in DOMAIN runner /\ runner' = [runner EXCEPT ![s].at = "return",
                              ![s].failed = journal'[OperationOf(s)].status = "failed"]
      BY <2>2 DEF Finalize
    <3>2. QED
      BY <1>2, <3>1 DEF Run
  <2>3. QED
    BY <2>1, <2>2
<1>5. CASE s \in DOMAIN runner /\ runner'[s] = runner[s]
  BY <1>1, <1>3, <1>4, <1>5 DEF Announced
<1>6. CASE Starts(s)
  <2>1. CASE runner'[s].at = "act"
    <3>1. Revalidate(s) /\ s \notin DOMAIN runner
      BY <1>6 DEF Starts
    <3>2. PICK dry \in DryRunModes, at \in {"act", "reject"} :
            /\ runner' = Put(runner, s, [at |-> at, dry |-> dry, mutated |-> FALSE, uncertain |-> FALSE,
                                         errors |-> FALSE, failed |-> FALSE])
            /\ \/ /\ at = "act" /\ Written
                  /\ journal' = [journal EXCEPT ![OperationOf(s)].status = "started",
                                                ![OperationOf(s)].dry = dry]
               \/ /\ at = "reject" /\ (Written \/ NotWritten)
                  /\ UNCHANGED journal
      BY <3>1 DEF Revalidate
    <3>3. at = "act"
      BY <2>1, <3>2 DEF Put
    <3>4. journal' = [journal EXCEPT ![OperationOf(s)].status = "started", ![OperationOf(s)].dry = dry]
      BY <3>2, <3>3
    <3>5. OperationOf(s) \in DOMAIN journal /\ journal \in Seq(Row)
      BY <1>2, RowOfRun DEF Booked, Core, RemovalsTypeOK, Row
    <3>6. journal[OperationOf(s)] \in Row
      BY <3>5
    <3>7. QED
      BY <3>4, <3>5, <3>6 DEF Row
  <2>2. runner'[s].at \in {"act", "reject"}
    BY <1>6 DEF Starts
  <2>3. QED
    BY <1>1, <2>1, <2>2
<1>7. CASE Proceeds(s)
  <2>1. runner[s] \in Run /\ s \in DOMAIN runner
    BY <1>2, <1>7 DEF Proceeds
  <2>2. Act(s) \/ QueueScope(s) \/ AdvanceAfter(s)
    BY <1>1, <1>4, <1>7 DEF Proceeds
  <2>3. journal' = journal /\ runner[s].at \in {"act", "scope", "advance"}
    BY <2>2 DEF Act, QueueScope, AdvanceAfter
  <2>4. QED
    BY <2>1, <2>3 DEF Announced
<1>8. QED
  BY <1>5, <1>6, <1>7, RunnerEffect DEF Booked

LEMMA QueuedBefore ==
  ASSUME Core, [RemovalsNext]_system, NEW i, i \notin DOMAIN journal' \/ journal'[i].status = "queued"
  PROVE  i \notin DOMAIN journal \/ journal[i].status = "queued"
<1>1. SUFFICES ASSUME i \in DOMAIN journal, i \in DOMAIN journal', journal'[i].status = "queued"
               PROVE  journal[i].status = "queued"
  BY RowsGrow
<1>2. ASSUME NEW row, journal' = Append(journal, row) PROVE journal'[i] = journal[i]
  <2>1. journal \in Seq(Row)
    BY DEF Core, RemovalsTypeOK, Row
  <2>2. QED
    BY <1>1, <1>2, <2>1
<1>3. ~Closes(i)
  BY <1>1 DEF Closes, Outcome
<1>4. QED
  BY <1>1, <1>2, <1>3, JournalEffect

LEMMA UntouchedStep ==
  ASSUME Booked, Announced, Untouched, [RemovalsNext]_system
  PROVE  Untouched'
<1>1. \A i : i \notin DOMAIN journal' \/ journal'[i].status = "queued" =>
             i \notin DOMAIN journal \/ journal[i].status = "queued"
  BY QueuedBefore DEF Booked
<1>2. CASE acted' = acted
  BY <1>1, <1>2 DEF Untouched
<1>3. ASSUME NEW s \in Slot, Act(s) PROVE Untouched'
  <2>1. s \in DOMAIN runner /\ runner[s].at = "act"
    BY <1>3 DEF Act
  <2>2. OperationOf(s) \in DOMAIN journal /\ journal[OperationOf(s)].status = "started"
    BY <2>1, OperationOfRunner DEF Booked, Announced
  <2>3. acted' = acted \/ acted' = [acted EXCEPT ![OperationOf(s)] = IF @ < 2 THEN @ + 1 ELSE @]
    BY <1>3 DEF Act
  <2>4. journal' = journal
    BY <1>3 DEF Act
  <2>5. QED
    BY <2>2, <2>3, <2>4 DEF Untouched
<1>4. QED
  BY <1>2, <1>3, WhoChanges DEF Booked


LEMMA DiskLagsStep ==
  ASSUME Booked, Booked', DiskLags, [RemovalsNext]_system, count'.faults = 0
  PROVE  DiskLags'
<1>1. Core /\ DiskMoves /\ Synced
  BY BelowStep, NoFaultStep DEF Booked
<1>2. ASSUME Unlocked', NEW k \in DOMAIN disk'.pending, Ours(k) PROVE k \in DOMAIN pending'
  BY <1>1, <1>2 DEF Synced, DiskLags, DiskStays, PersistenceView, Restrict
<1>3. ASSUME NEW s \in DOMAIN runner' PROVE execs'[s].key \notin DOMAIN disk'.pending
  <2>1. /\ s \in DOMAIN execs /\ s \in DOMAIN execs' /\ execs'[s].key = execs[s].key
        /\ Ours(execs[s].key)
    BY <1>1, <1>3, RunnerOperation
  <2>2. CASE DiskStays
    <3>1. CASE s \in DOMAIN runner
      BY <2>1, <2>2, <3>1 DEF DiskStays, DiskLags
    <3>2. CASE s \notin DOMAIN runner
      <4>1. Unlocked
        BY <1>1, <1>3, <3>2, RunnerEffect DEF Starts, Proceeds, Revalidate
      <4>2. execs[s].key \notin DOMAIN pending
        BY <2>1 DEF Booked, Ledger, Single
      <4>3. QED
        BY <2>1, <2>2, <4>1, <4>2 DEF DiskStays, DiskLags
    <3>3. QED
      BY <3>1, <3>2
  <2>3. CASE disk' = PersistenceView'
    <3>1. execs'[s].key \notin DOMAIN pending'
      BY <2>1 DEF Booked, Ledger, Single
    <3>2. QED
      BY <2>3, <3>1 DEF PersistenceView, Restrict
  <2>4. CASE Forget
    BY <2>1, <2>4 DEF Forget, EmptyMap
  <2>5. QED
    BY <1>1, <2>2, <2>3, <2>4 DEF DiskMoves
<1>4. QED
  BY <1>2, <1>3 DEF DiskLags

(* The scheduler's latest trigger of an operation is its only one. *)
LEMMA LatestOf ==
  ASSUME Core, Ledger, NEW i \in DOMAIN OperationKey,
         NEW t \in DOMAIN triggers, triggers[t].key = OperationKey[i]
  PROVE  LatestState(i) = triggers[t].state
<1>1. Ours(OperationKey[i])
  BY RequestOfRow
<1>2. TriggersOf(i) = {t}
  BY <1>1 DEF TriggersOf, Ledger, Single
<1>3. t \in Nat
  BY DEF Core, Below, TypeOK, TriggersOK
<1> DEFINE newest == CHOOSE u \in TriggersOf(i) : \A v \in TriggersOf(i) : v <= u
<1>4. newest = t
  BY <1>2, <1>3
<1>5. QED
  BY <1>2, <1>4 DEF LatestState

LEMMA WaitingState ==
  ASSUME Core, Ledger, NEW i \in DOMAIN OperationKey, OperationKey[i] \in DOMAIN pending
  PROVE  LatestState(i) \in {"pending", "waiting"}
<1>1. Ours(OperationKey[i])
  BY RequestOfRow
<1>2. PICK t \in pending[OperationKey[i]].triggers : t \in DOMAIN triggers
  BY <1>1 DEF Ledger, Single
<1>3. triggers[t].key = OperationKey[i] /\ triggers[t].state \in {"pending", "waiting"}
  BY <1>2 DEF Core, Below, Accounted, BooksNow, Books, QueuedRight
<1>4. QED
  BY <1>2, <1>3, LatestOf

LEMMA QueuedRowsStep ==
  ASSUME Booked, QueuedRows, DiskLags, [RemovalsNext]_system, count'.faults = 0
  PROVE  QueuedRows'
<1>1. Core /\ Ledger /\ Promised
  BY DEF Booked
<1>2. SUFFICES ASSUME NEW i \in DOMAIN journal', OperationKey[i] \in DOMAIN pending' \cup DOMAIN disk'.pending
               PROVE  journal'[i].status = "queued"
  BY DEF QueuedRows
<1>3. DOMAIN journal \subseteq DOMAIN OperationKey /\ DOMAIN journal' \subseteq DOMAIN OperationKey
  BY <1>1, RowsGrow, RowsHaveKeys
<1>4. Ours(OperationKey[i])
  BY <1>3, RequestOfRow
<1>5. \A j \in DOMAIN journal : OperationKey[j] = OperationKey[i] => j = i
  BY <1>3, RemovalsAssumption
<1>6. CASE \E j \in DOMAIN journal : HandsOver(j) /\ OperationKey[i] = OperationKey[j]
  <2>1. HandsOver(i) /\ i \in DOMAIN journal
    BY <1>5, <1>6
  <2>2. journal' = journal
    BY <2>1 DEF HandsOver, HandOver, RecoverEvent, RecoverUnscheduled
  <2>3. journal[i].status = "queued"
    BY <1>1, <2>1 DEF HandsOver, HandOver, RecoverUnscheduled, Promised, Handing
  <2>4. QED
    BY <2>2, <2>3
<1>7. CASE OperationKey[i] \in DOMAIN pending \cup DOMAIN disk.pending
  <2>1. OperationKey[i] \in Everywhere
    BY <1>7 DEF Everywhere, Keys
  <2>2. i \in DOMAIN journal
    BY <1>1, <1>4, <1>5, <2>1 DEF Core, Journaled
  <2>3. journal[i].status = "queued"
    BY <1>7, <2>2 DEF QueuedRows
  <2>4. ASSUME NEW s \in DOMAIN execs, Ours(execs[s].key), i = OperationOf(s),
               Unlocked \/ s \in DOMAIN runner
        PROVE  FALSE
    <3>1. OperationKey[i] = execs[s].key
      BY <1>1, <2>4, OperationOfRun
    <3>2. OperationKey[i] \notin DOMAIN pending
      BY <1>1, <2>4, <3>1 DEF Ledger, Single
    <3>3. OperationKey[i] \notin DOMAIN disk.pending
      BY <1>4, <2>4, <3>1, <3>2 DEF DiskLags
    <3>4. QED
      BY <1>7, <3>2, <3>3
  <2>5. ASSUME NEW s \in Slot, i = OperationOf(s), Revalidate(s) \/ Reject(s) \/ Finalize(s) PROVE FALSE
    <3>1. s \in DOMAIN execs /\ Ours(execs[s].key) /\ (Unlocked \/ s \in DOMAIN runner)
      BY <1>1, <2>5, OperationOfRunner DEF Revalidate, Reject, Finalize, RemovalRuns, Ours
    <3>2. QED
      BY <2>4, <2>5, <3>1
  <2>6. ASSUME NEW b \in Browser, i = caller[b].operation, Refuse(b) PROVE FALSE
    BY <1>1, <2>1, <2>6 DEF Refuse, Caller, Promised, Handing
  <2>7. ASSUME RecoverEvent, RecoverScheduled, i = NextEvent, journal'[i].status = "interrupted" PROVE FALSE
    <3>1. OperationKey[i] \in DOMAIN pending
      BY <1>4, <1>7, <2>7 DEF RecoverEvent, DiskLags
    <3>2. LatestState(i) \in {"pending", "waiting"}
      BY <1>1, <1>3, <3>1, WaitingState
    <3>3. journal' = journal
      BY <2>7, <3>2 DEF RecoverScheduled
    <3>4. QED
      BY <2>3, <2>7, <3>3
  <2>8. ~Closes(i)
    BY <2>3, <2>5, <2>6, <2>7 DEF Closes
  <2>9. ASSUME NEW row, journal' = Append(journal, row) PROVE journal'[i] = journal[i]
    <3>1. journal \in Seq(Row)
      BY <1>1 DEF Core, RemovalsTypeOK, Row
    <3>2. QED
      BY <2>2, <2>9, <3>1
  <2>10. journal'[i] = journal[i]
    BY <1>1, <2>2, <2>8, <2>9, JournalEffect
  <2>11. QED
    BY <2>3, <2>10
<1>8. QED
  BY <1>1, <1>2, <1>4, <1>6, <1>7, QueuedKeys


LEMMA LeavingEnds ==
  ASSUME Core, NEW s \in Slot, Return(s)
  PROVE  /\ s \in DOMAIN runner /\ Settles(s, IF runner[s].failed THEN "failed" ELSE "fulfilled")
         /\ s \notin DOMAIN execs'
<1>1. s \in DOMAIN runner /\ s \in DOMAIN execs /\ Ours(execs[s].key) /\ runner[s].failed \in BOOLEAN
  BY OperationOfRunner DEF Return, Core, RemovalsTypeOK
<1>2. TypeOK /\ BooksNow
  BY DEF Core, Below, Accounted
<1> DEFINE failed == runner[s].failed
<1>3. IF failed THEN FinishFailed(s, "permanent") ELSE FinishSucceeded(s)
  BY DEF Return
<1> HIDE DEF failed
<1>4. failed \in BOOLEAN
  BY <1>1 DEF failed
<1>5. Settles(s, IF failed THEN "failed" ELSE "fulfilled")
  BY <1>1, <1>2, <1>3, <1>4, ReturnEffect
<1>6. QED
  BY <1>1, <1>5 DEF failed, Settles, Ceases

LEMMA OperationUnique ==
  ASSUME Booked, NEW s \in DOMAIN runner, NEW u \in DOMAIN execs, Ours(execs[u].key),
         OperationOf(s) = OperationOf(u)
  PROVE  s = u
<1>1. /\ s \in DOMAIN execs /\ Ours(execs[s].key)
      /\ OperationKey[OperationOf(s)] = execs[s].key /\ OperationKey[OperationOf(u)] = execs[u].key
  BY OperationOfRunner, OperationOfRun DEF Booked
<1>2. QED
  BY <1>1 DEF Booked, Ledger, Single

LEMMA AdmittedRowsStep ==
  ASSUME Booked, Booked', QueuedRows, AdmittedRows, [RemovalsNext]_system
  PROVE  AdmittedRows'
<1>1. Core /\ Ledger /\ Promised
  BY DEF Booked
<1>2. SUFFICES ASSUME Alive', NEW s \in DOMAIN execs', s \notin DOMAIN runner', Ours(execs'[s].key)
               PROVE  journal'[OperationOf(s)'].status = "queued"
  BY DEF AdmittedRows
<1>3. CASE UNCHANGED domain /\ execs'[s].key \in DOMAIN pending
  <2>1. execs'[s].key \in Everywhere
    BY <1>3 DEF Everywhere, Keys
  <2>2. PICK i \in DOMAIN journal : OperationKey[i] = execs'[s].key
    BY <1>1, <1>2, <2>1 DEF Core, Journaled
  <2>3. i \in DOMAIN OperationKey /\ \A j \in DOMAIN OperationKey : OperationKey[j] = OperationKey[i] => j = i
    BY <1>1, RowsHaveKeys, RemovalsAssumption DEF Core
  <2>4. OperationOf(s)' = i
    BY <2>2, <2>3 DEF OperationOf
  <2>5. journal' = journal /\ journal[i].status = "queued"
    BY <1>3, <2>2 DEF domain, QueuedRows
  <2>6. QED
    BY <2>4, <2>5
<1>4. CASE Alive /\ s \in DOMAIN execs /\ execs[s].key = execs'[s].key
  <2>1. OperationOf(s)' = OperationOf(s)
    BY <1>4, SameOperation
  <2>2. s \notin DOMAIN runner
    <3>1. SUFFICES ASSUME s \in DOMAIN runner PROVE FALSE
      OBVIOUS
    <3>2. s \in Slot /\ Leaves(s)
      BY <1>1, <1>2, <3>1, RunnerEffect DEF Gone, Alive
    <3>3. QED
      BY <1>1, <1>2, <3>2, LeavingEnds DEF Leaves
  <2>3. journal[OperationOf(s)].status = "queued"
    BY <1>2, <1>4, <2>2 DEF AdmittedRows
  <2>4. ~Reject(s) /\ ~Finalize(s)
    BY <2>2 DEF Reject, Finalize
  <2>5. ~Revalidate(s)
    BY <1>2 DEF Revalidate, Put
  <2>6. journal'[OperationOf(s)] = journal[OperationOf(s)]
    BY <1>2, <1>4, <2>4, <2>5, RowOfRun
  <2>7. QED
    BY <2>1, <2>3, <2>6
<1>5. QED
  BY <1>1, <1>2, <1>3, <1>4, AdmittedKeys

(* Acting, recording the scope and advancing each leave the runner at one   *)
(* of the steps that follow.                                                *)
LEMMA RunnerMoves ==
  ASSUME Core, NEW s \in Slot, Act(s) \/ QueueScope(s) \/ AdvanceAfter(s)
  PROVE  s \in DOMAIN runner' /\ runner'[s].at \in {"scope", "finalize", "advance"}
<1>1. \A u \in DOMAIN runner : runner[u] \in Run
  BY DEF Core, RemovalsTypeOK, Run
<1>2. CASE Act(s)
  <2>1. s \in DOMAIN runner /\ runner[s] \in Run
    BY <1>1, <1>2 DEF Act
  <2>2. CASE runner[s].dry
    <3>1. runner' = [runner EXCEPT ![s].at = "finalize"]
      BY <1>2, <2>2 DEF Act, Step
    <3>2. QED
      BY <2>1, <3>1 DEF Run
  <2>3. CASE ~runner[s].dry
    <3>1. PICK m, u, e \in BOOLEAN :
            runner' = [runner EXCEPT ![s] =
                         [@ EXCEPT !.at = IF m \/ u THEN "scope" ELSE "finalize",
                                   !.mutated = m, !.uncertain = u, !.errors = e]]
      BY <1>2, <2>3 DEF Act
    <3>2. s \in DOMAIN runner' /\ runner'[s].at = IF m \/ u THEN "scope" ELSE "finalize"
      BY <2>1, <3>1 DEF Run
    <3>3. QED
      BY <3>2
  <2>4. QED
    BY <2>2, <2>3
<1>3. CASE QueueScope(s)
  <2>1. s \in DOMAIN runner /\ runner[s] \in Run
    BY <1>1, <1>3 DEF QueueScope
  <2>2. \/ runner' = [runner EXCEPT ![s].at = "advance"]
        \/ runner' = [runner EXCEPT ![s].at = "advance", ![s].errors = TRUE, ![s].uncertain = TRUE]
    BY <1>3 DEF QueueScope, Step
  <2>3. QED
    BY <2>1, <2>2 DEF Run
<1>4. CASE AdvanceAfter(s)
  <2>1. s \in DOMAIN runner /\ runner[s] \in Run
    BY <1>1, <1>4 DEF AdvanceAfter
  <2>2. runner' = [runner EXCEPT ![s].at = "finalize", ![s].errors = @ \/ workflow' = workflow]
    BY <1>4 DEF AdvanceAfter
  <2>3. QED
    BY <2>1, <2>2 DEF Run
<1>5. QED
  BY <1>2, <1>3, <1>4

LEMMA RunnersRightStep ==
  ASSUME Booked, Booked', Untouched, AdmittedRows, RunnersRight, [RemovalsNext]_system, count'.faults = 0
  PROVE  RunnersRight'
<1> DEFINE Right(s, i) ==
      /\ runner'[s].at = "reject" => journal'[i].status = "queued"
      /\ runner'[s].at = "act" => acted'[i] = 0
      /\ runner'[s].at = "return" =>
           IF runner'[s].failed THEN journal'[i].status = "failed"
           ELSE journal'[i].status \in Done
<1>1. Core /\ ~PersistFails /\ journal \in Seq(Row) /\ \A u \in DOMAIN runner : runner[u] \in Run
  BY NoFaultStep DEF Booked, Core, RemovalsTypeOK, Row, Run
<1>2. ASSUME NEW s \in DOMAIN runner' PROVE Right(s, OperationOf(s))
  <2> DEFINE i == OperationOf(s)
  <2>1. /\ s \in DOMAIN execs /\ Ours(execs[s].key) /\ Alive
        /\ i \in DOMAIN journal /\ journal[i] \in Row
        /\ \/ journal'[i] = journal[i]
           \/ Revalidate(s) /\ journal'[i].status = "started"
           \/ Reject(s) \/ Finalize(s)
    BY <1>1, <1>2, RunnerOperation, RowOfRun DEF Booked
  <2>2. ASSUME NEW u \in Slot, Act(u), OperationOf(u) = i
        PROVE  u = s /\ runner'[s].at \in {"scope", "finalize", "advance"}
    <3>1. u \in DOMAIN runner
      BY <2>2 DEF Act
    <3>2. u = s
      BY <2>1, <2>2, <3>1, OperationUnique
    <3>3. runner'[u].at \in {"scope", "finalize", "advance"}
      BY <1>1, <2>2, RunnerMoves
    <3>4. QED
      BY <3>2, <3>3
  <2>3. acted'[i] = acted[i] \/ runner'[s].at \in {"scope", "finalize", "advance"}
    <3>1. i \in DOMAIN acted
      BY <1>1, <2>1, OperationOfRun DEF Core, RemovalsTypeOK
    <3>2. ASSUME NEW u \in Slot, Act(u), OperationOf(u) # i PROVE acted'[i] = acted[i]
      <4>1. acted' = acted \/ acted' = [acted EXCEPT ![OperationOf(u)] = IF @ < 2 THEN @ + 1 ELSE @]
        BY <3>2 DEF Act
      <4>2. QED
        BY <3>1, <3>2, <4>1
    <3>3. QED
      BY <1>1, <2>2, <3>2, WhoChanges
  <2>4. CASE s \in DOMAIN runner /\ runner'[s] = runner[s]
    <3>1. ~Revalidate(s)
      BY <2>4 DEF Revalidate
    <3>2. ~Reject(s) /\ ~Finalize(s)
      <4>1. ASSUME Reject(s) PROVE runner[s].at = "reject" /\ runner'[s].at = "return"
        <5>1. s \in DOMAIN runner /\ runner[s].at = "reject"
              /\ runner' = [runner EXCEPT ![s].at = "return", ![s].failed = TRUE]
          BY <4>1 DEF Reject
        <5>2. QED
          BY <1>1, <5>1 DEF Run
      <4>2. ASSUME Finalize(s) PROVE runner[s].at = "finalize" /\ runner'[s].at = "return"
        <5>1. s \in DOMAIN runner /\ runner[s].at = "finalize"
              /\ runner' = [runner EXCEPT ![s].at = "return",
                              ![s].failed = journal'[OperationOf(s)].status = "failed"]
          BY <4>2 DEF Finalize
        <5>2. QED
          BY <1>1, <5>1 DEF Run
      <4>3. QED
        BY <2>4, <4>1, <4>2
    <3>3. journal'[i] = journal[i]
      BY <2>1, <3>1, <3>2
    <3>4. QED
      BY <2>3, <2>4, <3>3 DEF RunnersRight
  <2>5. CASE Starts(s)
    <3>1. Revalidate(s) /\ s \notin DOMAIN runner /\ runner'[s].at \in {"act", "reject"}
      BY <2>5 DEF Starts
    <3>2. journal[i].status = "queued"
      BY <2>1, <3>1 DEF AdmittedRows
    <3>3. acted'[i] = 0
      <4>1. i \in DOMAIN acted /\ acted' = acted
        BY <1>1, <2>1, <3>1, OperationOfRun DEF Core, RemovalsTypeOK, Revalidate
      <4>2. QED
        BY <3>2, <4>1 DEF Untouched
    <3>4. ASSUME runner'[s].at = "reject" PROVE journal' = journal
      <4>1. PICK dry \in DryRunModes, at \in {"act", "reject"} :
              /\ runner' = Put(runner, s, [at |-> at, dry |-> dry, mutated |-> FALSE, uncertain |-> FALSE,
                                           errors |-> FALSE, failed |-> FALSE])
              /\ at = "act" \/ UNCHANGED journal
        BY <3>1 DEF Revalidate
      <4>2. at = "reject"
        BY <3>4, <4>1 DEF Put
      <4>3. QED
        BY <4>1, <4>2
    <3>5. QED
      BY <3>1, <3>2, <3>3, <3>4
  <2>6. CASE Proceeds(s)
    <3>1. CASE Reject(s) /\ runner'[s] = [runner[s] EXCEPT !.at = "return", !.failed = TRUE]
      <4>1. s \in DOMAIN runner /\ journal' = [journal EXCEPT ![i].status = "failed"]
        BY <1>1, <3>1 DEF Reject, NotWritten, Recorded
      <4>2. journal'[i].status = "failed"
        BY <2>1, <4>1 DEF Row
      <4>3. runner'[s].at = "return" /\ runner'[s].failed = TRUE
        BY <1>1, <3>1, <4>1 DEF Run
      <4>4. QED
        BY <4>2, <4>3
    <3>2. CASE Finalize(s) /\ runner'[s] = [runner[s] EXCEPT !.at = "return",
                                 !.failed = (journal'[OperationOf(s)].status = "failed")]
      <4>1. s \in DOMAIN runner /\ journal' = [journal EXCEPT ![i].status = Outcome(runner[s])]
        BY <1>1, <3>2 DEF Finalize, NotWritten, Recorded
      <4>2. journal'[i].status = Outcome(runner[s])
        BY <2>1, <4>1 DEF Row
      <4>3. Outcome(runner[s]) \in Done \cup {"failed"}
        BY DEF Outcome, Done
      <4>4. runner'[s].at = "return" /\ runner'[s].failed = (journal'[i].status = "failed")
        BY <1>1, <3>2, <4>1 DEF Run
      <4>5. QED
        BY <4>2, <4>3, <4>4
    <3>3. CASE Act(s) \/ QueueScope(s) \/ AdvanceAfter(s)
      <4>1. s \in Slot
        BY <1>1, <2>1 DEF Core, RemovalsTypeOK, Below, TypeOK, ExecsOK
      <4>2. runner'[s].at \in {"scope", "finalize", "advance"}
        BY <1>1, <3>3, <4>1, RunnerMoves
      <4>3. QED
        BY <4>2
    <3>4. QED
      BY <2>6, <3>1, <3>2, <3>3 DEF Proceeds
  <2>7. QED
    BY <1>1, <1>2, <2>4, <2>5, <2>6, RunnerEffect
<1>3. \A s \in DOMAIN runner' : OperationOf(s)' = OperationOf(s)
  BY <1>1, RunnerOperation
<1>4. QED
  BY <1>2, <1>3 DEF RunnersRight


(* Who acts stands before acting, where its operation has not been acted on.*)
LEMMA AheadStep ==
  ASSUME Booked, Booked', Announced, Untouched, Ahead, [RemovalsNext]_system, count'.faults = 0
  PROVE  Ahead'
<1>1. QueuedRows' /\ DiskLags' /\ AdmittedRows' /\ RunnersRight'
  BY QueuedRowsStep, DiskLagsStep, AdmittedRowsStep, RunnersRightStep DEF Ahead
<1>2. Core
  BY DEF Booked
<1>3. acted' = acted \/ \E s \in Slot : Act(s)
  BY <1>2, WhoChanges
<1>4. NeverReplayed'
  <2>1. CASE acted' = acted
    BY <2>1 DEF Ahead, NeverReplayed
  <2>2. ASSUME NEW s \in Slot, Act(s) PROVE NeverReplayed'
    <3>1. s \in DOMAIN runner /\ runner[s].at = "act"
      BY <2>2 DEF Act
    <3>2. acted[OperationOf(s)] = 0
      BY <3>1 DEF Ahead, RunnersRight
    <3>3. acted' = acted \/ acted' = [acted EXCEPT ![OperationOf(s)] = IF @ < 2 THEN @ + 1 ELSE @]
      BY <2>2 DEF Act
    <3>4. QED
      BY <3>2, <3>3 DEF Ahead, NeverReplayed
  <2>3. QED
    BY <1>3, <2>1, <2>2
<1>5. QED
  BY <1>1, <1>4 DEF Ahead

LEMMA CarriedInit == RemovalsInit => Carried
<1> SUFFICES ASSUME RemovalsInit PROVE Carried
  OBVIOUS
<1>1. Booked
  BY BookedInit
<1>2. DOMAIN runner = {} /\ DOMAIN journal = {} /\ ~Alive
  BY DEF RemovalsInit, EmptyMap, Init, Alive
<1>3. Announced /\ Untouched /\ NeverReplayed
  BY <1>2 DEF Announced, Untouched, NeverReplayed, RemovalsInit
<1>4. Ahead
  BY <1>2, <1>3 DEF Ahead, QueuedRows, DiskLags, AdmittedRows, RunnersRight, Unlocked
<1>5. QED
  BY <1>1, <1>3, <1>4 DEF Carried

LEMMA CarriedStep ==
  ASSUME Carried, [RemovalsNext]_system
  PROVE  Carried'
<1>1. Booked /\ Booked' /\ Core
  BY BookedStep DEF Carried, Booked
<1>2. Announced' /\ Untouched'
  BY <1>1, AnnouncedStep, UntouchedStep DEF Carried
<1>3. ASSUME count'.faults = 0 PROVE Ahead'
  <2>1. count.faults = 0
    BY <1>1, <1>3, NoFaultStep
  <2>2. QED
    BY <1>1, <1>3, <2>1, AheadStep DEF Carried
<1>4. QED
  BY <1>1, <1>2, <1>3 DEF Carried

LEMMA AlwaysCarried == RemovalsSpec => []Carried
BY CarriedInit, CarriedStep, PTL DEF RemovalsSpec


(* Every variable of the removals and of the scheduler under them keeps its *)
(* type: callers, runners, scans, start-up, journal, scope and the ghosts.  *)
THEOREM RemovalsTypesCorrect == RemovalsSpec => []RemovalsTypeOK
<1>1. Booked => RemovalsTypeOK
  BY DEF Booked, Core
<1>2. QED
  BY <1>1, AlwaysBooked, PTL

(* Two handlers confirming the same removal at once, each between its       *)
(* lookup and its save, or one that confirms it again later, never give one *)
(* token two rows that are less than the look-up's window apart, while no   *)
(* statement fails (removal_execution.go:177-186, 308-321: the admission    *)
(* mutex and the newest 200 rows).                                          *)
THEOREM TokensAreUnique == RemovalsSpec => []OneOperationPerToken
<1>1. Booked => OneOperationPerToken
  BY DEF Booked, Tokens
<1>2. QED
  BY <1>1, AlwaysBooked, PTL

(* As long as SQLite has written everything it was asked to, no crash,      *)
(* restart, interruption or resubmission makes an operation act on its      *)
(* files twice: what is queued again, in memory or on disk, still has a row *)
(* that says "queued", and only such a row's runner acts.                   *)
THEOREM ReplayNeedsAFault == RemovalsSpec => [](count.faults = 0 => NeverReplayed)
<1>1. Carried => (count.faults = 0 => NeverReplayed)
  BY DEF Carried, Ahead
<1>2. QED
  BY <1>1, AlwaysCarried, PTL

-----------------------------------------------------------------------------
(* 6. What a browser was told.  It is refused only after a write failed;    *)
(* unless another fails, the row of the refused operation is closed, and    *)
(* the scheduler never hears of the operation.                              *)
Shut(i) ==
  /\ journal[i].status = "failed" /\ OperationKey[i] \notin Everywhere
  /\ acted[i] = 0

Dismissed ==
  /\ \A c \in Caller : caller[c].at = "refuse" => count.faults >= 1
  /\ refused \subseteq DOMAIN journal
  /\ count.faults <= 1 => \A i \in refused : Shut(i)

LEMMA FaultsGrow ==
  ASSUME Core, [RemovalsNext]_system
  PROVE  /\ count.faults \in Nat /\ count'.faults \in Nat
         /\ count'.faults >= count.faults
         /\ PersistFails => count'.faults >= count.faults + 1
<1>1. count \in [submits : Nat, faults : Nat, stops : Nat]
  BY DEF Core, Below, TypeOK
<1>2. PersistFails => count'.faults = count.faults + 1
  BY <1>1 DEF PersistFails
<1>3. Counts => count'.faults = count.faults
  BY <1>1 DEF Counts
<1>4. PersistFails \/ Counts
  BY SyncStep
<1>5. QED
  BY <1>1, <1>2, <1>3, <1>4

(* An operation that is shut stays so. *)
LEMMA ShutStays ==
  ASSUME Booked, [RemovalsNext]_system, NEW i \in DOMAIN journal, Shut(i)
  PROVE  Shut(i)'
<1>1. Core /\ journal[i].status = "failed" /\ OperationKey[i] \notin Everywhere
  BY DEF Booked, Shut
<1>2. DOMAIN journal \subseteq DOMAIN OperationKey
      /\ \A j, k \in DOMAIN OperationKey : OperationKey[j] = OperationKey[k] => j = k
  BY <1>1, RowsHaveKeys, RemovalsAssumption DEF Core
<1>3. ASSUME NEW s \in Slot, i = OperationOf(s),
             Revalidate(s) \/ Reject(s) \/ Finalize(s) \/ Act(s)
      PROVE FALSE
  <2>1. s \in DOMAIN execs /\ Ours(execs[s].key)
    BY <1>1, <1>3, OperationOfRunner DEF Revalidate, Reject, Finalize, Act, RemovalRuns, Ours
  <2>2. OperationKey[i] = execs[s].key
    BY <1>1, <1>3, <2>1, OperationOfRun
  <2>3. QED
    BY <1>1, <2>1, <2>2 DEF Everywhere, Keys
<1>4. ASSUME NEW c \in Caller, Handing(c), caller[c].operation = i PROVE FALSE
  BY <1>1, <1>4 DEF Booked, Promised
<1>5. ~Closes(i)
  <2>1. ASSUME NEW b \in Browser, i = caller[b].operation, Refuse(b) PROVE FALSE
    BY <1>4, <2>1 DEF Refuse, Handing, Caller
  <2>2. ~(RecoverEvent /\ RecoverScheduled /\ i = NextEvent)
    BY <1>1 DEF RecoverScheduled
  <2>3. QED
    BY <1>1, <1>3, <2>1, <2>2 DEF Closes
<1>6. journal'[i] = journal[i]
  <2>1. ASSUME NEW row, journal' = Append(journal, row) PROVE journal'[i] = journal[i]
    BY <1>1, <2>1 DEF Core, RemovalsTypeOK
  <2>2. QED
    BY <1>1, <1>5, <2>1, JournalEffect
<1>7. OperationKey[i] \notin Everywhere'
  <2>1. SUFFICES ASSUME OperationKey[i] \in Everywhere' PROVE FALSE
    OBVIOUS
  <2>2. Ours(OperationKey[i])
    BY <1>2, RequestOfRow
  <2>3. PICK j \in DOMAIN journal : HandsOver(j) /\ OperationKey[i] = OperationKey[j]
    BY <1>1, <2>1, <2>2, KnownKeys
  <2>4. j = i
    BY <1>2, <2>3
  <2>5. CASE RecoverEvent /\ RecoverUnscheduled /\ NextEvent = i
    BY <1>1, <2>5 DEF RecoverUnscheduled
  <2>6. ASSUME NEW c \in Caller, HandOver(c), caller[c].operation = i PROVE FALSE
    BY <1>4, <2>6 DEF HandOver, Handing
  <2>7. QED
    BY <2>3, <2>4, <2>5, <2>6 DEF HandsOver
<1>8. acted'[i] = 0
  <2>1. i \in DOMAIN acted /\ acted[i] = 0
    BY <1>1, <1>2 DEF Shut, Core, RemovalsTypeOK
  <2>2. ASSUME NEW s \in Slot, Act(s) PROVE acted'[i] = acted[i]
    <3>1. i # OperationOf(s)
      BY <1>3, <2>2
    <3>2. acted' = acted \/ acted' = [acted EXCEPT ![OperationOf(s)] = IF @ < 2 THEN @ + 1 ELSE @]
      BY <2>2 DEF Act
    <3>3. QED
      BY <2>1, <3>1, <3>2
  <2>3. QED
    BY <1>1, <2>1, <2>2, WhoChanges
<1>9. QED
  BY <1>1, <1>6, <1>7, <1>8 DEF Shut

(* A submission that the scheduler does not take is a write that failed. *)
LEMMA RefusalNeedsAFault ==
  ASSUME Core, Dismissed, [RemovalsNext]_system, NEW c \in Caller, caller'[c].at = "refuse"
  PROVE  count'.faults >= 1
<1>1. \A d \in Caller : caller[d] \in [
           at : {"idle", "lookup", "save", "submit", "refuse", "accepted", "rejected"},
           token : Token \cup {NoToken}, operation : 0 .. Len(journal)]
  BY DEF Core, RemovalsTypeOK
<1>2. CASE caller'[c] = caller[c]
  BY <1>2, FaultsGrow DEF Dismissed
<1>3. CASE Gone /\ Reset
  BY <1>3 DEF Reset, IdleCaller
<1>4. CASE Turns(c)
  <2>1. CASE HandOver(c) /\ issued' = issued
    <3>1. Submit(RemovalRequest(caller[c].operation)) /\ caller[c].operation \in DOMAIN journal
      BY <2>1 DEF HandOver, Core, Submitting
    <3>2. PersistFails
      BY <2>1, <3>1, SubmissionEffect
    <3>3. QED
      BY <3>2, FaultsGrow
  <2>2. CASE caller'[c] = [caller[c] EXCEPT !.at = IF issued' # issued THEN "accepted"
                                             ELSE IF c \in Browser THEN "refuse" ELSE "rejected"]
             /\ issued' # issued
    BY <1>1, <2>2
  <2>3. CASE caller'[c].at \in {"lookup", "save", "accepted"}
    BY <2>3
  <2>4. CASE caller'[c] = [caller[c] EXCEPT !.at = "rejected"]
    BY <1>1, <2>4
  <2>5. CASE caller'[c] = [caller[c] EXCEPT !.at = "submit", !.operation = Len(journal) + 1]
    BY <1>1, <2>5
  <2>6. QED
    BY <1>4, <2>1, <2>2, <2>3, <2>4, <2>5 DEF Turns
<1>5. QED
  BY <1>2, <1>3, <1>4, CallerEffect

LEMMA DismissedStep ==
  ASSUME Carried, Dismissed, [RemovalsNext]_system
  PROVE  Dismissed'
<1>1. Core /\ Booked /\ Untouched /\ Promised
  BY DEF Carried, Booked
<1>2. DOMAIN journal \subseteq DOMAIN journal'
  BY <1>1, RowsGrow
<1>3. ASSUME NEW b \in Browser, Refuse(b), NEW i, i = caller[b].operation
      PROVE  /\ i \in DOMAIN journal
             /\ refused' = refused \cup {i}
             /\ count'.faults <= 1 => Shut(i)'
  <2>1. b \in Caller /\ caller[b].at = "refuse" /\ i \in DOMAIN journal
    BY <1>1, <1>3 DEF Refuse, Caller, Core, Submitting
  <2>2. journal[i].status = "queued" /\ OperationKey[i] \notin Everywhere
    BY <1>1, <1>3, <2>1 DEF Promised, Handing
  <2>3. i \in DOMAIN acted /\ acted[i] = 0
    BY <1>1, <2>1, <2>2, RowsHaveKeys DEF Untouched, Core, RemovalsTypeOK
  <2>4. ASSUME count'.faults <= 1 PROVE Written /\ Recorded(i, "failed")
    BY <1>1, <1>3, <2>1, <2>4, FaultsGrow DEF Refuse, NotWritten, Dismissed
  <2>5. ASSUME count'.faults <= 1 PROVE Shut(i)'
    <3>1. journal' = [journal EXCEPT ![i].status = "failed"] /\ UNCHANGED vars /\ acted' = acted
      BY <1>3, <2>4, <2>5 DEF Written, Recorded, Refuse
    <3>2. journal[i] \in Row
      <4>1. journal \in Seq(Row)
        BY <1>1 DEF Core, RemovalsTypeOK, Row
      <4>2. QED
        BY <2>1, <4>1
    <3>3. journal'[i].status = "failed"
      BY <2>1, <3>1, <3>2 DEF Row
    <3>4. Everywhere' = Everywhere
      BY <3>1 DEF vars, manager, Everywhere, Keys
    <3>5. QED
      BY <2>2, <2>3, <3>1, <3>3, <3>4 DEF Shut
  <2>6. QED
    BY <1>3, <2>1, <2>5 DEF Refuse
<1>4. ASSUME count'.faults <= 1, NEW i \in refused PROVE Shut(i)'
  <2>1. i \in DOMAIN journal /\ Shut(i)
    BY <1>1, <1>4, FaultsGrow DEF Dismissed
  <2>2. QED
    BY <1>1, <2>1, ShutStays
<1>5. \A c \in Caller : caller'[c].at = "refuse" => count'.faults >= 1
  BY <1>1, RefusalNeedsAFault
<1>6. CASE refused' = refused
  BY <1>2, <1>4, <1>5, <1>6 DEF Dismissed
<1>7. ASSUME NEW b \in Browser, Refuse(b) PROVE Dismissed'
  BY <1>2, <1>3, <1>4, <1>5, <1>7 DEF Dismissed
<1>8. QED
  BY <1>1, <1>6, <1>7, WhoChanges

(* A browser that was told its removal could not be scheduled never sees it *)
(* carried out later, whatever dies or is submitted afterwards, unless a    *)
(* second write fails (removal_execution.go:199, where the error of closing *)
(* the row is ignored).                                                     *)
THEOREM ResurrectionNeedsTwoFaults == RemovalsSpec => [](count.faults <= 1 => RejectedNeverRuns)
<1>1. RemovalsInit => Dismissed
  <2> SUFFICES ASSUME RemovalsInit PROVE Dismissed
    OBVIOUS
  <2>1. (\A c \in Caller : caller[c] = IdleCaller) /\ refused = {}
    BY DEF RemovalsInit
  <2>2. QED
    BY <2>1 DEF Dismissed, IdleCaller
<1>2. Carried /\ Dismissed /\ [RemovalsNext]_system => Dismissed'
  BY DismissedStep
<1>3. Dismissed => (count.faults <= 1 => RejectedNeverRuns)
  BY DEF Dismissed, Shut, RejectedNeverRuns
<1>4. QED
  BY <1>1, <1>2, <1>3, AlwaysCarried, PTL DEF RemovalsSpec

-----------------------------------------------------------------------------
(* 7. Verdicts.  Who settles a removal's trigger: its runner when it        *)
(* returns, recovery when the process died under it, or the state that a    *)
(* new process reads.                                                       *)
LEMMA HandedPends ==
  ASSUME Core, Ledger, Promised, NEW i, HandsOver(i), NEW t \in DOMAIN triggers'
  PROVE  (t \in DOMAIN triggers /\ triggers'[t] = triggers[t]) \/ triggers'[t].state = "pending"
<1> DEFINE k == OperationKey[i]
           new == NewTrigger(RemovalRequest(i), "pending")
<1>1. k \notin DOMAIN pending /\ \A s \in DOMAIN execs : execs[s].key # k
  BY HandedOverIsNew DEF Keys
<1>2. Attachable(RemovalRequest(i)) = {} /\ RemovalRequest(i).key = k
  BY <1>1 DEF Attachable, RemovalRequest
<1>3. triggers' = Put(triggers, issued + 1, new)
  BY <1>1, <1>2 DEF HandsOver, Handed, SubmitLocked
<1>4. new.state = "pending"
  BY DEF NewTrigger
<1> HIDE DEF new, k
<1>5. QED
  BY <1>3, <1>4 DEF Put

Settled(t) ==
  \/ Loaded /\ UNCHANGED domain
  \/ /\ t \in DOMAIN triggers /\ triggers'[t].key = triggers[t].key
     /\ triggers'[t].state = triggers[t].state
  \/ /\ t \in DOMAIN triggers /\ triggers'[t].key = triggers[t].key
     /\ phase = "recovering" /\ UNCHANGED domain
     /\ triggers'[t].state = "attention"
  \/ /\ t \in DOMAIN triggers /\ triggers'[t].key = triggers[t].key
     /\ \E s \in DOMAIN runner :
          /\ Return(s) /\ t \in execs[s].triggers
          /\ triggers'[t].state = IF runner[s].failed THEN "failed" ELSE "fulfilled"

LEMMA VerdictsGiven ==
  ASSUME Core, Ledger, Promised, [RemovalsNext]_system,
         NEW t \in DOMAIN triggers', Ours(triggers'[t].key), triggers'[t].state \in Final
  PROVE  Settled(t)
<1>1. Accounts
  BY BelowStep
<1>2. Follows(triggers, triggers')
  BY <1>1 DEF Accounts
<1>3. CASE Gone /\ Reset
  BY <1>3 DEF Gone, Forget, EmptyMap
<1>4. CASE Loaded /\ UNCHANGED domain
  BY <1>4 DEF Settled
<1>5. ASSUME GoesOn, Happens PROVE Settled(t)
  <2>1. CASE Undisturbed
    BY <1>2, <2>1 DEF Undisturbed, Settled, Follows
  <2>2. ASSUME NEW k, NEW s, Takes(k, s) PROVE Settled(t)
    BY <1>2, <2>2 DEF Takes, Settled, Follows
  <2>3. ASSUME NEW i, HandsOver(i) PROVE Settled(t)
    BY <1>2, <2>3, HandedPends DEF Settled, Follows, Final
  <2>4. ASSUME NEW s, NEW verdict, Settles(s, verdict)
        PROVE  /\ t \in DOMAIN triggers /\ triggers'[t].key = triggers[t].key
               /\ \/ triggers'[t].state = triggers[t].state
                  \/ t \in execs[s].triggers /\ triggers'[t].state = verdict
    <3>1. t \in DOMAIN triggers /\ triggers'[t].key = triggers[t].key
      BY <1>2, <2>4 DEF Settles, Follows
    <3>2. triggers[t].durable
      BY <3>1 DEF Ledger, Single
    <3>3. QED
      BY <2>4, <3>1, <3>2 DEF Settles
  <2>5. CASE UNCHANGED domain /\ phase = "recovering" /\ disk' = disk /\ \E s : Settles(s, "attention")
    BY <2>4, <2>5 DEF Settled
  <2>6. ASSUME NEW s \in DOMAIN runner, Return(s),
               Settles(s, IF runner[s].failed THEN "failed" ELSE "fulfilled")
        PROVE  Settled(t)
    BY <2>4, <2>6 DEF Settled
  <2>7. (\E c \in Caller : HandOver(c) /\ Handed(caller[c].operation))
          \/ (RecoverEvent /\ RecoverUnscheduled /\ Handed(NextEvent)) => \E i : HandsOver(i)
    BY DEF HandsOver
  <2>8. QED
    BY <1>5, <2>1, <2>2, <2>3, <2>5, <2>6, <2>7 DEF Happens
<1>6. QED
  BY <1>3, <1>4, <1>5, StepEffect


(* While no write has failed, a verdict is final. *)
LEMMA VerdictStays ==
  ASSUME Carried, [RemovalsNext]_system, count'.faults = 0,
         NEW i \in DOMAIN journal, journal[i].status \in Verdict
  PROVE  i \in DOMAIN journal' /\ journal'[i] = journal[i]
<1>1. Core /\ Promised /\ Booked
  BY DEF Carried, Booked
<1>2. Ahead /\ Announced
  BY <1>1, NoFaultStep DEF Carried
<1>3. journal[i].status # "queued" /\ journal[i].status # "started"
  BY DEF Verdict
<1>4. ~Closes(i)
  <2>1. ASSUME NEW s \in Slot, i = OperationOf(s), Revalidate(s) PROVE FALSE
    <3>1. s \in DOMAIN execs \ DOMAIN runner /\ Ours(execs[s].key) /\ Alive
      BY <2>1 DEF Revalidate, RemovalRuns, Ours, Unlocked
    <3>2. QED
      BY <1>2, <1>3, <2>1, <3>1 DEF Ahead, AdmittedRows
  <2>2. ASSUME NEW s \in Slot, i = OperationOf(s), Reject(s) \/ Finalize(s) PROVE FALSE
    BY <1>2, <1>3, <2>2 DEF Reject, Finalize, Ahead, RunnersRight, Announced
  <2>3. ASSUME NEW b \in Browser, i = caller[b].operation, Refuse(b) PROVE FALSE
    BY <1>1, <1>3, <2>3 DEF Refuse, Promised, Handing, Caller
  <2>4. ~(RecoverEvent /\ RecoverScheduled /\ i = NextEvent)
    BY <1>3 DEF RecoverScheduled
  <2>5. QED
    BY <1>3, <2>1, <2>2, <2>3, <2>4 DEF Closes
<1>5. ASSUME NEW row, journal' = Append(journal, row) PROVE i \in DOMAIN journal' /\ journal'[i] = journal[i]
  BY <1>1, <1>5 DEF Core, RemovalsTypeOK
<1>6. QED
  BY <1>1, <1>4, <1>5, JournalEffect

(* No step of any process rewrites what the history says of an operation    *)
(* that is over.                                                            *)
THEOREM VerdictsAreFinal == RemovalsSpec => VerdictsStay
<1>1. Carried /\ [RemovalsNext]_system =>
        [count'.faults = 0 =>
           \A i \in DOMAIN journal :
             journal[i].status \in Verdict => journal'[i] = journal[i]]_system
  BY VerdictStays
<1>2. QED
  BY <1>1, AlwaysCarried, PTL DEF RemovalsSpec, VerdictsStay

(* The scheduler's outcome, in memory or on disk, is the row's. *)
Matched(trg, rows) ==
  \A t \in DOMAIN trg : \A i \in DOMAIN rows : trg[t].key = OperationKey[i] =>
    /\ trg[t].state = "fulfilled" => rows[i].status \in Done
    /\ trg[t].state = "failed" => rows[i].status = "failed"

(* A trigger that needs attention has a row that was closed - once start-up *)
(* has come to that row.                                                    *)
Doubted ==
  Alive => \A t \in DOMAIN triggers : \A i \in DOMAIN journal :
    triggers[t].key = OperationKey[i] /\ triggers[t].state = "attention" =>
      /\ server.at \in {"scope", "advance", "open"} => journal[i].status \in Verdict
      /\ server.at = "events" => i \in server.todo \/ journal[i].status \in Verdict \cup {"started"}

Sound == Matched(triggers, journal) /\ Matched(disk.triggers, journal) /\ Doubted

(* A key the scheduler knows is not that of a row still to be saved. *)
LEMMA KnownRow ==
  ASSUME Core, NEW i \in DOMAIN OperationKey, OperationKey[i] \in Everywhere
  PROVE  i \in DOMAIN journal
<1>1. Ours(OperationKey[i])
  BY RequestOfRow
<1>2. PICK j \in DOMAIN journal : OperationKey[j] = OperationKey[i]
  BY <1>1 DEF Core, Journaled
<1>3. j \in DOMAIN OperationKey
  BY <1>2, RowsHaveKeys DEF Core
<1>4. QED
  BY <1>2, <1>3, RemovalsAssumption


LEMMA MatchedStays ==
  ASSUME Carried, [RemovalsNext]_system, count'.faults = 0, NEW trg, Matched(trg, journal),
         \A t \in DOMAIN trg : trg[t].key \in Everywhere
  PROVE  Matched(trg, journal')
<1>1. Core
  BY DEF Carried, Booked
<1>2. ASSUME NEW t \in DOMAIN trg, NEW i \in DOMAIN journal', trg[t].key = OperationKey[i]
      PROVE  /\ trg[t].state = "fulfilled" => journal'[i].status \in Done
             /\ trg[t].state = "failed" => journal'[i].status = "failed"
  <2>1. i \in DOMAIN OperationKey
    <3>1. DOMAIN journal' = 1 .. Len(journal') /\ Len(journal') \in Nat /\ Len(journal') <= Len(OperationKey)
          /\ DOMAIN OperationKey = 1 .. Len(OperationKey) /\ Len(OperationKey) \in Nat
      BY <1>1, RowsGrow, RowsHaveKeys DEF Core
    <3>2. QED
      BY <3>1
  <2>2. i \in DOMAIN journal
    BY <1>1, <1>2, <2>1, KnownRow
  <2>3. ASSUME trg[t].state \in {"fulfilled", "failed"} PROVE journal'[i] = journal[i]
    <3>1. journal[i].status \in Verdict
      BY <1>2, <2>2, <2>3 DEF Matched, Done, Verdict
    <3>2. QED
      BY <2>2, <3>1, VerdictStays
  <2>4. QED
    BY <1>2, <2>2, <2>3 DEF Matched
<1>3. QED
  BY <1>2 DEF Matched

(* What a runner returns is what its row says. *)
LEMMA ReturnMatches ==
  ASSUME Carried, count.faults = 0, NEW s \in DOMAIN runner, Return(s),
         NEW t \in DOMAIN triggers, t \in execs[s].triggers,
         NEW i \in DOMAIN OperationKey, triggers[t].key = OperationKey[i]
  PROVE  /\ journal' = journal
         /\ runner[s].failed => journal[i].status = "failed"
         /\ ~runner[s].failed => journal[i].status \in Done
<1>1. Core /\ RunnersRight
  BY DEF Carried, Booked, Ahead
<1>2. s \in DOMAIN execs /\ OperationOf(s) \in DOMAIN OperationKey /\ OperationKey[OperationOf(s)] = execs[s].key
  BY <1>1, OperationOfRunner
<1>3. triggers[t].key = execs[s].key
  BY <1>1, <1>2 DEF Core, Below, Accounted, BooksNow, Books, ServedRight
<1>4. OperationOf(s) = i
  BY <1>2, <1>3, RemovalsAssumption
<1>5. runner[s].at = "return" /\ journal' = journal
  BY DEF Return
<1>6. QED
  BY <1>1, <1>4, <1>5 DEF RunnersRight

LEMMA MatchedStep ==
  ASSUME Carried, Sound, [RemovalsNext]_system, count'.faults = 0
  PROVE  Matched(triggers', journal') /\ Matched(disk'.triggers, journal')
<1>1. Core /\ Ledger /\ Promised /\ count.faults = 0
  BY NoFaultStep DEF Carried, Booked
<1>2. Matched(triggers, journal') /\ Matched(disk.triggers, journal')
  <2>1. /\ \A t \in DOMAIN triggers : triggers[t].key \in Everywhere
        /\ \A t \in DOMAIN disk.triggers : disk.triggers[t].key \in Everywhere
    BY DEF Everywhere, Keys
  <2>2. QED
    BY <2>1, MatchedStays DEF Sound
<1>3. \A i \in DOMAIN journal' : i \in DOMAIN OperationKey
  <2>1. DOMAIN journal' = 1 .. Len(journal') /\ Len(journal') \in Nat /\ Len(journal') <= Len(OperationKey)
        /\ DOMAIN OperationKey = 1 .. Len(OperationKey) /\ Len(OperationKey) \in Nat
    BY <1>1, RowsGrow, RowsHaveKeys DEF Core
  <2>2. QED
    BY <2>1
<1>4. Matched(triggers', journal')
  <2>1. ASSUME NEW t \in DOMAIN triggers', NEW i \in DOMAIN journal', triggers'[t].key = OperationKey[i],
               triggers'[t].state \in {"fulfilled", "failed"}
        PROVE  /\ triggers'[t].state = "fulfilled" => journal'[i].status \in Done
               /\ triggers'[t].state = "failed" => journal'[i].status = "failed"
    <3>1. i \in DOMAIN OperationKey /\ Ours(triggers'[t].key)
      BY <1>3, <2>1, RequestOfRow
    <3>2. Settled(t)
      BY <1>1, <2>1, <3>1, VerdictsGiven DEF Final
    <3>3. CASE Loaded
      BY <1>2, <2>1, <3>3 DEF Loaded, Matched
    <3>4. CASE t \in DOMAIN triggers /\ triggers'[t].key = triggers[t].key /\ triggers'[t].state = triggers[t].state
      BY <1>2, <2>1, <3>4 DEF Matched
    <3>5. ASSUME NEW s \in DOMAIN runner, Return(s), t \in DOMAIN triggers, t \in execs[s].triggers,
                 triggers'[t].key = triggers[t].key,
                 triggers'[t].state = IF runner[s].failed THEN "failed" ELSE "fulfilled"
          PROVE  /\ triggers'[t].state = "fulfilled" => journal'[i].status \in Done
                 /\ triggers'[t].state = "failed" => journal'[i].status = "failed"
      BY <1>1, <2>1, <3>1, <3>5, ReturnMatches
    <3>6. QED
      BY <2>1, <3>2, <3>3, <3>4, <3>5 DEF Settled
  <2>2. QED
    BY <2>1 DEF Matched
<1>5. Matched(disk'.triggers, journal')
  <2>1. DiskMoves
    BY <1>1, BelowStep
  <2>2. CASE DiskStays
    BY <1>2, <2>2 DEF DiskStays, Matched
  <2>3. CASE disk' = PersistenceView'
    <3>1. DOMAIN disk'.triggers \subseteq DOMAIN triggers'
          /\ \A t \in DOMAIN disk'.triggers : disk'.triggers[t] = triggers'[t]
      BY <2>3 DEF PersistenceView, Restrict
    <3>2. QED
      BY <1>4, <3>1 DEF Matched
  <2>4. CASE disk' = PersistenceView
    <3>1. DOMAIN disk'.triggers \subseteq DOMAIN triggers
          /\ \A t \in DOMAIN disk'.triggers : disk'.triggers[t] = triggers[t]
      BY <2>4 DEF PersistenceView, Restrict
    <3>2. QED
      BY <1>2, <3>1 DEF Matched
  <2>5. QED
    BY <2>1, <2>2, <2>3, <2>4 DEF DiskMoves
<1>6. QED
  BY <1>4, <1>5


(* A row that start-up may leave alone is closed by InterruptStarted at the *)
(* latest.                                                                  *)
LEMMA ClosedStays ==
  ASSUME Carried, [RemovalsNext]_system, count'.faults = 0,
         NEW i \in DOMAIN journal, journal[i].status \in Verdict \cup {"started"}
  PROVE  journal'[i].status \in Verdict \cup {"started"}
<1>1. CASE journal'[i] = journal[i]
  BY <1>1
<1>2. CASE Closes(i)
  BY <1>2 DEF Closes, Verdict, Outcome
<1>3. ASSUME NEW row, journal' = Append(journal, row) PROVE journal'[i] = journal[i]
  BY <1>3 DEF Carried, Booked, Core, RemovalsTypeOK
<1>4. QED
  BY <1>1, <1>2, <1>3, JournalEffect DEF Carried, Booked

LEMMA DoubtedStep ==
  ASSUME Carried, Sound, [RemovalsNext]_system, count'.faults = 0
  PROVE  Doubted'
<1>1. Core /\ Ledger /\ Promised /\ count.faults = 0
  BY NoFaultStep DEF Carried, Booked
<1> SUFFICES ASSUME Alive', NEW t \in DOMAIN triggers', NEW i \in DOMAIN journal',
                    triggers'[t].key = OperationKey[i], triggers'[t].state = "attention"
             PROVE  /\ server'.at \in {"scope", "advance", "open"} => journal'[i].status \in Verdict
                    /\ server'.at = "events" =>
                         i \in server'.todo \/ journal'[i].status \in Verdict \cup {"started"}
  BY DEF Doubted
<1>2. i \in DOMAIN OperationKey /\ Ours(triggers'[t].key)
  <2>1. DOMAIN journal' = 1 .. Len(journal') /\ Len(journal') \in Nat /\ Len(journal') <= Len(OperationKey)
        /\ DOMAIN OperationKey = 1 .. Len(OperationKey) /\ Len(OperationKey) \in Nat
    BY <1>1, RowsGrow, RowsHaveKeys DEF Core
  <2>2. QED
    BY <2>1, RequestOfRow
<1>3. ASSUME ~Alive, UNCHANGED domain PROVE server'.at = "starting"
  BY <1>1, <1>3 DEF domain, Core, Orderly, Starting
<1>4. Settled(t)
  BY <1>1, <1>2, VerdictsGiven DEF Final
<1>5. CASE Loaded /\ UNCHANGED domain
  BY <1>5 DEF Loaded, Alive
<1>6. CASE phase = "recovering" /\ UNCHANGED domain
  BY <1>3, <1>6 DEF Alive
<1>7. ~\E s \in DOMAIN runner : triggers'[t].state = IF runner[s].failed THEN "failed" ELSE "fulfilled"
  OBVIOUS
<1>8. CASE t \in DOMAIN triggers /\ triggers'[t].key = triggers[t].key /\ triggers'[t].state = triggers[t].state
  <2>1. i \in DOMAIN journal
    BY <1>1, <1>2, <1>8, KnownRow DEF Everywhere, Keys
  <2>2. CASE ~Alive
    <3>1. UNCHANGED domain \/ (Gone /\ Reset)
      BY <1>1, <2>2, StepEffect
    <3>2. QED
      BY <1>3, <2>2, <3>1 DEF Reset, Starting
  <2>3. CASE Alive
    <3>1. /\ server.at \in {"scope", "advance", "open"} => journal[i].status \in Verdict
          /\ server.at = "events" => i \in server.todo \/ journal[i].status \in Verdict \cup {"started"}
      BY <1>8, <2>1, <2>3 DEF Sound, Doubted
    <3>2. journal[i].status \in Verdict => journal'[i].status \in Verdict
      BY <2>1, VerdictStays
    <3>3. journal[i].status \in Verdict \cup {"started"} => journal'[i].status \in Verdict \cup {"started"}
      BY <2>1, ClosedStays
    <3>4. CASE server' = server
      BY <3>1, <3>2, <3>3, <3>4
    <3>5. CASE Gone /\ Reset
      BY <3>5 DEF Reset, Starting
    <3>6. CASE ReadJournal
      <4>1. server' = [at |-> "events", todo |-> InFlight, restore |-> FALSE] /\ journal' = journal
        BY <3>6 DEF ReadJournal
      <4>2. journal[i].status \in Verdict \cup {"queued", "started"}
        <5>1. journal \in Seq(Row)
          BY <1>1 DEF Core, RemovalsTypeOK, Row
        <5>2. journal[i] \in Row
          BY <2>1, <5>1
        <5>3. QED
          BY <5>2 DEF Row, Status
      <4>3. i \in InFlight \/ journal[i].status \in Verdict
        BY <2>1, <4>2 DEF InFlight
      <4>4. QED
        BY <4>1, <4>3
    <3>7. CASE RecoverEvent
      <4>1. server.at = "events" /\ ServerOK
        BY <1>1, <3>7 DEF RecoverEvent, Core, RemovalsTypeOK, ServerOK
      <4>2. Fatal \/ \E restore \in BOOLEAN : Handled(restore)
        <5>1. (~journal[NextEvent].dry) \in BOOLEAN
          OBVIOUS
        <5>2. QED
          BY <3>7, <5>1 DEF RecoverEvent, RecoverStarted, RecoverScheduled, RecoverUnscheduled
      <4>3. CASE Fatal
        BY <4>1, <4>3 DEF Fatal, ServerOK
      <4>4. ASSUME NEW restore, Handled(restore)
            PROVE  server'.at = "events" /\ server'.todo = server.todo \ {NextEvent}
        BY <4>1, <4>4 DEF Handled, ServerOK
      <4>5. CASE i # NextEvent
        BY <3>1, <3>3, <4>1, <4>2, <4>3, <4>4, <4>5
      <4>6. CASE i = NextEvent
        <5>1. LatestState(i) = "attention"
          BY <1>1, <1>2, <1>8, LatestOf
        <5>2. CASE RecoverStarted
          BY <3>3, <4>2, <4>3, <4>4, <4>6, <5>2 DEF RecoverStarted
        <5>3. CASE RecoverScheduled
          <6>1. Recorded(i, "interrupted") \/ Fatal
            BY <4>6, <5>1, <5>3 DEF RecoverScheduled
          <6>2. ASSUME Recorded(i, "interrupted") PROVE journal'[i].status = "interrupted"
            <7>1. journal[i] \in Row
              <8>1. journal \in Seq(Row)
                BY <1>1 DEF Core, RemovalsTypeOK, Row
              <8>2. QED
                BY <2>1, <8>1
            <7>2. QED
              BY <2>1, <6>2, <7>1 DEF Recorded, Row
          <6>3. QED
            BY <4>2, <4>3, <4>4, <6>1, <6>2 DEF Verdict
        <5>4. ~RecoverUnscheduled
          BY <4>6, <5>1 DEF RecoverUnscheduled
        <5>5. QED
          BY <3>7, <5>2, <5>3, <5>4 DEF RecoverEvent
      <4>7. QED
        BY <4>5, <4>6
    <3>8. CASE InterruptStarted
      <4>1. server.at = "events" /\ server.todo = {} /\ journal[i].status \in Verdict \cup {"started"}
        BY <3>1, <3>8 DEF InterruptStarted
      <4>2. server'.at \in {"scope", "open", "fatal"}
        <5>1. ServerOK
          BY <1>1 DEF Core, RemovalsTypeOK, ServerOK
        <5>2. \E at \in {"scope", "open", "fatal"} : server' = [server EXCEPT !.at = at]
          BY <3>8 DEF InterruptStarted, Fatal
        <5>3. QED
          BY <5>1, <5>2 DEF ServerOK
      <4>3. ~NotWritten
        BY <1>1, NoFaultStep DEF NotWritten
      <4>4. journal' = [j \in DOMAIN journal |->
              IF journal[j].status = "started" THEN [journal[j] EXCEPT !.status = "interrupted"]
              ELSE journal[j]]
        BY <3>8, <4>3 DEF InterruptStarted
      <4>5. journal[i] \in Row
        <5>1. journal \in Seq(Row)
          BY <1>1 DEF Core, RemovalsTypeOK, Row
        <5>2. QED
          BY <2>1, <5>1
      <4>6. journal'[i].status \in Verdict
        BY <2>1, <4>1, <4>4, <4>5 DEF Row, Verdict
      <4>7. QED
        BY <4>2, <4>6
    <3>9. CASE RestoreScope \/ RestoreWorkflow
      <4>1. ServerOK
        BY <1>1 DEF Core, RemovalsTypeOK, ServerOK
      <4>2. server.at \in {"scope", "advance"}
        BY <3>9 DEF RestoreScope, RestoreWorkflow
      <4>3. \E at \in {"open", "advance", "fatal"} : server' = [server EXCEPT !.at = at]
        BY <3>9 DEF RestoreScope, RestoreWorkflow, Fatal
      <4>4. server'.at \in {"open", "advance", "fatal"}
        BY <4>1, <4>3 DEF ServerOK
      <4>5. QED
        BY <3>1, <3>2, <4>2, <4>4
    <3>10. QED
      BY <1>1, <3>4, <3>5, <3>6, <3>7, <3>8, <3>9, WhoChanges DEF ServerStarts
  <2>4. QED
    BY <2>2, <2>3
<1>9. QED
  BY <1>4, <1>5, <1>6, <1>7, <1>8 DEF Settled


LEMMA SoundStep ==
  ASSUME Carried, Sound, [RemovalsNext]_system, count'.faults = 0
  PROVE  Sound'
BY MatchedStep, DoubtedStep DEF Sound

LEMMA SoundAgrees ==
  ASSUME Carried, Ahead, Sound
  PROVE  VerdictsAgree
<1> SUFFICES ASSUME Serving, NEW i \in DOMAIN journal
             PROVE  /\ LatestState(i) = "fulfilled" => journal[i].status \in Done
                    /\ LatestState(i) = "failed" => journal[i].status = "failed"
                    /\ LatestState(i) = "attention" => journal[i].status \in Verdict
                    /\ LatestState(i) \in {"pending", "waiting"} => journal[i].status = "queued"
  BY DEF VerdictsAgree, Done
<1>1. Core /\ Ledger /\ i \in DOMAIN OperationKey
  BY RowsHaveKeys DEF Carried, Booked, Core
<1>2. CASE TriggersOf(i) = {}
  BY <1>2 DEF LatestState
<1>3. ASSUME NEW t \in DOMAIN triggers, triggers[t].key = OperationKey[i]
      PROVE  /\ LatestState(i) = "fulfilled" => journal[i].status \in Done
             /\ LatestState(i) = "failed" => journal[i].status = "failed"
             /\ LatestState(i) = "attention" => journal[i].status \in Verdict
             /\ LatestState(i) \in {"pending", "waiting"} => journal[i].status = "queued"
  <2>1. LatestState(i) = triggers[t].state
    BY <1>1, <1>3, LatestOf
  <2>2. triggers[t].state \in {"pending", "waiting"} => OperationKey[i] \in DOMAIN pending
    BY <1>1, <1>3 DEF Core, Below, Accounted, BooksNow, Books, Kept
  <2>3. Serving => Alive /\ server.at = "open"
    BY DEF Serving
  <2>4. QED
    BY <1>3, <2>1, <2>2, <2>3 DEF Sound, Matched, Doubted, Ahead, QueuedRows
<1>4. QED
  BY <1>2, <1>3 DEF TriggersOf

(* As long as SQLite has written everything it was asked to, whatever dies, *)
(* the journal and the scheduler tell the same of an operation the          *)
(* scheduler has settled or still holds: what it reports fulfilled was      *)
(* carried out, what failed is marked failed, what needs attention was      *)
(* closed, and what waits has a row that waits.                             *)
THEOREM JournalAndSchedulerAgree == RemovalsSpec => [](count.faults = 0 => VerdictsAgree)
<1>1. RemovalsInit => Sound
  <2> SUFFICES ASSUME RemovalsInit PROVE Sound
    OBVIOUS
  <2>1. DOMAIN journal = {} /\ ~Alive
    BY DEF RemovalsInit, Init, Alive
  <2>2. QED
    BY <2>1 DEF Sound, Matched, Doubted
<1>2. Carried /\ (count.faults = 0 => Sound) /\ [RemovalsNext]_system => (count.faults = 0 => Sound)'
  <2> SUFFICES ASSUME Carried, count.faults = 0 => Sound, [RemovalsNext]_system, count'.faults = 0 PROVE Sound'
    OBVIOUS
  <2>1. count.faults = 0
    BY NoFaultStep DEF Carried, Booked
  <2>2. QED
    BY <2>1, SoundStep
<1>3. Carried /\ (count.faults = 0 => Sound) => (count.faults = 0 => VerdictsAgree)
  BY SoundAgrees DEF Carried
<1>4. QED
  BY <1>1, <1>2, <1>3, AlwaysCarried, PTL DEF RemovalsSpec

-----------------------------------------------------------------------------
(* 8. What a removal changed is read back.  A mutation is owed from the     *)
(* moment its runner acts to the publication of a file reconciliation that  *)
(* began after it; until then something that survives the process says so.  *)

Under(w) == w.state \notin {"absent", "succeeded"}
Dead(p) == p \in {"down", "panicked"}

(* An unfinished workflow, in memory or on disk, is not given up. *)
WorkflowGoesOn ==
  \/ /\ Dead(phase')
     /\ disk'.workflow.state = disk.workflow.state \/ (disk'.workflow = workflow /\ ~Dead(phase))
  \/ /\ Dead(phase) /\ phase' = "recovering"
     /\ disk' = disk /\ workflow' = disk.workflow
  \/ /\ ~Dead(phase) /\ ~Dead(phase')
     /\ Under(workflow) => Under(workflow')
     /\ disk'.workflow.state = disk.workflow.state \/ disk'.workflow = workflow'

LEMMA SavingGoesOn ==
  ASSUME ~Dead(phase), ~Dead(phase'), Under(workflow) => Under(workflow'),
         disk' = disk \/ disk' = PersistenceView'
  PROVE  WorkflowGoesOn
<1>1. PersistenceView'.workflow = workflow'
  BY DEF PersistenceView
<1>2. QED
  BY <1>1 DEF WorkflowGoesOn

LEMMA KeepingGoesOn ==
  ASSUME ~Dead(phase), UNCHANGED workflow, disk' = disk \/ disk' = PersistenceView',
         phase' = phase \/ ~Dead(phase') \/ disk' = disk
  PROVE  WorkflowGoesOn
BY SavingGoesOn DEF WorkflowGoesOn, Dead

LEMMA PassGoesOn ==
  ASSUME TypeOK, Alive, Pass
  PROVE  WorkflowGoesOn
<1>0. ~Dead(phase)
  BY DEF Alive, Dead
<1>1. CASE StartPass
  BY <1>0, <1>1, KeepingGoesOn DEF StartPass, manager
<1>2. ASSUME NEW task, CreatePeriodicTrigger(task) PROVE WorkflowGoesOn
  BY <1>0, <1>2, KeepingGoesOn DEF CreatePeriodicTrigger
<1>3. CASE CreateWorkflowTrigger
  <2>1. workflow' = [workflow EXCEPT !.trigger = issued', !.state = "running"] /\ disk' = disk /\ phase' = phase
    BY <1>3 DEF CreateWorkflowTrigger
  <2>2. workflow'.state = "running"
    BY <2>1 DEF TypeOK, WorkflowOK, Workflow
  <2>3. QED
    BY <1>0, <2>1, <2>2, SavingGoesOn DEF Under
<1>4. CASE Preempt
  BY <1>0, <1>4, KeepingGoesOn DEF Preempt
<1>5. CASE phase' = "panicked" /\ disk' = disk
  BY <1>5 DEF WorkflowGoesOn, Dead
<1>6. ASSUME NEW k, Admit(k) PROVE WorkflowGoesOn
  <2>1. (phase' = "panicked" /\ disk' = disk) \/ UNCHANGED <<workflow, phase, disk>>
    BY <1>6 DEF Admit, Panics
  <2>2. QED
    BY <1>0, <1>5, <2>1, KeepingGoesOn
<1>7. CASE EndPass
  <2>1. (phase' = "panicked" /\ disk' = disk) \/ (UNCHANGED <<workflow, phase>> /\ PersistOrLog)
    BY <1>7 DEF EndPass, Panics
  <2>2. QED
    BY <1>0, <1>5, <2>1, KeepingGoesOn DEF PersistOrLog, Persisted, PersistFails
<1>8. QED
  BY <1>1, <1>2, <1>3, <1>4, <1>6, <1>7 DEF Pass

LEMMA AdvanceGoesOn ==
  ASSUME NEW quiet, AdvanceWorkflow(quiet)
  PROVE  /\ WorkflowGoesOn
         /\ (PersistFails /\ UNCHANGED workflow) \/ (disk' = PersistenceView' /\ workflow'.state = "pending")
<1>1. phase' = phase /\ ~Dead(phase)
  BY DEF AdvanceWorkflow, Unlocked, Alive, Dead
<1>2. (PersistFails /\ UNCHANGED workflow) \/ (disk' = PersistenceView' /\ workflow'.state = "pending")
  BY DEF AdvanceWorkflow, manager
<1>3. CASE PersistFails /\ UNCHANGED workflow
  BY <1>1, <1>3, KeepingGoesOn DEF PersistFails
<1>4. CASE disk' = PersistenceView' /\ workflow'.state = "pending"
  BY <1>1, <1>4, SavingGoesOn DEF Under
<1>5. QED
  BY <1>2, <1>3, <1>4

LEMMA SubmitGoesOn ==
  ASSUME NEW r, Submit(r)
  PROVE  WorkflowGoesOn
<1>1. phase' = phase /\ ~Dead(phase) /\ workflow' = workflow
  BY DEF Submit, Unlocked, Alive, Dead, manager
<1>2. disk' = disk \/ disk' = PersistenceView'
  BY DEF Submit, PersistFails
<1>3. QED
  BY <1>1, <1>2, KeepingGoesOn

(* Only a file reconciliation that returns without an error ends it. *)
LEMMA FinishGoesOn ==
  ASSUME TypeOK, NEW s \in DOMAIN execs, Finish(s),
         ~(TaskOf[execs[s].key] = Files /\ FinishSucceeded(s))
  PROVE  WorkflowGoesOn
<1>0. ~Dead(phase) /\ phase' = phase
  <2>1. Unlocked /\ \E trg, others : Finished(s, trg, others)
    BY DEF Finish, FinishRequeued, FinishInterrupted, FinishFailed, FinishSucceeded
  <2>2. QED
    BY <2>1, FinishedEffect DEF Unlocked, Alive, Dead
<1>1. disk' = disk \/ disk' = PersistenceView'
  <2>1. \E trg, others : Finished(s, trg, others)
    BY DEF Finish, FinishRequeued, FinishInterrupted, FinishFailed, FinishSucceeded
  <2>2. QED
    BY <2>1, FinishedEffect DEF PersistOrLog, Persisted, PersistFails
<1>2. CASE \E outcome : FinishRequeued(s, outcome)
  BY <1>0, <1>1, <1>2, KeepingGoesOn DEF FinishRequeued
<1>3. CASE FinishInterrupted(s)
  BY <1>0, <1>1, <1>3, KeepingGoesOn DEF FinishInterrupted
<1>4. ASSUME NEW outcome, FinishFailed(s, outcome) PROVE WorkflowGoesOn
  <2>1. workflow' = workflow \/ workflow' = [workflow EXCEPT !.state = "attention", !.trigger = 0]
    BY <1>4 DEF FinishFailed
  <2>2. Under(workflow) => Under(workflow')
    BY <2>1 DEF Under, TypeOK, WorkflowOK, Workflow
  <2>3. QED
    BY <1>0, <1>1, <2>2, SavingGoesOn
<1>5. CASE FinishSucceeded(s)
  <2>1. TaskOf[execs[s].key] # Files
    BY <1>5
  <2>2. CASE workflow' = workflow
    BY <1>0, <1>1, <2>2, KeepingGoesOn
  <2>3. CASE /\ Satisfies(execs[s])
             /\ workflow' = [workflow EXCEPT
                  !.step = @ + 1, !.trigger = 0,
                  !.state = IF workflow.step + 1 >= Len(Steps) THEN "succeeded" ELSE "pending"]
    <3>1. workflow.step \in Nat /\ workflow.step < 2 /\ Len(Steps) = 2
      BY <2>3, RemovalsAssumption DEF Satisfies, TypeOK, WorkflowOK, Workflow
    <3>2. workflow.step # 1
      BY <2>1, <2>3, RemovalsAssumption DEF Satisfies, Files
    <3>3. ~(workflow.step + 1 >= Len(Steps))
      BY <3>1, <3>2
    <3>4. workflow'.state = "pending"
      BY <2>3, <3>3 DEF TypeOK, WorkflowOK, Workflow
    <3>5. QED
      BY <1>0, <1>1, <3>4, SavingGoesOn DEF Under
  <2>4. QED
    BY <1>5, <2>2, <2>3 DEF FinishSucceeded
<1>6. QED
  BY <1>2, <1>3, <1>4, <1>5 DEF Finish

(* A removal is not a step of the workflow. *)
LEMMA ReturnGoesOn ==
  ASSUME Core, NEW s \in DOMAIN runner, Return(s)
  PROVE  WorkflowGoesOn
<1>1. s \in DOMAIN execs /\ TaskOf[execs[s].key] # Files
  BY RemovalsAssumption DEF Core, RemovalsTypeOK, RemovalRuns
<1>2. Finish(s)
  BY DEF Return, Finish
<1>3. QED
  BY <1>1, <1>2, FinishGoesOn DEF Core, Below

LEMMA SchedulerGoesOn ==
  ASSUME Core, SchedulerSteps
  PROVE  WorkflowGoesOn
<1> USE DEF Core, Below
<1>1. CASE server.at = "open" /\ Pass
  <2>1. Alive
    BY <1>1 DEF Orderly, Starting
  <2>2. QED
    BY <1>1, <2>1, PassGoesOn
<1>2. CASE StopLoop
  <2>1. ~Dead(phase) /\ UNCHANGED <<workflow, phase, disk>>
    BY <1>2 DEF StopLoop, Dead, manager
  <2>2. QED
    BY <2>1, KeepingGoesOn
<1>3. ASSUME NEW s, RecoverInterrupted(s) PROVE WorkflowGoesOn
  <2>1. phase = "recovering" /\ disk' = disk
        /\ (phase' = "panicked" \/ UNCHANGED <<workflow, phase>>)
    BY <1>3 DEF RecoverInterrupted, Panics
  <2>2. QED
    BY <2>1, KeepingGoesOn DEF Dead, WorkflowGoesOn
<1>4. CASE RecoveryDone
  <2>1. phase = "recovering"
        /\ \/ workflow' = workflow /\ Persisted /\ phase' = "up"
           \/ PersistFails /\ phase' = "down"
    BY <1>4 DEF RecoveryDone, manager
  <2>2. QED
    BY <2>1, KeepingGoesOn DEF Dead, Persisted, PersistFails, WorkflowGoesOn
<1>5. CASE QuietPeriodElapses
  <2>1. /\ ~Dead(phase) /\ phase' = phase
        /\ workflow' = [workflow EXCEPT !.ready = @ \/ TRUE, !.overdue = @ \/ FALSE]
        /\ disk' = [disk EXCEPT !.workflow.ready = @ \/ TRUE, !.workflow.overdue = @ \/ FALSE]
    BY <1>5 DEF QuietPeriodElapses, WorkflowTimePasses, Unlocked, Alive, Dead
  <2>2. workflow'.state = workflow.state
    BY <2>1 DEF TypeOK, WorkflowOK, Workflow
  <2>3. disk'.workflow.state = disk.workflow.state
    BY <2>1 DEF TypeOK, SavedOK, WorkflowOK, Workflow
  <2>4. QED
    BY <2>1, <2>2, <2>3 DEF WorkflowGoesOn, Under
<1>6. ASSUME NEW k, DelayElapses(k) PROVE WorkflowGoesOn
  <2>1. ~Dead(phase) /\ UNCHANGED <<phase, workflow>> /\ disk' = [disk EXCEPT !.pending = Elapsed(@, k)]
    BY <1>6 DEF DelayElapses, Unlocked, Alive, Dead
  <2>2. disk'.workflow = disk.workflow
    BY <2>1 DEF TypeOK, SavedOK
  <2>3. QED
    BY <2>1, <2>2 DEF WorkflowGoesOn
<1>7. CASE Restart
  BY <1>7 DEF Restart, WorkflowGoesOn, Dead
<1>8. CASE Crash \/ Exit
  BY <1>8 DEF Crash, Exit, WorkflowGoesOn, Dead
<1>9. CASE Shutdown \/ GraceExpires
  <2>1. ~Dead(phase) /\ ~Dead(phase') /\ UNCHANGED <<workflow, disk>>
    BY <1>9 DEF Shutdown, GraceExpires, Dead, manager
  <2>2. QED
    BY <2>1, KeepingGoesOn
<1>10. CASE Stopped
  <2>1. phase = "stopping" /\ phase' = "down" /\ (disk' = disk \/ disk' = PersistenceView)
    BY <1>10 DEF Stopped, PersistFails
  <2>2. QED
    BY <2>1 DEF WorkflowGoesOn, Dead, PersistenceView
<1>11. ASSUME NEW r, Submit(r) PROVE WorkflowGoesOn
  BY <1>11, SubmitGoesOn
<1>12. QED
  BY <1>1, <1>2, <1>3, <1>4, <1>5, <1>6, <1>7, <1>8, <1>9, <1>10, <1>11 DEF SchedulerSteps, Recovery

LEMMA IdleGoesOn ==
  ASSUME Written \/ NotWritten
  PROVE  WorkflowGoesOn
<1>1. UNCHANGED <<workflow, phase, disk>>
  BY DEF Written, NotWritten, PersistFails, vars, manager
<1>2. QED
  BY <1>1, KeepingGoesOn DEF WorkflowGoesOn

(* So the workflow goes on, unless a reconciliation has read everything.    *)
Reconciles(s) ==
  s \in DOMAIN scan /\ TaskOf[execs[s].key] = Files /\ scan[s].at = "done" /\ ScanReturns(s)

LEMMA WorkflowStep ==
  ASSUME Core, [RemovalsNext]_system
  PROVE  WorkflowGoesOn \/ \E s : Reconciles(s)
<1>0. ASSUME UNCHANGED vars \/ NotWritten PROVE WorkflowGoesOn
  BY <1>0, IdleGoesOn DEF Written
<1>1. CASE UNCHANGED system
  BY <1>0, <1>1 DEF system
<1>2. CASE SchedulerSteps
  BY <1>2, SchedulerGoesOn
<1>3. CASE Admission
  <2>1. ASSUME NEW c \in Caller, HandOver(c) PROVE WorkflowGoesOn
    BY <2>1, SubmitGoesOn DEF HandOver
  <2>2. ASSUME NEW c \in Caller, Arrive(c) \/ Save(c) PROVE WorkflowGoesOn
    BY <1>0, <2>2 DEF Arrive, Save, Written
  <2>3. ASSUME NEW b \in Browser, Lookup(b) \/ Refuse(b) PROVE WorkflowGoesOn
    BY <1>0, <2>3 DEF Lookup, Refuse, Written
  <2>4. QED
    BY <1>3, <2>1, <2>2, <2>3 DEF Admission
<1>4. ASSUME NEW s \in Slot,
             Revalidate(s) \/ Reject(s) \/ Act(s) \/ QueueScope(s) \/ AdvanceAfter(s) \/ Finalize(s)
               \/ Return(s)
      PROVE  WorkflowGoesOn
  <2>1. CASE Revalidate(s)
    <3>1. Written \/ NotWritten
      BY <2>1 DEF Revalidate
    <3>2. QED
      BY <3>1, IdleGoesOn
  <2>2. CASE Reject(s) \/ QueueScope(s) \/ Finalize(s)
    <3>1. Written \/ NotWritten
      BY <2>2 DEF Reject, QueueScope, Finalize
    <3>2. QED
      BY <3>1, IdleGoesOn
  <2>3. CASE Act(s)
    BY <1>0, <2>3 DEF Act
  <2>4. CASE AdvanceAfter(s)
    BY <2>4, AdvanceGoesOn DEF AdvanceAfter
  <2>5. CASE Return(s)
    BY <2>5, ReturnGoesOn DEF Return
  <2>6. QED
    BY <1>4, <2>1, <2>2, <2>3, <2>4, <2>5
<1>5. ASSUME NEW s \in Slot, BeginScan(s) \/ Publish(s) \/ ClearScope(s) \/ ScanReturns(s)
      PROVE  WorkflowGoesOn \/ \E u : Reconciles(u)
  <2>1. CASE BeginScan(s) \/ Publish(s) \/ ClearScope(s)
    <3>1. UNCHANGED vars \/ NotWritten
      BY <2>1 DEF BeginScan, Publish, ClearScope, Written
    <3>2. QED
      BY <1>0, <3>1
  <2>2. CASE ScanReturns(s)
    <3>1. s \in DOMAIN execs /\ Finish(s)
      BY <2>2 DEF ScanReturns, Scans, Finish
    <3>2. CASE s \in DOMAIN scan /\ scan[s].at = "done"
      <4>1. CASE TaskOf[execs[s].key] = Files
        BY <2>2, <3>2, <4>1 DEF Reconciles
      <4>2. CASE TaskOf[execs[s].key] # Files
        BY <3>1, <4>2, FinishGoesOn DEF Core, Below
      <4>3. QED
        BY <4>1, <4>2
    <3>3. CASE ~(s \in DOMAIN scan /\ scan[s].at = "done")
      <4>1. (\E outcome : FinishRequeued(s, outcome)) \/ FinishFailed(s, "retryable")
        BY <2>2, <3>3 DEF ScanReturns
      <4>2. ~Dead(phase) /\ phase' = phase
        <5>1. Unlocked /\ \E trg, others : Finished(s, trg, others)
          BY <4>1 DEF FinishRequeued, FinishFailed
        <5>2. QED
          BY <5>1, FinishedEffect DEF Unlocked, Alive, Dead
      <4>3. disk' = disk \/ disk' = PersistenceView'
        <5>1. \E trg, others : Finished(s, trg, others)
          BY <4>1 DEF FinishRequeued, FinishFailed
        <5>2. QED
          BY <5>1, FinishedEffect DEF PersistOrLog, Persisted, PersistFails
      <4>4. Under(workflow) => Under(workflow')
        <5>1. workflow' = workflow \/ workflow' = [workflow EXCEPT !.state = "attention", !.trigger = 0]
          BY <4>1 DEF FinishRequeued, FinishFailed
        <5>2. QED
          BY <5>1 DEF Under, Core, Below, TypeOK, WorkflowOK, Workflow
      <4>5. QED
        BY <4>2, <4>3, <4>4, SavingGoesOn
    <3>4. QED
      BY <3>2, <3>3
  <2>3. QED
    BY <1>5, <2>1, <2>2
<1>6. CASE ServiceChanges
  BY <1>6, AdvanceGoesOn DEF ServiceChanges
<1>7. CASE ServerStarts
  <2>1. CASE ReadJournal
    BY <1>0, <2>1 DEF ReadJournal
  <2>2. CASE RecoverEvent
    <3>1. UNCHANGED vars \/ Written \/ NotWritten \/ Submit(RemovalRequest(NextEvent))
      BY <2>2 DEF RecoverEvent, RecoverStarted, RecoverScheduled, RecoverUnscheduled
    <3>2. QED
      BY <1>0, <3>1, SubmitGoesOn, IdleGoesOn
  <2>3. CASE InterruptStarted \/ RestoreScope
    <3>1. Written \/ NotWritten
      BY <2>3 DEF InterruptStarted, RestoreScope
    <3>2. QED
      BY <3>1, IdleGoesOn
  <2>4. CASE RestoreWorkflow
    BY <2>4, AdvanceGoesOn DEF RestoreWorkflow
  <2>5. QED
    BY <1>7, <2>1, <2>2, <2>3, <2>4 DEF ServerStarts
<1>8. QED
  BY <1>1, <1>2, <1>3, <1>4, <1>5, <1>6, <1>7 DEF RemovalsNext, Running, Scanning

(* A workflow that is under way, on disk and for the process that is up.    *)
Afoot == Under(disk.workflow) /\ (~Dead(phase) => Under(workflow))

LEMMA AfootStays ==
  ASSUME Afoot, WorkflowGoesOn
  PROVE  Afoot'
BY DEF Afoot, WorkflowGoesOn, Under, Dead

(* A removal and a file reconciliation never run at the same time. *)
LEMMA RemovalsRunAlone ==
  ASSUME Core, NEW s \in DOMAIN runner, NEW u \in DOMAIN execs, TaskOf[execs[u].key] = Files
  PROVE  FALSE
<1>1. s \in DOMAIN execs /\ TaskOf[execs[s].key] = RemovalTask
  BY DEF Core, RemovalsTypeOK, RemovalRuns
<1>2. Alive
  BY DEF Core, Orderly, Starting
<1>3. DOMAIN Held = DOMAIN execs /\ Held[s] = RemovalTask /\ Held[u] = Files
  BY <1>1, <1>2 DEF Held, Active
<1>4. s # u /\ ClaimsConflict(RemovalTask, Files)
  BY <1>1, RemovalsAssumption
<1>5. QED
  BY <1>1, <1>3, <1>4 DEF Core, Below, TableInv, Compatible

(* Operation i changed files that no reconciliation has read since. *)
Outstanding(i) == i \in DOMAIN journal /\ <<i, Files>> \in debts
Debts == debts \subseteq (0 .. Len(journal)) \X {Inventory, Files}

(* A runner knows whether its row is a dry run, and a dry run changes       *)
(* nothing.                                                                 *)
DryRight ==
  \A s \in DOMAIN runner :
    /\ runner[s].at \notin {"reject", "return"} => runner[s].dry = journal[OperationOf(s)].dry
    /\ runner[s].at \in {"scope", "advance"} => ~runner[s].dry

LEMMA DebtsStep ==
  ASSUME Core, Debts, [RemovalsNext]_system
  PROVE  Debts'
<1>1. /\ Len(journal) \in Nat /\ Len(journal') \in Nat /\ Len(journal) <= Len(journal')
      /\ DOMAIN journal = 1 .. Len(journal)
  BY RowsGrow, RowsHaveKeys DEF Core
<1>2. debts \subseteq (0 .. Len(journal')) \X {Inventory, Files}
  BY <1>1 DEF Debts
<1>3. CASE debts' = debts
  BY <1>2, <1>3 DEF Debts
<1>4. CASE ServiceChanges
  <2>1. debts' = debts \cup {<<Services, Inventory>>, <<Services, Files>>}
    BY <1>4 DEF ServiceChanges
  <2>2. QED
    BY <1>1, <1>2, <2>1 DEF Debts, Services
<1>5. ASSUME NEW s \in Slot, Act(s) PROVE Debts'
  <2>1. s \in DOMAIN runner
    BY <1>5 DEF Act
  <2>2. OperationOf(s) \in 0 .. Len(journal')
    BY <1>1, <2>1, OperationOfRunner
  <2>3. debts' \subseteq debts \cup {<<OperationOf(s), Files>>, <<OperationOf(s), Inventory>>}
    BY <1>5 DEF Act
  <2>4. QED
    BY <1>2, <2>2, <2>3 DEF Debts
<1>6. ASSUME NEW s \in Slot, Publish(s) PROVE Debts'
  BY <1>2, <1>6 DEF Publish, Debts
<1>7. QED
  BY <1>3, <1>4, <1>5, <1>6, WhoChanges

LEMMA DryRightStep ==
  ASSUME Booked, DryRight, [RemovalsNext]_system
  PROVE  DryRight'
<1>0. Core
  BY DEF Booked
<1> SUFFICES ASSUME NEW s \in DOMAIN runner'
             PROVE  /\ runner'[s].at \notin {"reject", "return"} =>
                         runner'[s].dry = journal'[OperationOf(s)'].dry
                    /\ runner'[s].at \in {"scope", "advance"} => ~runner'[s].dry
  BY DEF DryRight
<1>1. OperationOf(s)' = OperationOf(s) /\ s \in DOMAIN execs /\ Ours(execs[s].key)
  BY <1>0, RunnerOperation
<1>2. /\ OperationOf(s) \in DOMAIN journal
      /\ \/ journal'[OperationOf(s)].dry = journal[OperationOf(s)].dry
         \/ Revalidate(s)
  BY <1>1, RowOfRun
<1>3. CASE s \in DOMAIN runner /\ runner'[s] = runner[s]
  <2>1. ~Revalidate(s)
    BY <1>3 DEF Revalidate
  <2>2. QED
    BY <1>1, <1>2, <1>3, <2>1 DEF DryRight
<1>4. CASE s \in Slot /\ Starts(s)
  <2>1. Revalidate(s) /\ s \notin DOMAIN runner
    BY <1>4 DEF Starts
  <2>2. PICK dry \in DryRunModes, at \in {"act", "reject"} :
          /\ runner' = Put(runner, s, [at |-> at, dry |-> dry, mutated |-> FALSE,
                                       uncertain |-> FALSE, errors |-> FALSE, failed |-> FALSE])
          /\ at = "act" => journal' = [journal EXCEPT ![OperationOf(s)].status = "started",
                                                      ![OperationOf(s)].dry = dry]
    BY <2>1 DEF Revalidate
  <2>3. runner'[s].at = at /\ runner'[s].dry = dry
    BY <2>2 DEF Put
  <2>4. CASE at = "act"
    <3>1. journal \in Seq(Row)
      BY <1>0 DEF Core, RemovalsTypeOK, Row
    <3>2. journal[OperationOf(s)] \in Row
      BY <1>2, <3>1
    <3>3. journal'[OperationOf(s)].dry = dry
      BY <1>2, <2>2, <2>4, <3>2 DEF Row
    <3>4. QED
      BY <1>1, <2>3, <2>4, <3>3
  <2>5. CASE at = "reject"
    BY <2>3, <2>5
  <2>6. QED
    BY <2>4, <2>5
<1>5. CASE Proceeds(s)
  <2>1. s \in DOMAIN runner /\ ~Revalidate(s)
    BY <1>5 DEF Proceeds, Revalidate
  <2>2. runner[s] \in Run
    BY <1>0, <2>1 DEF Core, RemovalsTypeOK, Run
  <2>3. runner'[s].dry = runner[s].dry
    BY <1>5, <2>2 DEF Proceeds, Run
  <2>4. \/ runner'[s].at = "return"
        \/ runner[s].at \in {"act", "scope", "advance"}
    <3>1. /\ Act(s) => runner[s].at = "act"
          /\ QueueScope(s) => runner[s].at = "scope"
          /\ AdvanceAfter(s) => runner[s].at = "advance"
      BY DEF Act, QueueScope, AdvanceAfter
    <3>2. QED
      BY <1>5, <2>2, <3>1 DEF Proceeds, Run
  <2>5. runner'[s].at \in {"scope", "advance"} => ~runner[s].dry
    <3>1. ASSUME Act(s), ~runner[s].dry PROVE ~runner[s].dry
      BY <3>1
    <3>2. QueueScope(s) => runner[s].at = "scope"
      BY DEF QueueScope
    <3>3. QED
      BY <1>5, <2>1, <2>2, <3>2 DEF Proceeds, Run, DryRight
  <2>6. QED
    BY <1>1, <1>2, <2>1, <2>3, <2>4, <2>5 DEF DryRight
<1>6. QED
  BY <1>0, <1>3, <1>4, <1>5, RunnerEffect

(* What is owed was owed before, or a runner has just acted. *)
LEMMA OwedBefore ==
  ASSUME Core, Debts, [RemovalsNext]_system, NEW i, Outstanding(i)'
  PROVE  \/ Outstanding(i)
         \/ \E s \in DOMAIN runner :
              /\ s \in Slot /\ Act(s) /\ OperationOf(s) = i
              /\ s \in DOMAIN runner' /\ runner'[s].at = "scope"
<1>1. /\ Len(journal) \in Nat /\ DOMAIN journal = 1 .. Len(journal) /\ DOMAIN journal' = 1 .. Len(journal')
      /\ Len(journal') \in Nat
  BY RowsGrow, RowsHaveKeys DEF Core
<1>2. i \in DOMAIN journal' /\ i # 0 /\ <<i, Files>> \in debts'
  BY <1>1 DEF Outstanding
<1>3. ASSUME <<i, Files>> \in debts PROVE Outstanding(i)
  <2>1. i \in 0 .. Len(journal)
    BY <1>3 DEF Debts
  <2>2. QED
    BY <1>1, <1>2, <1>3, <2>1 DEF Outstanding
<1>4. CASE ServiceChanges
  <2>1. debts' = debts \cup {<<Services, Inventory>>, <<Services, Files>>}
    BY <1>4 DEF ServiceChanges
  <2>2. QED
    BY <1>2, <1>3, <2>1 DEF Services
<1>5. ASSUME NEW s \in Slot, Act(s), <<i, Files>> \notin debts
      PROVE  /\ s \in DOMAIN runner /\ OperationOf(s) = i
             /\ s \in DOMAIN runner' /\ runner'[s].at = "scope"
  <2>1. s \in DOMAIN runner
    BY <1>5 DEF Act
  <2>2. runner[s] \in Run
    BY <2>1 DEF Core, RemovalsTypeOK, Run
  <2>3. PICK mutated, uncertain, errors \in BOOLEAN :
          /\ mutated \/ uncertain
          /\ runner' = [runner EXCEPT ![s] =
               [@ EXCEPT !.at = IF mutated \/ uncertain THEN "scope" ELSE "finalize",
                         !.mutated = mutated, !.uncertain = uncertain, !.errors = errors]]
          /\ debts' \subseteq debts \cup {<<OperationOf(s), Files>>, <<OperationOf(s), Inventory>>}
    BY <1>2, <1>5 DEF Act
  <2>4. OperationOf(s) = i
    BY <1>2, <1>5, <2>3
  <2>5. s \in DOMAIN runner' /\ runner'[s].at = "scope"
    BY <2>1, <2>2, <2>3 DEF Run
  <2>6. QED
    BY <2>1, <2>4, <2>5
<1>6. ASSUME NEW s \in Slot, Publish(s) PROVE debts' \subseteq debts
  BY <1>6 DEF Publish
<1>7. QED
  BY <1>2, <1>3, <1>4, <1>5, <1>6, WhoChanges

(* The next process finds in the journal that it has to restore the scope,  *)
(* or has found it.                                                         *)
Restores(i) ==
  /\ journal[i].status = "started" /\ ~journal[i].dry
  /\ \/ server.at = "starting"
     \/ server.at = "events" /\ (i \in server.todo \/ server.restore)

LEMMA RestoresStays ==
  ASSUME Booked, [RemovalsNext]_system, count'.faults = 0, NEW i \in DOMAIN journal, Restores(i)
  PROVE  Restores(i)' \/ server'.at = "scope"
<1>0. Core /\ ServerOK
  BY DEF Booked, Core, RemovalsTypeOK, ServerOK
<1>1. ~PersistFails
  BY <1>0, NoFaultStep
<1>2. /\ server.at \in {"starting", "events"}
      /\ DOMAIN runner = {} /\ \A c \in Caller : caller[c].at = "idle"
  BY <1>0 DEF Restores, Core, Orderly
<1>3. ASSUME InterruptStarted PROVE server'.at = "scope"
  <2>1. ~NotWritten
    BY <1>1 DEF NotWritten
  <2>2. server.todo = {} /\ server.at = "events"
        /\ server' = [server EXCEPT !.at = IF server.restore THEN "scope" ELSE "open"]
    BY <1>3, <2>1 DEF InterruptStarted
  <2>3. server.restore
    BY <2>2 DEF Restores
  <2>4. QED
    BY <1>0, <2>2, <2>3 DEF ServerOK
<1>4. CASE ~InterruptStarted
  <2>1. journal'[i] = journal[i]
    <3>1. ASSUME NEW s \in Slot PROVE ~Revalidate(s) /\ ~Reject(s) /\ ~Finalize(s)
      <4>1. ~Reject(s) /\ ~Finalize(s)
        BY <1>2 DEF Reject, Finalize
      <4>2. ASSUME Revalidate(s) PROVE FALSE
        <5>1. Alive /\ s \in DOMAIN execs
          BY <4>2 DEF Revalidate, Unlocked, RemovalRuns
        <5>2. QED
          BY <1>0, <1>2, <5>1 DEF Core, Orderly
      <4>3. QED
        BY <4>1, <4>2
    <3>2. \A b \in Browser : ~Refuse(b)
      BY <1>2 DEF Refuse, Caller
    <3>3. \A c \in Caller : ~Save(c)
      BY <1>2 DEF Save
    <3>4. RecoverEvent /\ RecoverScheduled => i # NextEvent
      BY DEF RecoverScheduled, Restores
    <3>5. ~Closes(i)
      BY <1>4, <3>1, <3>2, <3>4 DEF Closes
    <3>6. QED
      BY <1>0, <3>3, <3>5, JournalEffect
  <2>2. CASE server' = server
    BY <2>1, <2>2 DEF Restores
  <2>3. CASE Gone /\ Reset
    BY <2>1, <2>3 DEF Restores, Reset, Starting
  <2>4. CASE ReadJournal
    <3>1. i \in InFlight
      BY DEF InFlight, Restores
    <3>2. QED
      BY <2>1, <2>4, <3>1 DEF ReadJournal, Restores
  <2>5. CASE RecoverEvent
    <3>1. server.at = "events" /\ server.todo # {}
      BY <2>5 DEF RecoverEvent
    <3>2. NextEvent \in server.todo
      BY <1>0, <3>1, NextEventIsDue DEF Core
    <3>0. journal[NextEvent].dry \in BOOLEAN
      <4>1. journal \in Seq(Row)
        BY <1>0 DEF Core, RemovalsTypeOK, Row
      <4>2. NextEvent \in DOMAIN journal
        BY <1>0, <3>1, NextEventIsDue DEF Core
      <4>3. journal[NextEvent] \in Row
        BY <4>1, <4>2
      <4>4. QED
        BY <4>3 DEF Row
    <3>3. ASSUME NEW restore \in BOOLEAN, Handled(restore), i = NextEvent => restore
          PROVE  Restores(i)'
      <4>1. server' = [server EXCEPT !.todo = @ \ {NextEvent}, !.restore = @ \/ restore]
        BY <3>3 DEF Handled
      <4>2. server'.at = "events" /\ server'.todo = server.todo \ {NextEvent}
            /\ server'.restore = (server.restore \/ restore)
        BY <1>0, <3>1, <4>1 DEF ServerOK
      <4>3. i \in server.todo \/ server.restore
        BY <3>1 DEF Restores
      <4>4. QED
        BY <2>1, <3>3, <4>2, <4>3 DEF Restores
    <3>4. CASE RecoverStarted
      <4>1. Handled(~journal[NextEvent].dry)
        BY <3>4 DEF RecoverStarted
      <4>2. i = NextEvent => ~journal[NextEvent].dry
        BY DEF Restores
      <4>4. QED
        BY <3>0, <3>3, <4>1, <4>2
    <3>5. CASE RecoverScheduled
      <4>1. ~NotWritten
        BY <1>1 DEF NotWritten
      <4>2. journal[NextEvent].status = "queued" /\ \E restore \in BOOLEAN : Handled(restore)
        <5>1. Handled(FALSE) \/ Handled(~journal[NextEvent].dry)
          BY <3>5, <4>1 DEF RecoverScheduled
        <5>2. QED
          BY <3>0, <3>5, <5>1 DEF RecoverScheduled
      <4>3. i # NextEvent
        BY <4>2 DEF Restores
      <4>4. QED
        BY <3>3, <4>2, <4>3
    <3>6. CASE RecoverUnscheduled
      <4>1. journal[NextEvent].status = "queued" /\ Submit(RemovalRequest(NextEvent))
            /\ IF issued' # issued THEN Handled(FALSE) ELSE Fatal
        BY <3>6 DEF RecoverUnscheduled
      <4>2. NextEvent \in DOMAIN journal
        BY <1>0, <3>1, NextEventIsDue DEF Core
      <4>3. issued' # issued
        BY <1>0, <1>1, <4>1, <4>2, SubmissionEffect
      <4>4. i # NextEvent
        BY <4>1 DEF Restores
      <4>5. QED
        BY <3>3, <4>1, <4>3, <4>4
    <3>7. QED
      BY <2>5, <3>4, <3>5, <3>6 DEF RecoverEvent
  <2>6. ~RestoreScope /\ ~RestoreWorkflow
    BY <1>2 DEF RestoreScope, RestoreWorkflow
  <2>7. QED
    BY <1>0, <1>4, <2>2, <2>3, <2>4, <2>5, <2>6, WhoChanges DEF ServerStarts
<1>5. QED
  BY <1>3, <1>4

(* A runner that has acted records the scope and then advances the          *)
(* workflow.  If it is lost before that, its row says that it had started.  *)
LEMMA OnItsWay ==
  ASSUME Carried, DryRight, [RemovalsNext]_system, count'.faults = 0,
         NEW s \in DOMAIN runner, runner[s].at \in {"scope", "advance"},
         NEW i, i = OperationOf(s)
  PROVE  \/ Restores(i)'
         \/ /\ s \in DOMAIN runner' /\ OperationOf(s)' = i
            /\ runner'[s].at = runner[s].at
         \/ /\ s \in DOMAIN runner' /\ OperationOf(s)' = i
            /\ runner'[s].at = "advance" /\ i \in scope'.named
         \/ runner[s].at = "advance" /\ Afoot'
<1>0. Booked /\ Core /\ Announced
  BY DEF Carried, Booked
<1>1. CASE Gone /\ Reset
  <2>1. journal[OperationOf(s)].status = "started"
    BY <1>0 DEF Announced
  <2>2. ~journal[OperationOf(s)].dry
    BY DEF DryRight
  <2>3. server'.at = "starting" /\ journal' = journal
    BY <1>1 DEF Reset, Starting
  <2>4. QED
    BY <2>1, <2>2, <2>3 DEF Restores
<1>2. CASE s \in DOMAIN runner'
  <2>1. OperationOf(s)' = OperationOf(s)
    BY <1>0, <1>2, RunnerOperation
  <2>2. runner[s] \in Run
    BY <1>0 DEF Core, RemovalsTypeOK, Run
  <2>3. ~PersistFails
    BY <1>0, NoFaultStep
  <2>4. CASE runner'[s] = runner[s]
    BY <1>2, <2>1, <2>4
  <2>5. CASE QueueScope(s)
    <3>1. ~NotWritten
      BY <2>3 DEF NotWritten
    <3>2. /\ scope' = [full |-> scope.full \/ runner[s].uncertain,
                       named |-> scope.named \cup {OperationOf(s)}]
          /\ runner' = [runner EXCEPT ![s].at = "advance"]
      BY <2>5, <3>1 DEF QueueScope, Step
    <3>3. runner'[s].at = "advance" /\ OperationOf(s) \in scope'.named
      BY <2>2, <3>2 DEF Run
    <3>4. QED
      BY <1>2, <2>1, <3>3
  <2>6. CASE AdvanceAfter(s)
    <3>1. disk' = PersistenceView' /\ workflow'.state = "pending" /\ runner[s].at = "advance"
      BY <2>3, <2>6, AdvanceGoesOn DEF AdvanceAfter
    <3>2. PersistenceView'.workflow = workflow'
      BY DEF PersistenceView
    <3>3. Afoot'
      BY <3>1, <3>2 DEF Afoot, Under
    <3>4. QED
      BY <3>1, <3>3
  <2>7. ~Starts(s) /\ ~Reject(s) /\ ~Act(s) /\ ~Finalize(s)
    BY DEF Starts, Reject, Act, Finalize
  <2>8. QED
    BY <1>0, <1>2, <2>4, <2>5, <2>6, <2>7, RunnerEffect DEF Proceeds
<1>3. CASE s \notin DOMAIN runner'
  <2>1. ~Return(s)
    BY DEF Return
  <2>2. QED
    BY <1>0, <1>1, <1>3, <2>1, RunnerEffect DEF Leaves
<1>4. QED
  BY <1>2, <1>3

(* What survives says so: the scope names the operation, and the workflow   *)
(* is not finished; or a runner or the start of the process is about to     *)
(* see to it.                                                               *)
Names(i) ==
  \/ scope.full \/ i \in scope.named \/ RunnerAt(i, {"scope"})
  \/ Restores(i) \/ server.at = "scope"
Awaits(i) ==
  \/ Afoot \/ RunnerAt(i, {"scope", "advance"})
  \/ Restores(i) \/ server.at \in {"scope", "advance"}

(* A file reconciliation that runs has come to all that is owed. *)
ReadAll(i) ==
  \A s \in DOMAIN scan : TaskOf[execs[s].key] = Files =>
    scan[s].at = "work" /\ <<i, Files>> \in scan[s].reads

Tracked == \A i \in DOMAIN journal : Outstanding(i) => Names(i) /\ Awaits(i) /\ ReadAll(i)
Indebted == Debts /\ DryRight /\ (count.faults = 0 => Tracked)

(* The process does not die between closing the rows of the process before  *)
(* it and advancing the workflow for them.                                  *)
RestoresUndisturbed ==
  server.at \in {"scope", "advance"} => phase' \notin {"down", "panicked"}

(* What is published is no longer owed. *)
LEMMA PublishedIsPaid ==
  ASSUME Core, NEW i \in DOMAIN journal, Outstanding(i) => ReadAll(i), NEW s, Publish(s)
  PROVE  TaskOf[execs[s].key] = Files => <<i, Files>> \notin debts'
<1>1. SUFFICES ASSUME TaskOf[execs[s].key] = Files, <<i, Files>> \in debts' PROVE FALSE
  OBVIOUS
<1>2. s \in DOMAIN scan /\ debts' = debts \ scan[s].reads
  BY DEF Publish
<1>3. <<i, Files>> \in debts /\ <<i, Files>> \notin scan[s].reads
  BY <1>1, <1>2
<1>4. QED
  BY <1>1, <1>2, <1>3 DEF ReadAll, Outstanding

(* The start that restores the scope and the workflow carries on. *)
LEMMA RestoringGoesOn ==
  ASSUME Carried, [RemovalsNext]_system, [RestoresUndisturbed]_system, count'.faults = 0,
         server.at \in {"scope", "advance"}
  PROVE  \/ server' = server /\ ~RestoreScope
         \/ server.at = "scope" /\ server'.at = "advance" /\ scope'.full
         \/ server.at = "advance" /\ Afoot'
<1>0. Core /\ ServerOK
  BY DEF Carried, Booked, Core, RemovalsTypeOK, ServerOK
<1>1. ~PersistFails /\ ~NotWritten
  BY <1>0, NoFaultStep DEF NotWritten
<1>2. CASE Gone /\ Reset
  <2>1. phase' \in {"down", "panicked"}
    BY <1>2 DEF Gone
  <2>2. UNCHANGED system
    BY <2>1 DEF RestoresUndisturbed
  <2>3. ~Alive
    BY <2>1, <2>2 DEF Alive, system, vars
  <2>4. QED
    BY <1>0, <2>3 DEF Core, Orderly, Starting
<1>3. CASE RestoreScope
  <2>1. server.at = "scope" /\ scope' = [scope EXCEPT !.full = TRUE]
        /\ server' = [server EXCEPT !.at = "advance"]
    BY <1>1, <1>3 DEF RestoreScope
  <2>2. scope'.full /\ server'.at = "advance"
    BY <1>0, <2>1 DEF ServerOK, Core, RemovalsTypeOK
  <2>3. QED
    BY <2>1, <2>2
<1>4. CASE RestoreWorkflow
  <2>1. disk' = PersistenceView' /\ workflow'.state = "pending" /\ server.at = "advance"
    BY <1>1, <1>4, AdvanceGoesOn DEF RestoreWorkflow
  <2>2. PersistenceView'.workflow = workflow'
    BY DEF PersistenceView
  <2>3. QED
    BY <2>1, <2>2 DEF Afoot, Under
<1>5. ~ReadJournal /\ ~RecoverEvent /\ ~InterruptStarted
  BY DEF ReadJournal, RecoverEvent, InterruptStarted
<1>6. QED
  BY <1>0, <1>2, <1>3, <1>4, <1>5, WhoChanges DEF ServerStarts

LEMMA NamesStep ==
  ASSUME Carried, DryRight, [RemovalsNext]_system, [RestoresUndisturbed]_system, count'.faults = 0,
         NEW i \in DOMAIN journal, <<i, Files>> \in debts', Outstanding(i), Names(i), ReadAll(i)
  PROVE  Names(i)'
<1>0. Booked /\ Core
  BY DEF Carried, Booked
<1>1. ~NotWritten
  BY <1>0, NoFaultStep DEF NotWritten
<1>2. CASE scope.full \/ i \in scope.named
  <2>1. CASE scope' = scope
    BY <1>2, <2>1 DEF Names
  <2>2. CASE RestoreScope
    <3>1. scope' = [scope EXCEPT !.full = TRUE]
      BY <1>1, <2>2 DEF RestoreScope
    <3>2. scope'.full
      BY <1>0, <3>1 DEF Core, RemovalsTypeOK
    <3>3. QED
      BY <3>2 DEF Names
  <2>3. ASSUME NEW s \in Slot, QueueScope(s) PROVE Names(i)'
    <3>1. scope' = [full |-> scope.full \/ runner[s].uncertain,
                    named |-> scope.named \cup {OperationOf(s)}]
      BY <1>1, <2>3 DEF QueueScope
    <3>2. scope'.full \/ i \in scope'.named
      BY <1>2, <3>1
    <3>3. QED
      BY <3>2 DEF Names
  <2>4. ASSUME NEW s \in Slot, Publish(s) PROVE Names(i)'
    <3>1. TaskOf[execs[s].key] # Files
      BY <1>0, <2>4, PublishedIsPaid
    <3>2. scope' = scope
      BY <2>4, <3>1 DEF Publish, Exact
    <3>3. QED
      BY <1>2, <3>2 DEF Names
  <2>5. ASSUME NEW s \in Slot, ClearScope(s) PROVE FALSE
    BY <2>5 DEF ClearScope, ReadAll
  <2>6. QED
    BY <1>0, <2>1, <2>2, <2>3, <2>4, <2>5, WhoChanges
<1>3. CASE RunnerAt(i, {"scope"})
  <2>1. PICK s \in DOMAIN runner : OperationOf(s) = i /\ runner[s].at = "scope"
    BY <1>3 DEF RunnerAt
  <2>2. \/ Restores(i)'
        \/ s \in DOMAIN runner' /\ OperationOf(s)' = i /\ runner'[s].at = "scope"
        \/ i \in scope'.named
    BY <2>1, OnItsWay
  <2>3. (s \in DOMAIN runner' /\ OperationOf(s)' = i /\ runner'[s].at = "scope") => RunnerAt(i, {"scope"})'
    BY DEF RunnerAt
  <2>4. QED
    BY <2>2, <2>3 DEF Names
<1>4. CASE Restores(i)
  BY <1>0, <1>4, RestoresStays DEF Names
<1>5. CASE server.at = "scope"
  BY <1>5, RestoringGoesOn DEF Names
<1>6. QED
  BY <1>2, <1>3, <1>4, <1>5 DEF Names

LEMMA AwaitsStep ==
  ASSUME Carried, DryRight, [RemovalsNext]_system, [RestoresUndisturbed]_system, count'.faults = 0,
         NEW i \in DOMAIN journal, <<i, Files>> \in debts', Outstanding(i), Awaits(i), ReadAll(i)
  PROVE  Awaits(i)'
<1>0. Booked /\ Core
  BY DEF Carried, Booked
<1>1. CASE Afoot
  <2>1. ASSUME NEW s, Reconciles(s) PROVE FALSE
    BY <2>1 DEF Reconciles, ReadAll
  <2>2. Afoot'
    BY <1>0, <1>1, <2>1, WorkflowStep, AfootStays
  <2>3. QED
    BY <2>2 DEF Awaits
<1>2. CASE RunnerAt(i, {"scope", "advance"})
  <2>1. PICK s \in DOMAIN runner : OperationOf(s) = i /\ runner[s].at \in {"scope", "advance"}
    BY <1>2 DEF RunnerAt
  <2>2. \/ Restores(i)' \/ Afoot'
        \/ s \in DOMAIN runner' /\ OperationOf(s)' = i /\ runner'[s].at \in {"scope", "advance"}
    BY <2>1, OnItsWay
  <2>3. (s \in DOMAIN runner' /\ OperationOf(s)' = i /\ runner'[s].at \in {"scope", "advance"})
          => RunnerAt(i, {"scope", "advance"})'
    BY DEF RunnerAt
  <2>4. QED
    BY <2>2, <2>3 DEF Awaits
<1>3. CASE Restores(i)
  BY <1>0, <1>3, RestoresStays DEF Awaits
<1>4. CASE server.at \in {"scope", "advance"}
  BY <1>4, RestoringGoesOn DEF Awaits
<1>5. QED
  BY <1>1, <1>2, <1>3, <1>4 DEF Awaits

LEMMA ReadAllStep ==
  ASSUME Carried, [RemovalsNext]_system, NEW i \in DOMAIN journal, <<i, Files>> \in debts',
         Outstanding(i), Names(i), ReadAll(i)
  PROVE  ReadAll(i)'
<1>0. Core
  BY DEF Carried, Booked
<1> SUFFICES ASSUME NEW s \in DOMAIN scan', TaskOf[execs'[s].key] = Files
             PROVE  scan'[s].at = "work" /\ <<i, Files>> \in scan'[s].reads
  BY DEF ReadAll
<1>1. s \in DOMAIN execs /\ execs'[s].key = execs[s].key
  <2>1. CASE Gone /\ Reset
    BY <2>1 DEF Reset, EmptyMap
  <2>2. CASE Loaded /\ UNCHANGED domain
    <3>1. ~Alive
      BY <2>2 DEF Loaded, Alive
    <3>2. DOMAIN scan = {} /\ scan' = scan
      BY <1>0, <2>2, <3>1 DEF Core, Orderly, Starting, domain
    <3>3. QED
      BY <3>2
  <2>3. CASE Attended
    BY <2>3 DEF Attended
  <2>4. QED
    BY <1>0, <2>1, <2>2, <2>3, StepEffect
<1>2. TaskOf[execs[s].key] = Files
  BY <1>1
<1>3. CASE s \in DOMAIN scan /\ scan'[s] = scan[s]
  BY <1>2, <1>3 DEF ReadAll
<1>4. CASE s \in Slot /\ BeginScan(s)
  <2>1. server.at = "open"
    BY <1>0, <1>4, ServerOpen DEF Scanning
  <2>2. DOMAIN runner = {}
    BY <1>0, <1>1, <1>2, RemovalsRunAlone
  <2>3. scope.full \/ i \in scope.named
    BY <2>1, <2>2 DEF Names, RunnerAt, Restores
  <2>4. PICK full \in BOOLEAN :
          /\ full \/ (execs[s].targeted /\ ScopeIsExact)
          /\ scan' = Put(scan, s, [reads |-> Read(Files, full), full |-> full, at |-> "work"])
    BY <1>2, <1>4 DEF BeginScan
  <2>5. full \/ i \in scope.named
    BY <2>3, <2>4 DEF ScopeIsExact
  <2>6. <<i, Files>> \in Read(Files, full)
    BY <2>5 DEF Read, Outstanding
  <2>7. QED
    BY <2>4, <2>6 DEF Put
<1>5. CASE s \in Slot /\ Publish(s)
  BY <1>0, <1>2, <1>5, PublishedIsPaid
<1>6. ~ClearScope(s)
  BY DEF ClearScope, ReadAll
<1>7. QED
  BY <1>0, <1>3, <1>4, <1>5, <1>6, ScanEffect

LEMMA ActionTracked ==
  ASSUME Carried, [RemovalsNext]_system, NEW i, NEW s \in DOMAIN runner, Act(s), OperationOf(s) = i,
         s \in DOMAIN runner', runner'[s].at = "scope"
  PROVE  Names(i)' /\ Awaits(i)' /\ ReadAll(i)'
<1>0. Core
  BY DEF Carried, Booked
<1>1. OperationOf(s)' = i
  BY <1>0, RunnerOperation
<1>2. RunnerAt(i, {"scope"})' /\ RunnerAt(i, {"scope", "advance"})'
  BY <1>1 DEF RunnerAt
<1>3. ASSUME NEW u \in DOMAIN scan', TaskOf[execs'[u].key] = Files PROVE FALSE
  <2>1. scan' = scan /\ execs' = execs
    BY DEF Act, vars, manager
  <2>2. u \in DOMAIN execs
    BY <1>0, <1>3, <2>1 DEF Core, RemovalsTypeOK, Scans
  <2>3. QED
    BY <1>0, <1>3, <2>1, <2>2, RemovalsRunAlone
<1>4. ReadAll(i)'
  BY <1>3 DEF ReadAll
<1>5. QED
  BY <1>2, <1>4 DEF Names, Awaits

LEMMA IndebtedStep ==
  ASSUME Carried, Indebted, [RemovalsNext]_system, [RestoresUndisturbed]_system
  PROVE  Indebted'
<1>0. Booked /\ Core
  BY DEF Carried, Booked
<1>1. Debts' /\ DryRight'
  BY <1>0, DebtsStep, DryRightStep DEF Indebted
<1>2. ASSUME count'.faults = 0, NEW i \in DOMAIN journal', Outstanding(i)'
      PROVE  Names(i)' /\ Awaits(i)' /\ ReadAll(i)'
  <2>1. Tracked
    BY <1>0, <1>2, NoFaultStep DEF Indebted
  <2>2. CASE Outstanding(i)
    <3>1. i \in DOMAIN journal /\ <<i, Files>> \in debts' /\ Names(i) /\ Awaits(i) /\ ReadAll(i)
      BY <1>2, <2>1, <2>2 DEF Outstanding, Tracked
    <3>2. DryRight
      BY DEF Indebted
    <3>3. QED
      BY <1>2, <2>2, <3>1, <3>2, NamesStep, AwaitsStep, ReadAllStep
  <2>3. CASE \E s \in DOMAIN runner :
               /\ s \in Slot /\ Act(s) /\ OperationOf(s) = i
               /\ s \in DOMAIN runner' /\ runner'[s].at = "scope"
    BY <2>3, ActionTracked
  <2>4. QED
    BY <1>0, <1>2, <2>2, <2>3, OwedBefore DEF Indebted
<1>3. count'.faults = 0 => Tracked'
  BY <1>2 DEF Tracked
<1>4. QED
  BY <1>1, <1>3 DEF Indebted

LEMMA IndebtedInit == RemovalsInit => Indebted
<1> SUFFICES ASSUME RemovalsInit PROVE Indebted
  OBVIOUS
<1>1. journal = <<>> /\ debts = {} /\ DOMAIN runner = {}
  BY DEF RemovalsInit, EmptyMap
<1>2. Debts
  BY <1>1 DEF Debts
<1>3. DryRight /\ Tracked
  BY <1>1 DEF DryRight, Tracked
<1>4. QED
  BY <1>2, <1>3 DEF Indebted

(* A targeted reconciliation never misses a mutation: an exact scope names  *)
(* every operation that changed files and has not been read back, whatever  *)
(* is added to the scope while a reconciliation runs and whatever dies - as *)
(* long as every write succeeds and the process does not die a second time  *)
(* while it restores the scope (scheduled_removal.go:82-92, after it has    *)
(* closed the rows).                                                        *)
THEOREM ExactScopesCover ==
  RemovalsSpec /\ [][RestoresUndisturbed]_system => [](count.faults = 0 => ScopeCovers)
<1>1. Carried /\ Indebted /\ [RemovalsNext]_system /\ [RestoresUndisturbed]_system => Indebted'
  BY IndebtedStep
<1>2. Indebted => (count.faults = 0 => ScopeCovers)
  <2> SUFFICES ASSUME Tracked, Serving, ScopeIsExact, NEW i \in DOMAIN journal, <<i, Files>> \in debts
               PROVE  i \in scope.named \/ RunnerAt(i, {"scope"})
    BY DEF Indebted, ScopeCovers
  <2>1. Names(i)
    BY DEF Tracked, Outstanding
  <2>2. ~scope.full /\ server.at = "open"
    BY DEF ScopeIsExact, Serving
  <2>3. QED
    BY <2>1, <2>2 DEF Names, Restores
<1>3. QED
  BY <1>1, <1>2, IndebtedInit, AlwaysCarried, PTL DEF RemovalsSpec

(* When the workflow is finished, or there is none, nothing that a removal  *)
(* changed is still to be read, but by a runner that is about to advance    *)
(* the workflow - under the same conditions.                                *)
THEOREM FinishedMeansReconciled ==
  RemovalsSpec /\ [][RestoresUndisturbed]_system => [](count.faults = 0 => MutationsReconciled)
<1>1. Carried /\ Indebted /\ [RemovalsNext]_system /\ [RestoresUndisturbed]_system => Indebted'
  BY IndebtedStep
<1>2. Indebted => (count.faults = 0 => MutationsReconciled)
  <2> SUFFICES ASSUME Tracked, Serving, workflow.state \in {"absent", "succeeded"},
                      NEW i \in DOMAIN journal, <<i, Files>> \in debts
               PROVE  RunnerAt(i, {"scope", "advance"})
    BY DEF Indebted, MutationsReconciled
  <2>1. Awaits(i)
    BY DEF Tracked, Outstanding
  <2>2. ~Afoot /\ server.at = "open"
    BY DEF Afoot, Under, Serving, Alive, Dead
  <2>3. QED
    BY <2>1, <2>2 DEF Awaits, Restores
<1>3. QED
  BY <1>1, <1>2, IndebtedInit, AlwaysCarried, PTL DEF RemovalsSpec
=============================================================================
