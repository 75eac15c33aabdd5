--------------------------- MODULE SchedulerProofs ---------------------------
(***************************************************************************)
(* Proofs about the scheduler, for every set of tasks, keys, claims,       *)
(* requests and for every bound.                                           *)
(*                                                                         *)
(*   1. The maps the manager keeps stay well formed under the operators    *)
(*      that build them.                                                   *)
(*   2. TypeOK is an inductive invariant.                                  *)
(*   3. The resource table always says exactly what the active executions  *)
(*      claim; from that, conflicting claims never overlap.                *)
(*   4. The scheduler implements Arbiter.                                  *)
(***************************************************************************)
EXTENDS Scheduler, FiniteSetTheorems, SequenceTheorems, WellFoundedInduction, TLAPS

-----------------------------------------------------------------------------
(* 1. Maps *)

(* Adding or replacing one entry of a map. *)
LEMMA PutFinite ==
  ASSUME NEW f, IsFiniteSet(DOMAIN f), NEW x, NEW v
  PROVE  IsFiniteSet(DOMAIN Put(f, x, v))
<1>1. DOMAIN Put(f, x, v) = DOMAIN f \cup {x}
  BY DEF Put
<1>2. QED
  BY <1>1, FS_AddElement

LEMMA PutPending ==
  ASSUME NEW map, PendingOK(map), NEW k \in Key, NEW v \in Intent
  PROVE  PendingOK(Put(map, k, v))
<1>1. /\ DOMAIN Put(map, k, v) = DOMAIN map \cup {k}
      /\ Put(map, k, v) \in [DOMAIN Put(map, k, v) -> Intent]
  BY DEF PendingOK, Put
<1>2. IsFiniteSet(DOMAIN Put(map, k, v))
  BY PutFinite DEF PendingOK
<1>3. QED
  BY <1>1, <1>2 DEF PendingOK

LEMMA PutExecs ==
  ASSUME NEW map, ExecsOK(map), NEW s \in Slot, NEW v \in Execution
  PROVE  ExecsOK(Put(map, s, v))
<1>1. /\ DOMAIN Put(map, s, v) = DOMAIN map \cup {s}
      /\ Put(map, s, v) \in [DOMAIN Put(map, s, v) -> Execution]
  BY DEF ExecsOK, Put
<1>2. IsFiniteSet(DOMAIN Put(map, s, v))
  BY PutFinite DEF ExecsOK
<1>3. QED
  BY <1>1, <1>2 DEF ExecsOK

(* A map with fewer entries. *)
LEMMA RestrictPending ==
  ASSUME NEW map, PendingOK(map), NEW D, D \subseteq DOMAIN map
  PROVE  PendingOK(Restrict(map, D))
<1>1. DOMAIN Restrict(map, D) = D
  BY DEF Restrict
<1>2. IsFiniteSet(D)
  BY FS_Subset DEF PendingOK
<1>3. QED
  BY <1>1, <1>2 DEF PendingOK, Restrict

LEMMA WithoutExecs ==
  ASSUME NEW map, ExecsOK(map), NEW s
  PROVE  /\ ExecsOK(Without(map, s))
         /\ DOMAIN Without(map, s) = DOMAIN map \ {s}
<1>1. DOMAIN Without(map, s) = DOMAIN map \ {s}
  BY DEF Without, Restrict
<1>2. IsFiniteSet(DOMAIN map \ {s})
  BY FS_Subset DEF ExecsOK
<1>3. QED
  BY <1>1, <1>2 DEF ExecsOK, Without, Restrict

LEMMA RestrictTriggers ==
  ASSUME NEW trg, NEW n, TriggersOK(trg, n), NEW D, D \subseteq DOMAIN trg
  PROVE  TriggersOK(Restrict(trg, D), n)
BY DEF TriggersOK, Restrict

LEMMA PutTriggers ==
  ASSUME NEW trg, NEW n \in Nat, TriggersOK(trg, n), NEW v \in Trigger
  PROVE  TriggersOK(Put(trg, n + 1, v), n + 1)
<1>1. 1 .. n \subseteq 1 .. (n + 1) /\ n + 1 \in 1 .. (n + 1)
  OBVIOUS
<1>2. QED
  BY <1>1 DEF TriggersOK, Put

LEMMA EmptyMaps ==
  /\ \A n : TriggersOK(EmptyMap, n)
  /\ PendingOK(EmptyMap)
  /\ ExecsOK(EmptyMap)
  /\ WorkflowOK(NoWorkflow)
<1>1. DOMAIN EmptyMap = {} /\ \A S : EmptyMap \in [{} -> S]
  BY DEF EmptyMap
<1>2. IsFiniteSet({})
  BY FS_EmptySet
<1>3. Len(Steps) \in Nat
  BY SchedulerAssumption, LenProperties
<1>4. WorkflowOK(NoWorkflow)
  BY <1>3 DEF WorkflowOK, NoWorkflow, Workflow
<1>5. QED
  BY <1>1, <1>2, <1>4 DEF TriggersOK, PendingOK, ExecsOK

(* Changing the state of some triggers. *)
LEMMA MarkedTriggers ==
  ASSUME NEW n, TriggersOK(triggers, n), NEW ids, NEW state \in TriggerState
  PROVE  TriggersOK(Marked(ids, state), n) /\ DOMAIN Marked(ids, state) = DOMAIN triggers
BY DEF TriggersOK, Marked, Trigger

(* A set of numbers has a smallest element, and a largest if it is bounded; *)
(* a function on a finite set is bounded.                                   *)
LEMMA SmallestOf ==
  ASSUME NEW S \in SUBSET Nat, S # {}
  PROVE  \E m \in S : \A i \in S : m <= i
<1> DEFINE R == OpToRel(<, Nat)
<1>1. IsWellFoundedOn(R, Nat)
  BY NatLessThanWellFounded
<1>2. \A i, j \in Nat : <<i, j>> \in R <=> i < j
  BY DEF OpToRel
<1> HIDE DEF R
<1>3. PICK m \in S : \A i \in S : ~(<<i, m>> \in R)
  BY <1>1, WFMin
<1>4. ASSUME NEW i \in S
      PROVE  m <= i
  <2>1. ~(<<i, m>> \in R)
    BY <1>3
  <2>2. ~(i < m)
    BY <1>2, <2>1
  <2>3. QED
    BY <2>2
<1>5. QED
  BY <1>4

LEMMA LargestOf ==
  ASSUME NEW S \in SUBSET Nat, S # {}, NEW n \in Nat, \A i \in S : i <= n
  PROVE  \E m \in S : \A i \in S : i <= m
<1> DEFINE B == {b \in Nat : \A i \in S : i <= b}
<1>1. B \in SUBSET Nat /\ n \in B
  OBVIOUS
<1>2. PICK b \in B : \A c \in B : b <= c
  BY <1>1, SmallestOf
<1>3. b \in S
  <2>1. SUFFICES ASSUME b \notin S PROVE FALSE
    OBVIOUS
  <2>2. PICK i \in S : TRUE
    OBVIOUS
  <2>3. b # 0
    BY <2>1, <2>2
  <2>4. b - 1 \in Nat /\ \A j \in S : j <= b - 1
    BY <2>1, <2>3
  <2>5. QED
    BY <1>2, <2>4
<1>4. QED
  BY <1>3

LEMMA BoundOf ==
  ASSUME NEW D, IsFiniteSet(D), NEW g \in [D -> Nat]
  PROVE  \E b \in Nat : \A x \in D : g[x] <= b
<1>1. PICK n \in Nat : ExistsSurjection(1 .. n, D)
  BY FS_NatSurjection
<1>2. PICK f \in Surjection(1 .. n, D) : TRUE
  BY <1>1 DEF ExistsSurjection
<1>3. f \in [1 .. n -> D] /\ \A x \in D : \E i \in 1 .. n : f[i] = x
  BY <1>2 DEF Surjection
<1>4. PICK h : h \in [1 .. n -> Nat] /\ \A x \in D : \E i \in 1 .. n : h[i] = g[x]
  <2> DEFINE h == [i \in 1 .. n |-> g[f[i]]]
  <2>1. h \in [1 .. n -> Nat] /\ \A x \in D : \E i \in 1 .. n : h[i] = g[x]
    BY <1>3
  <2>2. QED
    BY <2>1
<1> DEFINE Bounds(m, b) == \A i \in 1 .. n : i <= m => h[i] <= b
           Over == {m \in 0 .. n : \A b \in Nat : ~Bounds(m, b)}
<1>5. Over = {}
  <2>1. SUFFICES ASSUME Over # {} PROVE FALSE
    OBVIOUS
  <2>2. Over \in SUBSET Nat
    OBVIOUS
  <2>3. PICK m \in Over : \A k \in Over : m <= k
    BY <2>1, <2>2, SmallestOf
  <2>4. m \in 0 .. n /\ \A b \in Nat : ~Bounds(m, b)
    OBVIOUS
  <2>5. Bounds(0, 0)
    OBVIOUS
  <2>6. m # 0
    BY <2>4, <2>5
  <2>7. \E b \in Nat : Bounds(m - 1, b)
    <3> HIDE DEF Bounds
    <3>1. m - 1 \in 0 .. n /\ ~(m <= m - 1)
      BY <2>4, <2>6
    <3>2. m - 1 \notin Over
      <4> HIDE DEF Over
      <4>1. QED
        BY <2>3, <3>1
    <3>3. QED
      BY <3>1, <3>2
  <2>8. PICK b \in Nat : Bounds(m - 1, b)
    BY <2>7
  <2>9. h[m] \in Nat
    <3>1. m \in 1 .. n
      BY <2>4, <2>6
    <3>2. QED
      BY <1>4, <3>1
  <2>10. \E top \in Nat : b <= top /\ h[m] <= top
    <3>1. \A x, y \in Nat : (x <= x /\ y <= x) \/ (x <= y /\ y <= y)
      OBVIOUS
    <3>2. QED
      BY <2>9, <3>1
  <2>11. PICK top \in Nat : b <= top /\ h[m] <= top
    BY <2>10
  <2>12. Bounds(m, top)
    <3>1. SUFFICES ASSUME NEW i \in 1 .. n, i <= m PROVE h[i] <= top
      OBVIOUS
    <3>2. i = m \/ i <= m - 1
      BY <2>4, <3>1
    <3>3. CASE i = m
      BY <2>11, <3>3
    <3>4. CASE i <= m - 1
      <4>1. h[i] \in Nat /\ h[i] <= b
        BY <1>4, <2>8, <3>4
      <4>2. \A x, y, z \in Nat : x <= y /\ y <= z => x <= z
        OBVIOUS
      <4>3. QED
        BY <2>11, <4>1, <4>2
    <3>5. QED
      BY <3>2, <3>3, <3>4
  <2>13. QED
    BY <2>4, <2>12
<1>6. n \notin Over
  <2> HIDE DEF Over
  <2>1. QED
    BY <1>5
<1>7. \E b \in Nat : Bounds(n, b)
  <2> HIDE DEF Bounds
  <2>1. n \in 0 .. n
    OBVIOUS
  <2>2. QED
    BY <1>6, <2>1
<1>8. PICK b \in Nat : \A i \in 1 .. n : h[i] <= b
  <2>1. \A i \in 1 .. n : i <= n
    OBVIOUS
  <2>2. QED
    BY <1>7, <2>1
<1>9. QED
  BY <1>4, <1>8

LEMMA NewIntentType ==
  ASSUME PendingOK(pending), NEW p \in Priority, NEW c \in Nat, NEW a \in 1 .. MaxAttempts,
         NEW d \in BOOLEAN
  PROVE  NewIntent(p, c, a, d) \in Intent
<1> DEFINE orders == {0} \cup {pending[k].order : k \in DOMAIN pending}
<1>1. orders \in SUBSET Nat /\ orders # {}
  BY DEF PendingOK, Intent
<1>2. \E b \in Nat : \A k \in DOMAIN pending : pending[k].order <= b
  <2> DEFINE g == [k \in DOMAIN pending |-> pending[k].order]
  <2>1. g \in [DOMAIN pending -> Nat] /\ IsFiniteSet(DOMAIN pending)
    BY DEF PendingOK, Intent
  <2> HIDE DEF g
  <2>2. \E b \in Nat : \A k \in DOMAIN pending : g[k] <= b
    BY <2>1, BoundOf
  <2>3. QED
    BY <2>2 DEF g
<1>3. \E last \in orders : \A n \in orders : n <= last
  <2>1. PICK b \in Nat : \A n \in orders : n <= b
    BY <1>2
  <2>2. QED
    BY <1>1, <2>1, LargestOf
<1>4. LastOrder = CHOOSE last \in orders : \A n \in orders : n <= last
  BY DEF LastOrder
<1> HIDE DEF orders
<1>5. LastOrder \in orders
  BY <1>3, <1>4
<1>6. LastOrder + 1 \in Nat
  BY <1>1, <1>5
<1>7. QED
  BY <1>6 DEF NewIntent, Intent

LEMMA LargerType ==
  /\ \A a, b \in Nat : Larger(a, b) \in Nat
  /\ \A a, b \in Priority : Larger(a, b) \in Priority
  /\ \A a, b \in 1 .. MaxAttempts : Larger(a, b) \in 1 .. MaxAttempts
BY DEF Larger

LEMMA DequeuePending ==
  ASSUME PendingOK(pending), NEW k \in DOMAIN pending
  PROVE  PendingOK(Dequeue(k))
<1>1. DOMAIN Dequeue(k) = DOMAIN pending \ {k}
  BY DEF Dequeue
<1>2. IsFiniteSet(DOMAIN pending \ {k})
  BY FS_Subset DEF PendingOK
<1>3. ASSUME NEW j \in DOMAIN pending \ {k}
      PROVE  Dequeue(k)[j] \in Intent
  <2>1. pending[j] \in Intent /\ pending[k] \in Intent
    BY DEF PendingOK
  <2>2. pending[j].order > pending[k].order => pending[j].order - 1 \in Nat
    BY <2>1 DEF Intent
  <2>3. QED
    BY <2>1, <2>2 DEF Dequeue, Intent
<1>4. QED
  BY <1>1, <1>2, <1>3 DEF PendingOK, Dequeue

LEMMA CoalesceType ==
  ASSUME NEW i \in Intent, NEW t \in Nat, NEW r \in Request
  PROVE  Coalesce(i, t, r) \in Intent
<1>1. /\ i.triggers \cup {t} \in SUBSET Nat
      /\ Larger(i.priority, r.priority) \in Priority
      /\ Larger(i.coverage, r.coverage) \in Nat
  BY LargerType DEF Intent, Request
<1>2. QED
  BY <1>1 DEF Coalesce, Intent

(* submitLocked keeps every map well formed, whichever branch it takes. *)
LEMMA SubmitLockedType ==
  ASSUME TypeOK, NEW r \in Request, SubmitLocked(r)
  PROVE  /\ issued' = issued + 1 /\ issued' \in Nat
         /\ TriggersOK(triggers', issued')
         /\ PendingOK(pending') /\ ExecsOK(execs')
<1> USE DEF TypeOK
<1>1. issued' = issued + 1 /\ issued' \in Nat
  BY DEF SubmitLocked
<1>2. \A state \in TriggerState : NewTrigger(r, state) \in Trigger
  BY DEF NewTrigger, Trigger, Request
<1>3. "attached" \in TriggerState /\ "pending" \in TriggerState
  BY DEF TriggerState
<1>4. CASE \E s \in Attachable(r) :
             /\ execs' = [execs EXCEPT ![s].triggers = @ \cup {issued + 1}]
             /\ triggers' = Put(triggers, issued + 1, NewTrigger(r, "attached"))
             /\ UNCHANGED pending
  <2>1. PICK s \in Attachable(r) :
             /\ execs' = [execs EXCEPT ![s].triggers = @ \cup {issued + 1}]
             /\ triggers' = Put(triggers, issued + 1, NewTrigger(r, "attached"))
             /\ UNCHANGED pending
    BY <1>4
  <2>2. s \in DOMAIN execs /\ execs[s] \in Execution
    BY DEF Attachable, ExecsOK
  <2>3. [execs[s] EXCEPT !.triggers = @ \cup {issued + 1}] \in Execution
    <3>1. execs[s].triggers \cup {issued + 1} \in SUBSET Nat
      BY <2>2 DEF Execution
    <3>2. QED
      BY <2>2, <3>1 DEF Execution
  <2>4. ExecsOK(execs')
    BY <2>1, <2>2, <2>3 DEF ExecsOK
  <2>5. TriggersOK(triggers', issued')
    BY <1>1, <1>2, <1>3, <2>1, PutTriggers
  <2>6. QED
    BY <1>1, <2>1, <2>4, <2>5
<1>5. CASE /\ triggers' = Put(triggers, issued + 1, NewTrigger(r, "pending"))
           /\ LET intent == IF r.key \in DOMAIN pending THEN pending[r.key]
                            ELSE NewIntent(r.priority, r.coverage, 1, FALSE)
              IN pending' = Put(pending, r.key, Coalesce(intent, issued + 1, r))
           /\ UNCHANGED execs
  <2> DEFINE intent == IF r.key \in DOMAIN pending THEN pending[r.key]
                       ELSE NewIntent(r.priority, r.coverage, 1, FALSE)
  <2>1. r.key \in Key /\ r.priority \in Priority /\ r.coverage \in Nat
    BY DEF Request
  <2>2. 1 \in 1 .. MaxAttempts
    BY SchedulerAssumption
  <2>3. NewIntent(r.priority, r.coverage, 1, FALSE) \in Intent
    BY <2>1, <2>2, NewIntentType
  <2>4. intent \in Intent
    BY <2>3 DEF PendingOK
  <2>5. issued + 1 \in Nat
    OBVIOUS
  <2>6. Coalesce(intent, issued + 1, r) \in Intent
    BY <2>4, <2>5, CoalesceType
  <2>7. PendingOK(pending')
    BY <1>5, <2>1, <2>6, PutPending
  <2>8. TriggersOK(triggers', issued')
    BY <1>1, <1>2, <1>3, <1>5, PutTriggers
  <2>9. QED
    BY <1>1, <1>5, <2>7, <2>8
<1>6. QED
  BY <1>4, <1>5 DEF SubmitLocked

(* requeueExecutionLocked yields a well-formed intent. *)
LEMMA RequeuedType ==
  ASSUME PendingOK(pending), NEW e \in Execution, NEW delay \in BOOLEAN
  PROVE  PendingOK(Requeued(e, delay))
<1> DEFINE intent == IF e.key \in DOMAIN pending THEN pending[e.key]
                     ELSE NewIntent(e.priority, e.coverage, NextAttempt(e), FALSE)
           merged == [intent EXCEPT !.triggers = @ \cup e.triggers,
                                    !.priority = Larger(@, e.priority),
                                    !.coverage = Larger(@, e.coverage),
                                    !.attempt  = Larger(@, NextAttempt(e)),
                                    !.delayed  = @ \/ delay]
<1>1. /\ e.key \in Key /\ e.priority \in Priority /\ e.coverage \in Nat
      /\ e.attempt \in 1 .. MaxAttempts /\ e.triggers \subseteq Nat
  BY DEF Execution
<1>2. NextAttempt(e) \in 1 .. MaxAttempts
  BY <1>1, SchedulerAssumption DEF NextAttempt
<1>3. intent \in Intent
  BY <1>1, <1>2, NewIntentType DEF PendingOK
<1>4. /\ intent.triggers \cup e.triggers \subseteq Nat
      /\ Larger(intent.priority, e.priority) \in Priority
      /\ Larger(intent.coverage, e.coverage) \in Nat
      /\ Larger(intent.attempt, NextAttempt(e)) \in 1 .. MaxAttempts
      /\ (intent.delayed \/ delay) \in BOOLEAN
  BY <1>1, <1>2, <1>3, LargerType DEF Intent
<1>5. merged \in Intent
  BY <1>3, <1>4 DEF Intent
<1>6. QED
  BY <1>1, <1>5, PutPending DEF Requeued

-----------------------------------------------------------------------------
(* 2. TypeOK *)

(* The half of TypeOK that persistLocked copies. *)
ManagerOK ==
  /\ issued \in Nat /\ TriggersOK(triggers, issued)
  /\ PendingOK(pending) /\ ExecsOK(execs)
  /\ history \in Seq(SUBSET Nat) /\ WorkflowOK(workflow)
  /\ nextTick \in [Periodic -> Nat]

RestOK ==
  /\ ticks \in [Periodic -> Nat]
  /\ resources \in [Resource -> Use]
  /\ wake \in BOOLEAN /\ grace \in BOOLEAN
  /\ armed \subseteq Key \cup {"workflow"}
  /\ loop \in {"asleep", "create", "admit", "stopped"}
  /\ phase \in {"down", "recovering", "up", "stopping", "panicked"}

CountOK == count \in [submits : Nat, faults : Nat, stops : Nat]

LEMMA TypeOKParts == TypeOK <=> ManagerOK /\ RestOK /\ SavedOK(disk) /\ CountOK
BY DEF TypeOK, ManagerOK, RestOK, CountOK

LEMMA TypeOKPartsNext ==
  TypeOK' <=> ManagerOK' /\ RestOK' /\ SavedOK(disk)' /\ CountOK'
BY TypeOKParts, PTL

(* What is saved is as well formed as what is in memory. *)
LEMMA ViewType == ManagerOK => SavedOK(PersistenceView)
<1> SUFFICES ASSUME ManagerOK PROVE SavedOK(PersistenceView)
  OBVIOUS
<1> USE DEF ManagerOK
<1>1. TriggersOK(PersistenceView.triggers, issued)
  BY RestrictTriggers DEF PersistenceView
<1>2. PendingOK(PersistenceView.pending)
  BY RestrictPending DEF PersistenceView
<1>3. QED
  BY <1>1, <1>2 DEF PersistenceView, SavedOK

LEMMA ViewTypeNext == ManagerOK' => SavedOK(PersistenceView)'
BY ViewType, PTL

LEMMA PersistedType ==
  ASSUME ManagerOK', CountOK, SavedOK(disk), PersistOrLog
  PROVE  SavedOK(disk)' /\ CountOK'
<1>1. CASE Persisted
  BY <1>1, ViewTypeNext DEF Persisted, CountOK
<1>2. CASE PersistFails
  BY <1>2 DEF PersistFails, CountOK
<1>3. QED
  BY <1>1, <1>2 DEF PersistOrLog

LEMMA ForgetType ==
  ASSUME Forget
  PROVE  /\ ManagerOK'
         /\ resources' \in [Resource -> Use] /\ wake' \in BOOLEAN /\ grace' \in BOOLEAN
         /\ armed' \subseteq Key \cup {"workflow"}
         /\ loop' \in {"asleep", "create", "admit", "stopped"}
<1>1. ManagerOK'
  BY EmptyMaps, EmptySeq DEF Forget, ManagerOK
<1>2. QED
  BY <1>1 DEF Forget, AllFree, Free, Use

(* The resource table under its two updates. *)
LEMMA TableType ==
  ASSUME NEW table \in [Resource -> Use], NEW s \in Slot, NEW task
  PROVE  /\ AcquireResources(table, s, task) \in [Resource -> Use]
         /\ ReleaseResources(table, s, task) \in [Resource -> Use]
BY DEF AcquireResources, ReleaseResources, Use

(* The end of finishExecution: what remains to be shown of a runner's       *)
(* return is that its triggers, the other executions, the queue and the     *)
(* workflow are well formed.                                                *)
LEMMA FinishedType ==
  ASSUME TypeOK, NEW s \in DOMAIN execs,
         NEW trg, TriggersOK(trg, issued), NEW others, ExecsOK(others),
         PendingOK(pending'), WorkflowOK(workflow'),
         Finished(s, trg, others)
  PROVE  TypeOK'
<1> DEFINE done    == Append(history, execs[s].triggers)
           excess  == IF Len(done) + Cardinality(DOMAIN others) > HistoryLimit
                      THEN Len(done) + Cardinality(DOMAIN others) - HistoryLimit ELSE 0
           dropped == IF excess > Len(done) THEN Len(done) ELSE excess
           trimmed == UNION {done[i] : i \in 1 .. dropped}
           kept    == {t \in DOMAIN trg : ~(t \in trimmed /\ trg[t].state \in Terminal)}
<1>1. execs[s].triggers \in SUBSET Nat /\ s \in Slot
  BY DEF TypeOK, ExecsOK, Execution
<1>2. done \in Seq(SUBSET Nat) /\ Len(done) \in Nat
  BY <1>1, AppendProperties, LenProperties DEF TypeOK
<1>3. Cardinality(DOMAIN others) \in Nat
  BY FS_CardinalityType DEF ExecsOK
<1>4. dropped \in Nat /\ dropped <= Len(done)
  BY <1>2, <1>3, SchedulerAssumption
<1>5. SubSeq(done, dropped + 1, Len(done)) \in Seq(SUBSET Nat)
  BY <1>2, <1>4, SubSeqProperties
<1>6. /\ triggers' = Restrict(trg, kept)
      /\ history' = SubSeq(done, dropped + 1, Len(done))
      /\ execs' = others
      /\ resources' = ReleaseResources(resources, s, TaskOf[execs[s].key])
      /\ wake' = TRUE
      /\ UNCHANGED <<issued, nextTick, armed, loop, grace, phase, ticks>>
      /\ PersistOrLog
  BY DEF Finished
<1>7. TriggersOK(triggers', issued)
  BY <1>6, RestrictTriggers
<1>8. ManagerOK'
  BY <1>5, <1>6, <1>7 DEF ManagerOK, TypeOK
<1>9. RestOK'
  BY <1>1, <1>6, TableType DEF RestOK, TypeOK
<1>10. SavedOK(disk)' /\ CountOK'
  BY <1>6, <1>8, PersistedType, TypeOKParts
<1>11. QED
  BY <1>8, <1>9, <1>10, TypeOKPartsNext

LEMMA SubmitType ==
  ASSUME TypeOK, NEW r \in Request, Submit(r)
  PROVE  TypeOK'
<1>1. CASE /\ SubmitLocked(r)
           /\ UNCHANGED <<history, workflow, nextTick>>
           /\ disk' = PersistenceView'
           /\ wake' = TRUE
           /\ count' = [count EXCEPT !.submits = @ + 1]
  <2>1. ManagerOK'
    BY <1>1, SubmitLockedType DEF ManagerOK, TypeOK
  <2>2. SavedOK(disk)'
    BY <1>1, <2>1, ViewTypeNext
  <2>3. RestOK' /\ CountOK'
    BY <1>1 DEF RestOK, CountOK, TypeOK, Submit
  <2>4. QED
    BY <2>1, <2>2, <2>3, TypeOKPartsNext
<1>2. CASE PersistFails /\ UNCHANGED <<manager, wake>>
  BY <1>2 DEF Submit, PersistFails, manager, TypeOK
<1>3. QED
  BY <1>1, <1>2 DEF Submit

LEMMA PassType ==
  ASSUME TypeOK, Pass
  PROVE  TypeOK'
<1>1. CASE StartPass
  BY <1>1 DEF StartPass, manager, TypeOK
<1>2. ASSUME NEW task \in Periodic, CreatePeriodicTrigger(task)
      PROVE  TypeOK'
  <2> DEFINE r == [key |-> PeriodicKey[task], kind |-> "periodic", priority |-> PriorityPeriodic,
                   durable |-> FALSE, coverage |-> nextTick[task]]
  <2>1. r \in Request
    BY SchedulerAssumption DEF Request, Kind, Priority, TypeOK
  <2>2. SubmitLocked(r)
    BY <1>2 DEF CreatePeriodicTrigger
  <2>3. nextTick' \in [Periodic -> Nat]
    BY <1>2 DEF CreatePeriodicTrigger, TypeOK
  <2>4. QED
    BY <1>2, <2>1, <2>2, <2>3, SubmitLockedType DEF CreatePeriodicTrigger, TypeOK
<1>3. CASE CreateWorkflowTrigger
  <2> DEFINE r == [key |-> Steps[workflow.step + 1], kind |-> "workflow",
                   priority |-> IF workflow.overdue THEN PriorityConsistencyDeadline
                                ELSE PriorityConsistency,
                   durable |-> TRUE, coverage |-> 0]
  <2>1. r \in Request
    <3>1. workflow.step + 1 \in 1 .. Len(Steps)
      BY <1>3, SchedulerAssumption, LenProperties
         DEF CreateWorkflowTrigger, WorkflowDue, TypeOK, WorkflowOK, Workflow
    <3>2. Steps[workflow.step + 1] \in Key
      BY <3>1, SchedulerAssumption, ElementOfSeq
    <3>3. QED
      BY <3>2 DEF Request, Kind, Priority
  <2>2. SubmitLocked(r)
    BY <1>3 DEF CreateWorkflowTrigger
  <2>3. /\ issued' \in Nat /\ TriggersOK(triggers', issued')
        /\ PendingOK(pending') /\ ExecsOK(execs')
    BY <2>1, <2>2, SubmitLockedType
  <2>4. WorkflowOK(workflow')
    BY <1>3, <2>3 DEF CreateWorkflowTrigger, TypeOK, WorkflowOK, Workflow
  <2>5. QED
    BY <1>3, <2>3, <2>4 DEF CreateWorkflowTrigger, TypeOK
<1>4. CASE Preempt
  <2> DEFINE e(s) == IF Yields(s) THEN [execs[s] EXCEPT !.state = "cancelling"] ELSE execs[s]
  <2>1. ExecsOK(execs')
    <3>1. \A s \in DOMAIN execs : e(s) \in Execution
      BY DEF TypeOK, ExecsOK, Execution
    <3>2. execs' = [s \in DOMAIN execs |-> e(s)]
      BY <1>4 DEF Preempt
    <3> HIDE DEF e
    <3>3. QED
      BY <3>1, <3>2 DEF TypeOK, ExecsOK
  <2>2. QED
    BY <1>4, <2>1 DEF Preempt, TypeOK
<1>5. ASSUME NEW k \in Key, Admit(k)
      PROVE  TypeOK'
  <2>1. CASE Panics
    BY <2>1, ForgetType DEF Panics, ManagerOK, TypeOK
  <2>2. CASE ~Panics
    <3>1. /\ FreeSlots # {} /\ k \in DOMAIN pending
          /\ execs' = Put(execs, NewSlot,
               [key |-> k, triggers |-> pending[k].triggers, priority |-> pending[k].priority,
                coverage |-> pending[k].coverage, attempt |-> pending[k].attempt,
                state |-> "running", fresh |-> TRUE,
                targeted |-> KindsOf(pending[k].triggers) = {"workflow"}])
          /\ resources' = AcquireResources(resources, NewSlot, TaskOf[k])
          /\ pending' = Dequeue(k)
          /\ triggers' = Marked(pending[k].triggers, "running")
          /\ UNCHANGED <<issued, history, workflow, nextTick, wake, armed, loop, grace, phase,
                         ticks, disk, count>>
      BY <1>5, <2>2 DEF Admit, Admissible, Ready
    <3>2. NewSlot \in Slot
      BY <3>1 DEF NewSlot, FreeSlots
    <3>3. ExecsOK(execs')
      <4>1. pending[k] \in Intent /\ ExecsOK(execs)
        BY <3>1 DEF TypeOK, PendingOK
      <4>2. (KindsOf(pending[k].triggers) = {"workflow"}) \in BOOLEAN
        OBVIOUS
      <4>3. [key |-> k, triggers |-> pending[k].triggers, priority |-> pending[k].priority,
             coverage |-> pending[k].coverage, attempt |-> pending[k].attempt,
             state |-> "running", fresh |-> TRUE,
             targeted |-> KindsOf(pending[k].triggers) = {"workflow"}] \in Execution
        BY <4>1, <4>2 DEF Intent, Execution
      <4>4. QED
        BY <3>1, <3>2, <4>1, <4>3, PutExecs
    <3>4. PendingOK(pending')
      BY <3>1, DequeuePending DEF TypeOK
    <3>5. TriggersOK(triggers', issued)
      BY <3>1, MarkedTriggers DEF TypeOK, TriggerState
    <3>6. resources' \in [Resource -> Use]
      BY <3>1, <3>2, TableType DEF TypeOK
    <3>7. QED
      BY <3>1, <3>3, <3>4, <3>5, <3>6 DEF TypeOK
  <2>3. QED
    BY <2>1, <2>2
<1>6. CASE EndPass
  <2>1. CASE Panics
    BY <2>1, ForgetType DEF Panics, ManagerOK, TypeOK
  <2>2. CASE ~Panics
    <3> DEFINE blocked == UNION {pending[k].triggers : k \in {j \in Key : Ready(j)}}
    <3>1. /\ triggers' = Marked(blocked, "waiting")
          /\ armed' = Armed
          /\ loop' = "asleep"
          /\ UNCHANGED <<issued, pending, execs, history, workflow, nextTick,
                         resources, wake, grace, phase, ticks>>
          /\ PersistOrLog
      BY <1>6, <2>2 DEF EndPass
    <3>2. TriggersOK(triggers', issued)
      BY <3>1, MarkedTriggers DEF TypeOK, TriggerState
    <3>3. armed' \subseteq Key \cup {"workflow"}
      BY <3>1 DEF Armed, TypeOK, PendingOK
    <3>4. ManagerOK' /\ RestOK'
      BY <3>1, <3>2, <3>3 DEF ManagerOK, RestOK, TypeOK
    <3>5. QED
      BY <3>1, <3>4, PersistedType, TypeOKParts, TypeOKPartsNext
  <2>3. QED
    BY <2>1, <2>2
<1>7. QED
  BY <1>1, <1>2, <1>3, <1>4, <1>5, <1>6 DEF Pass

(* cancelWorkflowTriggerLocked. *)
LEMMA WithdrawType ==
  ASSUME TypeOK, NEW t
  PROVE  PendingOK(PendingWithout(t))
<1> DEFINE k == triggers[t].key
<1>1. CASE ~Withdrawn(t) \/ k \notin DOMAIN pending
  BY <1>1 DEF PendingWithout, TypeOK
<1>2. CASE Withdrawn(t) /\ k \in DOMAIN pending /\ pending[k].triggers \ {t} = {}
  <2>1. PendingWithout(t) = Dequeue(k)
    BY <1>2 DEF PendingWithout
  <2>2. QED
    BY <1>2, <2>1, DequeuePending DEF TypeOK
<1>3. CASE Withdrawn(t) /\ k \in DOMAIN pending /\ pending[k].triggers \ {t} # {}
  <2>1. PendingWithout(t) = [pending EXCEPT ![k].triggers = @ \ {t}]
    BY <1>3 DEF PendingWithout
  <2>2. pending[k] \in Intent
    BY <1>3 DEF TypeOK, PendingOK
  <2>3. pending[k].triggers \ {t} \in SUBSET Nat
    BY <2>2 DEF Intent
  <2>4. [pending[k] EXCEPT !.triggers = @ \ {t}] \in Intent
    BY <2>2, <2>3 DEF Intent
  <2>5. QED
    BY <1>3, <2>1, <2>4 DEF TypeOK, PendingOK
<1>4. QED
  BY <1>1, <1>2, <1>3

LEMMA WithdrawingType ==
  ASSUME NEW trg, NEW n, TriggersOK(trg, n), DOMAIN trg = DOMAIN triggers, NEW t
  PROVE  TriggersOK(TriggersWithdrawing(trg, t), n)
<1>1. CASE Withdrawn(t)
  <2>1. t \in DOMAIN trg /\ trg[t] \in Trigger
    BY <1>1 DEF Withdrawn, TriggersOK
  <2>2. [trg[t] EXCEPT !.state = "cancelled"] \in Trigger
    BY <2>1 DEF Trigger, TriggerState
  <2>3. QED
    BY <1>1, <2>1, <2>2 DEF TriggersWithdrawing, TriggersOK
<1>2. CASE ~Withdrawn(t)
  BY <1>2 DEF TriggersWithdrawing
<1>3. QED
  BY <1>1, <1>2

LEMMA NoneFreshType ==
  ASSUME NEW es, ExecsOK(es)
  PROVE  ExecsOK(NoneFresh(es))
<1>1. \A s \in DOMAIN es : [es[s] EXCEPT !.fresh = FALSE] \in Execution
  BY DEF ExecsOK, Execution
<1>2. QED
  BY <1>1 DEF ExecsOK, NoneFresh

LEMMA FinishType ==
  ASSUME TypeOK, NEW s \in Slot, Finish(s)
  PROVE  TypeOK'
<1> DEFINE e == execs[s]
<1>1. s \in DOMAIN execs
  BY DEF Finish, FinishRequeued, FinishInterrupted, FinishFailed, FinishSucceeded
<1>2. e \in Execution
  BY <1>1 DEF TypeOK, ExecsOK
<1>3. ExecsOK(Without(execs, s))
  BY WithoutExecs DEF TypeOK
<1>4. ASSUME NEW outcome \in {"canceled", "retryable"}, FinishRequeued(s, outcome)
      PROVE  TypeOK'
  <2>1. (outcome = "retryable" \/ TaskOf[e.key] \in CoolsDown) \in BOOLEAN
    OBVIOUS
  <2>2. PendingOK(pending')
    BY <1>2, <1>4, <2>1, RequeuedType DEF FinishRequeued, TypeOK
  <2>3. WorkflowOK(workflow')
    BY <1>4 DEF FinishRequeued, TypeOK
  <2>4. TriggersOK(Marked(e.triggers, "pending"), issued)
    BY MarkedTriggers DEF TypeOK, TriggerState
  <2>5. Finished(s, Marked(e.triggers, "pending"), Without(execs, s))
    BY <1>4 DEF FinishRequeued
  <2>6. QED
    BY <1>1, <1>3, <2>2, <2>3, <2>4, <2>5, FinishedType
<1>5. CASE FinishInterrupted(s)
  <2>1. PendingOK(pending') /\ WorkflowOK(workflow')
    BY <1>5 DEF FinishInterrupted, TypeOK
  <2>2. TriggersOK(Marked(e.triggers, "attention"), issued)
    BY MarkedTriggers DEF TypeOK, TriggerState
  <2>3. Finished(s, Marked(e.triggers, "attention"), Without(execs, s))
    BY <1>5 DEF FinishInterrupted
  <2>4. QED
    BY <1>1, <1>3, <2>1, <2>2, <2>3, FinishedType
<1>6. ASSUME NEW outcome \in {"permanent", "retryable"}, FinishFailed(s, outcome)
      PROVE  TypeOK'
  <2>1. PendingOK(pending')
    BY <1>6 DEF FinishFailed, TypeOK
  <2>2. WorkflowOK(workflow')
    BY <1>6 DEF FinishFailed, TypeOK, WorkflowOK, Workflow
  <2>3. TriggersOK(Marked(e.triggers, "failed"), issued)
    BY MarkedTriggers DEF TypeOK, TriggerState
  <2>4. Finished(s, Marked(e.triggers, "failed"), Without(execs, s))
    BY <1>6 DEF FinishFailed
  <2>5. QED
    BY <1>1, <1>3, <2>1, <2>2, <2>3, <2>4, FinishedType
<1>7. CASE FinishSucceeded(s)
  <2> DEFINE fulfilled == Marked(e.triggers, "fulfilled")
  <2>1. TriggersOK(fulfilled, issued) /\ DOMAIN fulfilled = DOMAIN triggers
    BY MarkedTriggers DEF TypeOK, TriggerState
  <2>2. CASE Satisfies(e)
    <3>1. PendingOK(pending')
      BY <1>7, <2>2, WithdrawType DEF FinishSucceeded
    <3>2. WorkflowOK(workflow')
      <4>1. /\ workflow \in Workflow /\ workflow.step < Len(Steps)
            /\ workflow' = [workflow EXCEPT
                 !.step = @ + 1, !.trigger = 0,
                 !.state = IF workflow.step + 1 >= Len(Steps) THEN "succeeded" ELSE "pending"]
        BY <1>7, <2>2 DEF FinishSucceeded, Satisfies, TypeOK, WorkflowOK
      <4>2. Len(Steps) \in Nat
        BY SchedulerAssumption, LenProperties
      <4>3. workflow.step + 1 \in Nat /\ workflow.step + 1 <= Len(Steps)
        BY <4>1, <4>2 DEF Workflow
      <4>4. /\ workflow' \in Workflow
            /\ workflow'.step = workflow.step + 1
        BY <4>1, <4>3 DEF Workflow
      <4>5. QED
        BY <4>3, <4>4 DEF WorkflowOK
    <3>3. TriggersOK(TriggersWithdrawing(fulfilled, workflow.trigger), issued)
      BY <2>1, WithdrawingType
    <3>4. ExecsOK(NoneFresh(Without(execs, s)))
      BY <1>3, NoneFreshType
    <3>5. Finished(s, TriggersWithdrawing(fulfilled, workflow.trigger),
                   NoneFresh(Without(execs, s)))
      BY <1>7, <2>2 DEF FinishSucceeded
    <3>6. QED
      BY <1>1, <3>1, <3>2, <3>3, <3>4, <3>5, FinishedType
  <2>3. CASE ~Satisfies(e)
    <3>1. PendingOK(pending') /\ WorkflowOK(workflow')
      BY <1>7, <2>3 DEF FinishSucceeded, TypeOK
    <3>2. Finished(s, fulfilled, Without(execs, s))
      BY <1>7, <2>3 DEF FinishSucceeded
    <3>3. QED
      BY <1>1, <1>3, <2>1, <3>1, <3>2, FinishedType
  <2>4. QED
    BY <2>2, <2>3
<1>8. QED
  BY <1>4, <1>5, <1>6, <1>7 DEF Finish

LEMMA AdvanceType ==
  ASSUME TypeOK, NEW quiet \in BOOLEAN, AdvanceWorkflow(quiet)
  PROVE  TypeOK'
<1>1. CASE /\ workflow' = [state |-> "pending", step |-> 0, trigger |-> 0, ready |-> ~quiet,
                overdue |-> workflow.overdue /\ workflow.state \in {"pending", "running"},
                revision |-> workflow.revision + 1]
           /\ pending' = PendingWithout(workflow.trigger)
           /\ triggers' = TriggersWithdrawing(triggers, workflow.trigger)
           /\ execs' = NoneFresh(execs)
           /\ UNCHANGED <<issued, history, nextTick, count>>
           /\ disk' = PersistenceView'
           /\ wake' = TRUE
  <2>1. WorkflowOK(workflow')
    <3>1. Len(Steps) \in Nat
      BY SchedulerAssumption, LenProperties
    <3>2. (workflow.overdue /\ workflow.state \in {"pending", "running"}) \in BOOLEAN
      BY Zenon
    <3>3. (~quiet) \in BOOLEAN
      <4>1. CASE quiet = TRUE
        BY <4>1, Zenon
      <4>2. CASE quiet = FALSE
        BY <4>2, Zenon
      <4>3. QED
        BY <4>1, <4>2
    <3>4. workflow.revision + 1 \in Nat
      BY DEF TypeOK, WorkflowOK, Workflow
    <3>5. workflow' \in Workflow
      <4> DEFINE overdue == workflow.overdue /\ workflow.state \in {"pending", "running"}
                 ready == ~quiet
                 revision == workflow.revision + 1
      <4>1. workflow' = [state |-> "pending", step |-> 0, trigger |-> 0, ready |-> ready,
                         overdue |-> overdue, revision |-> revision]
        BY <1>1
      <4>2. overdue \in BOOLEAN /\ ready \in BOOLEAN /\ revision \in Nat
        BY <3>2, <3>3, <3>4
      <4> HIDE DEF overdue, ready, revision
      <4>3. QED
        BY <4>1, <4>2 DEF Workflow
    <3>6. workflow'.step = 0
      BY <1>1
    <3>7. QED
      BY <3>1, <3>5, <3>6 DEF WorkflowOK
  <2>2. ManagerOK'
    BY <1>1, <2>1, WithdrawType, WithdrawingType, NoneFreshType DEF ManagerOK, TypeOK
  <2>3. SavedOK(disk)'
    BY <1>1, <2>2, ViewTypeNext
  <2>4. RestOK' /\ CountOK'
    BY <1>1 DEF RestOK, CountOK, TypeOK, AdvanceWorkflow
  <2>5. QED
    BY <2>2, <2>3, <2>4, TypeOKPartsNext
<1>2. CASE PersistFails /\ UNCHANGED <<manager, wake>>
  <2>1. ManagerOK' /\ RestOK'
    BY <1>2 DEF AdvanceWorkflow, manager, ManagerOK, RestOK, TypeOK
  <2>2. QED
    BY <1>2, <2>1, PersistedType, TypeOKParts, TypeOKPartsNext DEF PersistOrLog
<1>3. QED
  BY <1>1, <1>2 DEF AdvanceWorkflow

LEMMA RecoveryType ==
  ASSUME TypeOK, Recovery
  PROVE  TypeOK'
<1>1. ASSUME NEW s \in Slot, RecoverInterrupted(s)
      PROVE  TypeOK'
  <2> DEFINE e == execs[s]
             kept == e.triggers \cap DOMAIN triggers
             retried == /\ TaskOf[e.key] \in RetryRecovery \cap KnownAtRecovery
                        /\ \E t \in kept : triggers[t].durable
             abandoned == [t \in DOMAIN triggers |->
                            IF t \notin e.triggers THEN triggers[t]
                            ELSE [triggers[t] EXCEPT !.state =
                                    IF triggers[t].durable THEN "attention" ELSE "interrupted"]]
  <2>1. s \in DOMAIN execs /\ e \in Execution
    BY <1>1 DEF RecoverInterrupted, TypeOK, ExecsOK
  <2>2. CASE Panics
    BY <2>2, ForgetType DEF Panics, ManagerOK, TypeOK
  <2>3. CASE ~Panics
    <3>1. /\ execs' = Without(execs, s)
          /\ history' = Append(history, e.triggers)
          /\ \/ pending' = Requeued(e, FALSE) /\ triggers' = Marked(e.triggers, "pending")
             \/ pending' = pending /\ triggers' = abandoned
          /\ UNCHANGED <<issued, workflow, nextTick, resources, wake, armed, loop, grace, phase,
                         ticks, disk, count>>
      BY <1>1, <2>3 DEF RecoverInterrupted
    <3>2. ExecsOK(execs')
      BY <3>1, WithoutExecs DEF TypeOK
    <3>3. history' \in Seq(SUBSET Nat)
      BY <2>1, <3>1, AppendProperties DEF TypeOK, Execution
    <3>4. PendingOK(pending')
      BY <2>1, <3>1, RequeuedType DEF TypeOK
    <3>5. TriggersOK(Marked(e.triggers, "pending"), issued)
      BY MarkedTriggers DEF TypeOK, TriggerState
    <3>6. TriggersOK(abandoned, issued)
      <4>1. ASSUME NEW t \in DOMAIN triggers
            PROVE  abandoned[t] \in Trigger
        <5> DEFINE outcome == IF triggers[t].durable THEN "attention" ELSE "interrupted"
        <5>1. triggers[t] \in Trigger
          BY DEF TypeOK, TriggersOK
        <5>2. outcome \in TriggerState
          BY DEF TriggerState
        <5>3. abandoned[t] = triggers[t] \/ abandoned[t] = [triggers[t] EXCEPT !.state = outcome]
          OBVIOUS
        <5> HIDE DEF outcome, abandoned
        <5>4. QED
          BY <5>1, <5>2, <5>3 DEF Trigger
      <4>2. abandoned \in [DOMAIN triggers -> Trigger]
        BY <4>1
      <4>3. DOMAIN triggers \subseteq 1 .. issued
        BY DEF TypeOK, TriggersOK
      <4> HIDE DEF abandoned
      <4>4. QED
        BY <4>2, <4>3 DEF TriggersOK
    <3>7. TriggersOK(triggers', issued)
      BY <3>1, <3>5, <3>6
    <3>8. QED
      BY <3>1, <3>2, <3>3, <3>4, <3>7 DEF TypeOK
  <2>4. QED
    BY <2>2, <2>3
<1>2. CASE RecoveryDone
  <2>1. CASE /\ UNCHANGED <<manager, resources, armed, loop, grace>>
             /\ Persisted
             /\ phase' = "up"
             /\ wake' = TRUE
    <3>1. ManagerOK' /\ RestOK'
      BY <1>2, <2>1 DEF RecoveryDone, manager, ManagerOK, RestOK, TypeOK
    <3>2. QED
      BY <2>1, <3>1, PersistedType, TypeOKParts, TypeOKPartsNext DEF PersistOrLog
  <2>2. CASE PersistFails /\ phase' = "down" /\ Forget
    <3>1. ManagerOK' /\ RestOK'
      BY <1>2, <2>2, ForgetType DEF RecoveryDone, RestOK, TypeOK
    <3>2. QED
      BY <2>2, <3>1, PersistedType, TypeOKParts, TypeOKPartsNext DEF PersistOrLog
  <2>3. QED
    BY <1>2, <2>1, <2>2 DEF RecoveryDone
<1>3. QED
  BY <1>1, <1>2 DEF Recovery

(* A deadline that is reached changes nothing but a flag. *)
LEMMA ElapsedType ==
  ASSUME NEW map, PendingOK(map), NEW k
  PROVE  PendingOK(Elapsed(map, k))
<1>1. \A j \in DOMAIN map : [map[j] EXCEPT !.delayed = FALSE] \in Intent
  BY DEF PendingOK, Intent
<1>2. QED
  BY <1>1 DEF PendingOK, Elapsed

LEMMA AgedType ==
  ASSUME NEW map, PendingOK(map), NEW k
  PROVE  PendingOK(Aged(map, k))
<1>1. \A j \in DOMAIN map : [map[j] EXCEPT !.age = @ + 20] \in Intent
  BY DEF PendingOK, Intent
<1>2. QED
  BY <1>1 DEF PendingOK, Aged

LEMMA TimePassesType ==
  ASSUME TypeOK, TimePasses
  PROVE  TypeOK'
<1>1. ASSUME NEW k \in Key, DelayElapses(k)
      PROVE  TypeOK'
  <2>1. PendingOK(pending')
    BY <1>1, ElapsedType DEF DelayElapses, TypeOK
  <2>2. SavedOK(disk')
    BY <1>1, ElapsedType DEF DelayElapses, TypeOK, SavedOK
  <2>3. wake' \in BOOLEAN
    BY <1>1, Zenon DEF DelayElapses
  <2>4. QED
    BY <1>1, <2>1, <2>2, <2>3 DEF DelayElapses, TypeOK
<1>2. ASSUME NEW k \in Key, Age(k)
      PROVE  TypeOK'
  <2>1. PendingOK(pending')
    BY <1>2, AgedType DEF Age, TypeOK
  <2>2. SavedOK(disk')
    BY <1>2, AgedType DEF Age, TypeOK, SavedOK
  <2>3. QED
    BY <1>2, <2>1, <2>2 DEF Age, TypeOK
<1>3. ASSUME NEW ready \in BOOLEAN, NEW overdue \in BOOLEAN, WorkflowTimePasses(ready, overdue)
      PROVE  TypeOK'
  <2>1. ASSUME NEW w, WorkflowOK(w)
        PROVE  WorkflowOK([w EXCEPT !.ready = @ \/ ready, !.overdue = @ \/ overdue])
    <3>1. (w.ready \/ ready) \in BOOLEAN /\ (w.overdue \/ overdue) \in BOOLEAN
      BY Zenon
    <3>2. QED
      BY <2>1, <3>1 DEF WorkflowOK, Workflow
  <2>2. WorkflowOK(workflow')
    BY <1>3, <2>1 DEF WorkflowTimePasses, TypeOK
  <2>3. WorkflowOK(disk.workflow) /\ SavedOK(disk)
    BY DEF TypeOK, SavedOK
  <2>4. SavedOK(disk')
    <3> DEFINE w == [disk.workflow EXCEPT !.ready = @ \/ ready, !.overdue = @ \/ overdue]
    <3>1. WorkflowOK(w)
      BY <2>1, <2>3
    <3>2. disk' = [disk EXCEPT !.workflow = w]
      BY <1>3, <2>3 DEF WorkflowTimePasses, WorkflowOK, Workflow, SavedOK
    <3> HIDE DEF w
    <3>3. QED
      BY <2>3, <3>1, <3>2 DEF SavedOK
  <2>5. wake' \in BOOLEAN
    BY <1>3, Zenon DEF WorkflowTimePasses
  <2>6. QED
    BY <1>3, <2>2, <2>4, <2>5 DEF WorkflowTimePasses, TypeOK
<1>4. ASSUME NEW task \in Periodic, Tick(task)
      PROVE  TypeOK'
  <2>1. wake' \in BOOLEAN
    BY <1>4, Zenon DEF Tick
  <2>2. ticks' \in [Periodic -> Nat]
    BY <1>4 DEF Tick, TypeOK
  <2>3. QED
    BY <1>4, <2>1, <2>2 DEF Tick, manager, TypeOK
<1>5. QED
  BY <1>1, <1>2, <1>3, <1>4 DEF TimePasses, QuietPeriodElapses, DeadlinePasses

LEMMA ProcessType ==
  ASSUME TypeOK, Process
  PROVE  TypeOK'
<1>1. CASE Restart
  <2>1. nextTick' \in [Periodic -> Nat]
    BY <1>1 DEF Restart, TypeOK, SavedOK
  <2>2. QED
    BY <1>1, <2>1 DEF Restart, TypeOK, SavedOK
<1>2. CASE Crash
  <2>1. ManagerOK' /\ RestOK'
    BY <1>2, ForgetType DEF Crash, RestOK, TypeOK
  <2>2. SavedOK(disk)' /\ CountOK'
    BY <1>2 DEF Crash, TypeOK, CountOK
  <2>3. QED
    BY <2>1, <2>2, TypeOKPartsNext
<1>3. CASE Shutdown
  BY <1>3 DEF Shutdown, manager, TypeOK
<1>4. CASE StopLoop
  BY <1>4 DEF StopLoop, manager, TypeOK
<1>5. CASE GraceExpires
  BY <1>5 DEF GraceExpires, manager, TypeOK
<1>6. CASE Stopped
  <2>1. ManagerOK' /\ RestOK'
    BY <1>6, ForgetType DEF Stopped, RestOK, TypeOK
  <2>2. SavedOK(disk)' /\ CountOK'
    <3>1. SavedOK(PersistenceView)
      BY TypeOKParts, ViewType
    <3>2. QED
      BY <1>6, <3>1 DEF Stopped, PersistFails, TypeOK, CountOK
  <2>3. QED
    BY <2>1, <2>2, TypeOKPartsNext
<1>7. QED
  BY <1>1, <1>2, <1>3, <1>4, <1>5, <1>6 DEF Process

LEMMA InitType == Init => TypeOK
<1> SUFFICES ASSUME Init PROVE TypeOK
  OBVIOUS
<1>1. ManagerOK
  BY EmptyMaps, EmptySeq DEF Init, ManagerOK
<1>2. RestOK /\ CountOK
  BY DEF Init, RestOK, CountOK, AllFree, Free, Use
<1>3. SavedOK(disk)
  BY EmptyMaps, EmptySeq DEF Init, EmptyDisk, SavedOK
<1>4. QED
  BY <1>1, <1>2, <1>3, TypeOKParts

LEMMA NextType == TypeOK /\ [Next]_vars => TypeOK'
<1> SUFFICES ASSUME TypeOK, [Next]_vars PROVE TypeOK'
  OBVIOUS
<1>1. CASE Pass
  BY <1>1, PassType
<1>2. ASSUME NEW s \in Slot, Finish(s) PROVE TypeOK'
  BY <1>2, FinishType
<1>3. CASE Recovery
  BY <1>3, RecoveryType
<1>4. CASE TimePasses
  BY <1>4, TimePassesType
<1>5. CASE Client
  <2>1. ASSUME NEW r \in Requests, Submit(r) PROVE TypeOK'
    BY <2>1, SubmitType, SchedulerAssumption
  <2>2. ASSUME NEW quiet \in BOOLEAN, AdvanceWorkflow(quiet) PROVE TypeOK'
    BY <2>2, AdvanceType
  <2>3. QED
    BY <1>5, <2>1, <2>2 DEF Client
<1>6. CASE Process
  BY <1>6, ProcessType
<1>7. CASE UNCHANGED vars
  BY <1>7 DEF vars, manager, TypeOK
<1>8. QED
  BY <1>1, <1>2, <1>3, <1>4, <1>5, <1>6, <1>7 DEF Next

(* Every variable, and what is saved of it, keeps its shape in every        *)
(* behaviour: a restart always reads back something the manager can use.    *)
THEOREM TypeCorrect == Spec => []TypeOK
<1>1. Init => TypeOK
  BY InitType
<1>2. TypeOK /\ [Next]_vars => TypeOK'
  BY NextType
<1>3. QED
  BY <1>1, <1>2, PTL DEF Spec

-----------------------------------------------------------------------------
(* 3. The resource table *)

(* What the active executions claim, and a table that says exactly that. *)
Held == [s \in Active |-> TaskOf[execs[s].key]]

Holding(held, r, mode) == {s \in DOMAIN held : Claimed(held[s], r, mode)}

Records(table, held) ==
  \A r \in Resource : /\ table[r].shared = Holding(held, r, "shared")
                      /\ table[r].exclusive = Holding(held, r, "exclusive")

Compatible(held) ==
  \A s, u \in DOMAIN held : s # u => ~ClaimsConflict(held[s], held[u])

(* The table is consulted for the whole set of claims, so an admission that *)
(* meets no conflict in it conflicts with no holder.                        *)
LEMMA NoConflictInTable ==
  ASSUME NEW table, NEW held, Records(table, held),
         NEW task, ~ResourceConflict(table, task), NEW u \in DOMAIN held
  PROVE  ~ClaimsConflict(task, held[u]) /\ ~ClaimsConflict(held[u], task)
<1>1. ASSUME NEW r \in Resource, Claimed(task, r, "exclusive"),
             NEW m \in Mode, Claimed(held[u], r, m)
      PROVE  FALSE
  <2>1. u \in table[r].shared \cup table[r].exclusive
    BY <1>1 DEF Records, Holding, Mode
  <2>2. QED
    BY <1>1, <2>1 DEF ResourceConflict
<1>2. ASSUME NEW r \in Resource, Claimed(held[u], r, "exclusive"),
             NEW m \in Mode, Claimed(task, r, m)
      PROVE  FALSE
  <2>1. u \in table[r].exclusive
    BY <1>2 DEF Records, Holding
  <2>2. QED
    BY <1>2, <2>1 DEF ResourceConflict, Mode
<1>3. QED
  BY <1>1, <1>2 DEF ClaimsConflict

LEMMA AcquireRecords ==
  ASSUME NEW table, NEW held, Records(table, held),
         NEW task, ~ResourceConflict(table, task), NEW s, s \notin DOMAIN held,
         NEW after, after = Put(held, s, task)
  PROVE  Records(AcquireResources(table, s, task), after)
<1>1. DOMAIN after = DOMAIN held \cup {s} /\ after[s] = task
      /\ \A u \in DOMAIN held : after[u] = held[u]
  BY DEF Put
<1>2. ASSUME NEW r \in Resource
      PROVE  Holding(after, r, "shared") = IF Claimed(task, r, "shared")
                                           THEN table[r].shared \cup {s} ELSE table[r].shared
  BY <1>1 DEF Records, Holding
<1>3. ASSUME NEW r \in Resource
      PROVE  Holding(after, r, "exclusive") = IF Claimed(task, r, "exclusive")
                                              THEN {s} ELSE table[r].exclusive
  <2>1. Claimed(task, r, "exclusive") => table[r].exclusive = {}
    BY DEF ResourceConflict
  <2>2. QED
    BY <1>1, <2>1 DEF Records, Holding
<1>4. QED
  BY <1>2, <1>3 DEF Records, AcquireResources

LEMMA ReleaseRecords ==
  ASSUME NEW table, NEW held, Records(table, held), NEW s \in DOMAIN held,
         NEW after, after = Without(held, s)
  PROVE  Records(ReleaseResources(table, s, held[s]), after)
<1>1. DOMAIN after = DOMAIN held \ {s} /\ \A u \in DOMAIN after : after[u] = held[u]
  BY DEF Without, Restrict
<1>2. ASSUME NEW r \in Resource
      PROVE  /\ Holding(after, r, "shared") = IF Claimed(held[s], r, "shared")
                                              THEN table[r].shared \ {s} ELSE table[r].shared
             /\ Holding(after, r, "exclusive") = IF Claimed(held[s], r, "exclusive")
                                              THEN table[r].exclusive \ {s} ELSE table[r].exclusive
  BY <1>1 DEF Records, Holding
<1>3. QED
  BY <1>2 DEF Records, ReleaseResources

(* What the steps of the scheduler do to its table and its executions: a    *)
(* step leaves both alone, or admits, or finishes an execution, or ends the *)
(* process.                                                                 *)
Begins(s, task) ==
  /\ s \in Slot \ DOMAIN Held /\ task \in Task
  /\ ~ResourceConflict(resources, task)
  /\ resources' = AcquireResources(resources, s, task)
  /\ Held' = Put(Held, s, task)
Ends(s) ==
  /\ s \in Slot \cap DOMAIN Held
  /\ resources' = ReleaseResources(resources, s, Held[s])
  /\ Held' = Without(Held, s)
Dies == resources' = AllFree /\ Held' = EmptyMap

(* Neither held resources nor the table change. *)
Stays == resources' = resources /\ Held' = Held

(* While the process is not up the loop does not run. *)
Idle == ~Alive => loop = "asleep"

LEMMA HeldSame ==
  ASSUME DOMAIN execs' = DOMAIN execs,
         \A s \in DOMAIN execs : execs'[s].key = execs[s].key,
         Alive' = Alive
  PROVE  Held' = Held
BY DEF Held, Active

LEMMA HeldNone ==
  /\ ~Alive \/ execs = EmptyMap => Held = EmptyMap
  /\ ~Alive' \/ execs' = EmptyMap => Held' = EmptyMap
<1>1. DOMAIN EmptyMap = {}
  BY DEF EmptyMap
<1>2. ~Alive \/ execs = EmptyMap => Active = {}
  BY <1>1 DEF Active
<1>3. ~Alive' \/ execs' = EmptyMap => Active' = {}
  BY <1>1 DEF Active
<1>4. QED
  BY <1>2, <1>3 DEF Held, EmptyMap

LEMMA ForgetDies ==
  ASSUME Forget
  PROVE  Dies /\ loop' = "asleep"
BY HeldNone DEF Forget, Dies

LEMMA SubmitLockedHeld ==
  ASSUME TypeOK, NEW r, SubmitLocked(r)
  PROVE  /\ DOMAIN execs' = DOMAIN execs
         /\ \A s \in DOMAIN execs : execs'[s].key = execs[s].key
<1>1. CASE UNCHANGED execs
  BY <1>1
<1>2. CASE \E s \in Attachable(r) : execs' = [execs EXCEPT ![s].triggers = @ \cup {issued + 1}]
  <2>1. PICK s \in Attachable(r) : execs' = [execs EXCEPT ![s].triggers = @ \cup {issued + 1}]
    BY <1>2
  <2>2. s \in DOMAIN execs /\ execs[s] \in Execution
    BY DEF Attachable, TypeOK, ExecsOK
  <2>3. [execs[s] EXCEPT !.triggers = @ \cup {issued + 1}].key = execs[s].key
    BY <2>2 DEF Execution
  <2>4. QED
    BY <2>1, <2>2, <2>3
<1>3. QED
  BY <1>1, <1>2 DEF SubmitLocked

LEMMA NoneFreshHeld ==
  ASSUME NEW es, ExecsOK(es)
  PROVE  /\ DOMAIN NoneFresh(es) = DOMAIN es
         /\ \A s \in DOMAIN es : NoneFresh(es)[s].key = es[s].key
BY DEF ExecsOK, NoneFresh, Execution

(* finishExecution ends one execution, whatever else it did before. *)
LEMMA FinishedEnds ==
  ASSUME Unlocked, NEW s \in DOMAIN execs, s \in Slot, NEW trg, NEW others,
         Finished(s, trg, others),
         DOMAIN others = DOMAIN execs \ {s},
         \A u \in DOMAIN others : others[u].key = execs[u].key
  PROVE  Ends(s)
<1>1. /\ execs' = others
      /\ resources' = ReleaseResources(resources, s, TaskOf[execs[s].key])
      /\ phase' = phase
  BY DEF Finished
<1>2. Active = DOMAIN execs /\ Active' = DOMAIN execs \ {s}
  BY <1>1 DEF Unlocked, Active, Alive
<1>3. s \in DOMAIN Held /\ Held[s] = TaskOf[execs[s].key] /\ DOMAIN Held = DOMAIN execs
  BY <1>2 DEF Held
<1>4. Held' = [u \in DOMAIN execs \ {s} |-> TaskOf[execs[u].key]]
  BY <1>1, <1>2 DEF Held
<1>5. Without(Held, s) = [u \in DOMAIN execs \ {s} |-> TaskOf[execs[u].key]]
  BY <1>2 DEF Held, Without, Restrict
<1>6. QED
  BY <1>1, <1>3, <1>4, <1>5 DEF Ends

LEMMA FinishEnds ==
  ASSUME TypeOK, NEW s \in Slot, Finish(s)
  PROVE  Ends(s)
<1> DEFINE others == Without(execs, s)
<1>1. Unlocked /\ s \in DOMAIN execs
  BY DEF Finish, FinishRequeued, FinishInterrupted, FinishFailed, FinishSucceeded
<1>2. /\ DOMAIN others = DOMAIN execs \ {s} /\ ExecsOK(others)
      /\ \A u \in DOMAIN others : others[u].key = execs[u].key
  <2>1. DOMAIN others = DOMAIN execs \ {s} /\ ExecsOK(others)
    BY WithoutExecs DEF TypeOK
  <2>2. QED
    BY <2>1 DEF Without, Restrict
<1>3. /\ DOMAIN NoneFresh(others) = DOMAIN execs \ {s}
      /\ \A u \in DOMAIN NoneFresh(others) : NoneFresh(others)[u].key = execs[u].key
  BY <1>2, NoneFreshHeld
<1>4. \E trg : Finished(s, trg, others) \/ Finished(s, trg, NoneFresh(others))
  <2>1. CASE \E outcome \in {"canceled", "retryable"} : FinishRequeued(s, outcome)
    BY <2>1 DEF FinishRequeued
  <2>2. CASE FinishInterrupted(s)
    BY <2>2 DEF FinishInterrupted
  <2>3. CASE \E outcome \in {"permanent", "retryable"} : FinishFailed(s, outcome)
    BY <2>3 DEF FinishFailed
  <2>4. CASE FinishSucceeded(s)
    BY <2>4 DEF FinishSucceeded
  <2>5. QED
    BY <2>1, <2>2, <2>3, <2>4 DEF Finish
<1>5. QED
  BY <1>1, <1>2, <1>3, <1>4, FinishedEnds

LEMMA PassShape ==
  ASSUME TypeOK, Idle, Pass
  PROVE  Idle' /\ (Stays \/ Dies \/ \E s, task : Begins(s, task))
<1>1. CASE StartPass
  <2>1. Held' = Held
    BY <1>1, HeldSame DEF StartPass, manager, Alive
  <2>2. QED
    BY <1>1, <2>1 DEF StartPass, Idle, Alive, Stays
<1>2. ASSUME NEW task \in Periodic, CreatePeriodicTrigger(task)
      PROVE  Idle' /\ Stays
  <2>1. /\ DOMAIN execs' = DOMAIN execs
        /\ \A s \in DOMAIN execs : execs'[s].key = execs[s].key
    BY <1>2, SubmitLockedHeld DEF CreatePeriodicTrigger
  <2>2. Held' = Held
    BY <1>2, <2>1, HeldSame DEF CreatePeriodicTrigger, Alive
  <2>3. QED
    BY <1>2, <2>2 DEF CreatePeriodicTrigger, Idle, Alive, Stays
<1>3. CASE CreateWorkflowTrigger
  <2>1. /\ DOMAIN execs' = DOMAIN execs
        /\ \A s \in DOMAIN execs : execs'[s].key = execs[s].key
    BY <1>3, SubmitLockedHeld DEF CreateWorkflowTrigger
  <2>2. Held' = Held
    BY <1>3, <2>1, HeldSame DEF CreateWorkflowTrigger, Alive
  <2>3. QED
    BY <1>3, <2>2 DEF CreateWorkflowTrigger, Idle, Alive, Stays
<1>4. CASE Preempt
  <2>1. /\ DOMAIN execs' = DOMAIN execs
        /\ \A s \in DOMAIN execs : execs'[s].key = execs[s].key
    BY <1>4 DEF Preempt, TypeOK, ExecsOK, Execution
  <2>2. Held' = Held
    BY <1>4, <2>1, HeldSame DEF Preempt, Alive
  <2>3. QED
    BY <1>4, <2>2 DEF Preempt, Idle, Alive, Stays
<1>5. ASSUME NEW k \in Key, Admit(k)
      PROVE  Idle' /\ (Dies \/ \E s, task : Begins(s, task))
  <2>1. Alive
    BY <1>5 DEF Idle, Admit
  <2>2. CASE Panics
    BY <2>2, ForgetDies DEF Panics, Idle
  <2>3. CASE ~Panics
    <3> DEFINE s == NewSlot
               task == TaskOf[k]
    <3>1. /\ FreeSlots # {} /\ Admissible(k)
          /\ \E e : execs' = Put(execs, s, e) /\ e.key = k
          /\ resources' = AcquireResources(resources, s, task)
          /\ phase' = phase /\ loop' = loop
      BY <1>5, <2>3 DEF Admit
    <3>2. s \in Slot /\ s \notin DOMAIN execs
      BY <3>1 DEF NewSlot, FreeSlots
    <3>3. Active = DOMAIN execs /\ Active' = DOMAIN execs \cup {s}
      BY <2>1, <3>1 DEF Active, Alive, Put
    <3>4. Held' = Put(Held, s, task)
      <4>1. \A u \in DOMAIN execs \cup {s} :
              TaskOf[execs'[u].key] = IF u = s THEN task ELSE TaskOf[execs[u].key]
        BY <3>1 DEF Put
      <4>2. DOMAIN Held = DOMAIN execs /\ \A u \in DOMAIN execs : Held[u] = TaskOf[execs[u].key]
        BY <3>3 DEF Held
      <4>3. Held' = [u \in DOMAIN execs \cup {s} |-> TaskOf[execs'[u].key]]
        BY <3>3 DEF Held
      <4>4. QED
        BY <4>1, <4>2, <4>3 DEF Put
    <3>5. task \in Task
      BY SchedulerAssumption
    <3>6. s \notin DOMAIN Held
      BY <3>2, <3>3 DEF Held
    <3>7. Begins(s, task)
      BY <3>1, <3>2, <3>4, <3>5, <3>6 DEF Begins, Admissible
    <3>8. Idle'
      BY <2>1, <3>1 DEF Idle, Alive
    <3>9. QED
      BY <3>7, <3>8
  <2>4. QED
    BY <2>2, <2>3
<1>6. CASE EndPass
  <2>1. CASE Panics
    BY <2>1, ForgetDies DEF Panics, Idle
  <2>2. CASE ~Panics
    <3>1. loop' = "asleep" /\ UNCHANGED <<execs, phase, resources>>
      BY <1>6, <2>2 DEF EndPass
    <3>2. QED
      BY <3>1, HeldSame DEF Idle, Alive, Stays
  <2>3. QED
    BY <2>1, <2>2
<1>7. QED
  BY <1>1, <1>2, <1>3, <1>4, <1>5, <1>6 DEF Pass

LEMMA OtherShape ==
  ASSUME TypeOK, Idle, Recovery \/ TimePasses \/ Client \/ Process
  PROVE  Idle' /\ (Stays \/ Dies)
<1>1. ASSUME NEW s \in Slot, RecoverInterrupted(s)
      PROVE  Idle' /\ (Stays \/ Dies)
  <2>1. CASE Panics
    BY <2>1, ForgetDies DEF Panics, Idle
  <2>2. CASE ~Panics
    <3>1. phase = "recovering" /\ UNCHANGED <<phase, resources, loop>>
      BY <1>1, <2>2 DEF RecoverInterrupted
    <3>2. ~Alive /\ ~Alive'
      BY <3>1 DEF Alive
    <3>3. QED
      BY <3>1, <3>2, HeldNone DEF Stays, Idle
  <2>3. QED
    BY <2>1, <2>2
<1>2. CASE RecoveryDone
  <2>1. CASE Forget
    BY <2>1, ForgetDies DEF Idle
  <2>2. CASE ~Forget
    <3>1. execs = EmptyMap /\ UNCHANGED <<execs, resources, loop>> /\ phase' = "up" /\ ~Alive
      BY <1>2, <2>2 DEF RecoveryDone, manager, Alive
    <3>2. QED
      BY <3>1, HeldNone DEF Stays, Idle
  <2>3. QED
    BY <2>1, <2>2
<1>3. CASE TimePasses
  <2>1. UNCHANGED <<execs, phase, resources, loop>>
    BY <1>3 DEF TimePasses, DelayElapses, Age, QuietPeriodElapses, DeadlinePasses,
                WorkflowTimePasses, Tick, manager
  <2>2. QED
    BY <2>1, HeldSame DEF Idle, Alive, Stays
<1>4. CASE Client
  <2>1. /\ DOMAIN execs' = DOMAIN execs
        /\ \A s \in DOMAIN execs : execs'[s].key = execs[s].key
    <3>1. ASSUME NEW r \in Requests, Submit(r)
          PROVE  /\ DOMAIN execs' = DOMAIN execs
                 /\ \A s \in DOMAIN execs : execs'[s].key = execs[s].key
      BY <3>1, SubmitLockedHeld DEF Submit, manager
    <3>2. ASSUME NEW quiet \in BOOLEAN, AdvanceWorkflow(quiet)
          PROVE  /\ DOMAIN execs' = DOMAIN execs
                 /\ \A s \in DOMAIN execs : execs'[s].key = execs[s].key
      BY <3>2, NoneFreshHeld DEF AdvanceWorkflow, manager, TypeOK
    <3>3. QED
      BY <1>4, <3>1, <3>2 DEF Client
  <2>2. UNCHANGED <<phase, resources, loop>>
    BY <1>4 DEF Client, Submit, AdvanceWorkflow
  <2>3. QED
    BY <2>1, <2>2, HeldSame DEF Idle, Alive, Stays
<1>5. CASE Process
  <2>1. CASE Restart
    <3>1. ~Alive /\ ~Alive' /\ UNCHANGED <<resources, loop>>
      BY <2>1 DEF Restart, Alive
    <3>2. QED
      BY <3>1, HeldNone DEF Idle, Stays
  <2>2. CASE Crash \/ Stopped
    BY <2>2, ForgetDies DEF Crash, Stopped, Idle
  <2>3. CASE Shutdown \/ StopLoop \/ GraceExpires
    <3>1. UNCHANGED <<execs, resources>> /\ Alive /\ Alive'
      BY <2>3 DEF Shutdown, StopLoop, GraceExpires, manager, Alive
    <3>2. QED
      BY <3>1, HeldSame DEF Idle, Stays
  <2>4. QED
    BY <1>5, <2>1, <2>2, <2>3 DEF Process
<1>6. QED
  BY <1>1, <1>2, <1>3, <1>4, <1>5 DEF Recovery

LEMMA StepShape ==
  ASSUME TypeOK, Idle, [Next]_vars
  PROVE  /\ Idle'
         /\ Stays \/ Dies \/ (\E s, task : Begins(s, task)) \/ (\E s : Ends(s))
<1>1. CASE Pass
  BY <1>1, PassShape
<1>2. ASSUME NEW s \in Slot, Finish(s)
      PROVE  Idle' /\ Ends(s)
  <2>1. Alive' = Alive /\ Alive
    BY <1>2 DEF Finish, FinishRequeued, FinishInterrupted, FinishFailed, FinishSucceeded,
                Finished, Unlocked, Alive
  <2>2. QED
    BY <1>2, <2>1, FinishEnds DEF Idle
<1>3. CASE Recovery \/ TimePasses \/ Client \/ Process
  BY <1>3, OtherShape
<1>4. CASE UNCHANGED vars
  BY <1>4, HeldSame DEF vars, manager, Idle, Alive, Stays
<1>5. QED
  BY <1>1, <1>2, <1>3, <1>4 DEF Next

(* The inductive invariant: the table records exactly the claims of the     *)
(* active executions, and they are compatible.                              *)
TableInv == Records(resources, Held) /\ Compatible(Held)

LEMMA DeadTable == Records(AllFree, EmptyMap) /\ Compatible(EmptyMap)
BY DEF Records, Compatible, Holding, AllFree, Free, EmptyMap

LEMMA TableKept ==
  ASSUME TableInv, Stays \/ Dies \/ (\E s, task : Begins(s, task)) \/ (\E s : Ends(s))
  PROVE  TableInv'
<1>1. CASE Stays
  <2>1. resources' = resources /\ Held' = Held
    BY <1>1 DEF Stays
  <2>2. Records(resources', Held') /\ Compatible(Held')
    BY <2>1 DEF TableInv
  <2>3. QED
    BY <2>2 DEF TableInv, Records, Compatible, Holding
<1>2. CASE Dies
  BY <1>2, DeadTable DEF Dies, TableInv, Records, Compatible, Holding
<1>3. ASSUME NEW s, NEW task, Begins(s, task)
      PROVE  TableInv'
  <2>1. /\ ~ResourceConflict(resources, task) /\ s \notin DOMAIN Held
        /\ resources' = AcquireResources(resources, s, task)
        /\ Held' = Put(Held, s, task)
    BY <1>3 DEF Begins
  <2>2. Records(resources', Held')
    BY <2>1, AcquireRecords DEF TableInv
  <2>3. Compatible(Held')
    <3>1. \A u \in DOMAIN Held : ~ClaimsConflict(task, Held[u]) /\ ~ClaimsConflict(Held[u], task)
      BY <2>1, NoConflictInTable DEF TableInv
    <3>2. /\ DOMAIN Held' = DOMAIN Held \cup {s} /\ Held'[s] = task
          /\ \A u \in DOMAIN Held : Held'[u] = Held[u]
      BY <2>1 DEF Put
    <3>3. QED
      BY <3>1, <3>2 DEF TableInv, Compatible
  <2>4. QED
    BY <2>2, <2>3 DEF TableInv, Records, Compatible, Holding
<1>4. ASSUME NEW s, Ends(s)
      PROVE  TableInv'
  <2>1. /\ s \in DOMAIN Held
        /\ resources' = ReleaseResources(resources, s, Held[s])
        /\ Held' = Without(Held, s)
    BY <1>4 DEF Ends
  <2>2. Records(resources', Held')
    BY <2>1, ReleaseRecords DEF TableInv
  <2>3. Compatible(Held')
    BY <2>1 DEF TableInv, Compatible, Without, Restrict
  <2>4. QED
    BY <2>2, <2>3 DEF TableInv, Records, Compatible, Holding
<1>5. QED
  BY <1>1, <1>2, <1>3, <1>4

LEMMA TableStep ==
  ASSUME TypeOK, Idle, TableInv, [Next]_vars
  PROVE  TableInv'
BY StepShape, TableKept

LEMMA TableInit == Init => Idle /\ TableInv
<1> SUFFICES ASSUME Init PROVE Idle /\ TableInv
  OBVIOUS
<1>1. Held = EmptyMap /\ resources = AllFree
  BY HeldNone DEF Init
<1>2. QED
  BY <1>1, DeadTable DEF Init, Idle, TableInv

(* The table is never wrong about an execution, in every behaviour.         *)
THEOREM TableExact == Spec => [](Idle /\ TableInv)
<1>1. Init => Idle /\ TableInv
  BY TableInit
<1>2. TypeOK /\ (Idle /\ TableInv) /\ [Next]_vars => (Idle /\ TableInv)'
  BY StepShape, TableStep
<1>3. QED
  BY <1>1, <1>2, TypeCorrect, PTL DEF Spec

(* Two executions whose claims conflict never overlap, for every set of     *)
(* tasks and claims: admission tests the whole claim set against the table, *)
(* and only the return of the runner gives it back - not a cancellation.    *)
THEOREM ClaimsRespected == Spec => []NoConflictingClaims
<1>1. TableInv => NoConflictingClaims
  <2> SUFFICES ASSUME TableInv, NEW s \in Active, NEW u \in Active, s # u
               PROVE  ~ClaimsConflict(TaskOf[execs[s].key], TaskOf[execs[u].key])
    BY DEF NoConflictingClaims
  <2>1. DOMAIN Held = Active /\ \A v \in Active : Held[v] = TaskOf[execs[v].key]
    BY DEF Held
  <2>2. QED
    BY <2>1 DEF TableInv, Compatible
<1>2. QED
  BY <1>1, TableExact, PTL

-----------------------------------------------------------------------------
(* 4. Refinement *)

LEMMA SameConflict ==
  \A first, second : Arb!ClaimsConflict(first, second) <=> ClaimsConflict(first, second)
BY DEF Arb!ClaimsConflict, Arb!Claimed, Arb!Mode, ClaimsConflict, Claimed, Mode

LEMMA StepRefines ==
  ASSUME TypeOK, Idle, TableInv, [Next]_vars
  PROVE  [Arb!Next]_Held
<1>1. CASE Stays
  BY <1>1 DEF Stays
<1>2. CASE Dies
  <2>1. Arb!ProcessDies
    BY <1>2 DEF Dies, Arb!ProcessDies, EmptyMap, Held
  <2>2. QED
    BY <2>1 DEF Arb!Next
<1>3. ASSUME NEW s, NEW task, Begins(s, task)
      PROVE  Arb!Next
  <2>1. \A u \in DOMAIN Held : ~Arb!ClaimsConflict(task, Held[u])
    BY <1>3, NoConflictInTable, SameConflict DEF Begins, TableInv
  <2>2. Arb!Begin(s, task)
    BY <1>3, <2>1 DEF Begins, Arb!Begin, Put, Held
  <2>3. QED
    BY <1>3, <2>2 DEF Begins, Arb!Next
<1>4. ASSUME NEW s, Ends(s)
      PROVE  Arb!Next
  <2>1. Arb!End(s)
    BY <1>4 DEF Ends, Arb!End, Without, Restrict, Held
  <2>2. QED
    BY <1>4, <2>1 DEF Ends, Arb!Next
<1>5. QED
  BY <1>1, <1>2, <1>3, <1>4, StepShape

(* The scheduler, with its queue, priorities, table, preemption, restarts   *)
(* and failing saves, implements the arbiter that knows only claims.        *)
THEOREM SchedulerImplementsArbiter == Spec => ImplementsArbiter
<1>1. Init => Arb!Init
  BY HeldNone DEF Init, Arb!Init, Held, EmptyMap, Alive
<1>2. TypeOK /\ Idle /\ TableInv /\ [Next]_vars => [Arb!Next]_Held
  BY StepRefines
<1>3. QED
  BY <1>1, <1>2, TypeCorrect, TableExact, PTL DEF Spec, ImplementsArbiter, Arb!Spec, Held
=============================================================================
