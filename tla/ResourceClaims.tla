--------------------------- MODULE ResourceClaims ---------------------------
(***************************************************************************)
(* The resource table of internal/tasks/manager.go: which execution holds  *)
(* which named resource, in which mode, and how the scheduler tests,       *)
(* acquires and releases the static claims of a task definition.           *)
(*                                                                         *)
(* Go keeps map[string]*resourceUse and deletes an entry nobody uses; here *)
(* the table is total and an unused resource maps to Free.  The exclusive  *)
(* holder, a string that is empty when there is none, is a set with at     *)
(* most one element.                                                       *)
(***************************************************************************)
CONSTANTS
  Task,       \* task definition IDs
  Resource,   \* resource names ("owner-filesystem-mutation", ...)
  Slot,       \* identities of concurrently running executions
  Claims      \* Definition.Resources: task -> set of <<resource, mode>>

Mode == {"shared", "exclusive"}

ASSUME ClaimsAssumption == Claims \in [Task -> SUBSET (Resource \X Mode)]

Use == [shared : SUBSET Slot, exclusive : SUBSET Slot]
Free == [shared |-> {}, exclusive |-> {}]
AllFree == [r \in Resource |-> Free]

Claimed(task, r, mode) == <<r, mode>> \in Claims[task]

(* Mutation: only exclusive holders are waited for. *)
ExclusiveConflict(table, task) ==
  \E r \in Resource : Claims[task] \cap ({r} \X Mode) # {} /\ table[r].exclusive # {}

(* Would `task` have to wait for the holders recorded in the table? *)
ResourceConflict(table, task) ==
  \E r \in Resource :
    \/ Claimed(task, r, "exclusive") /\ table[r].shared \cup table[r].exclusive # {}
    \/ Claimed(task, r, "shared") /\ table[r].exclusive # {}

AcquireResources(table, s, task) ==
  [r \in Resource |->
    [shared    |-> IF Claimed(task, r, "shared") THEN table[r].shared \cup {s}
                   ELSE table[r].shared,
     exclusive |-> IF Claimed(task, r, "exclusive") THEN {s} ELSE table[r].exclusive]]

ReleaseResources(table, s, task) ==
  [r \in Resource |->
    [shared    |-> IF Claimed(task, r, "shared") THEN table[r].shared \ {s}
                   ELSE table[r].shared,
     exclusive |-> IF Claimed(task, r, "exclusive") THEN table[r].exclusive \ {s}
                   ELSE table[r].exclusive]]

(* Two definitions claim one resource and at least one of them exclusively. *)
ClaimsConflict(first, second) ==
  \E r \in Resource :
    \/ Claimed(first, r, "exclusive") /\ \E m \in Mode : Claimed(second, r, m)
    \/ Claimed(second, r, "exclusive") /\ \E m \in Mode : Claimed(first, r, m)
=============================================================================
