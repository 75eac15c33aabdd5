------------------------------ MODULE Arbiter -------------------------------
(***************************************************************************)
(* What the scheduler promises about named resources (Scheduler-Spec.md    *)
(* section 7, guarantees 4 and 5 of section 2), with no table, queue or    *)
(* priority: an execution may begin only while no execution with a         *)
(* conflicting claim is under way, claims are taken all at once, and they  *)
(* are given back only when that execution ends.  A process that dies      *)
(* takes all its executions with it.                                       *)
(***************************************************************************)
EXTENDS ResourceClaims

VARIABLE holder   \* the executions under way: slot -> task

Init == holder = [s \in {} |-> s]

Begin(s, task) ==
  /\ s \notin DOMAIN holder
  /\ \A u \in DOMAIN holder : ~ClaimsConflict(task, holder[u])
  /\ holder' = [u \in DOMAIN holder \cup {s} |-> IF u = s THEN task ELSE holder[u]]

End(s) ==
  /\ s \in DOMAIN holder
  /\ holder' = [u \in DOMAIN holder \ {s} |-> holder[u]]

ProcessDies == holder' = [s \in {} |-> s]

Next ==
  \/ \E s \in Slot, task \in Task : Begin(s, task)
  \/ \E s \in Slot : End(s)
  \/ ProcessDies

Spec == Init /\ [][Next]_holder
=============================================================================
