---------------------------- MODULE TriggerProofs ----------------------------
(***************************************************************************)
(* Proofs that the scheduler keeps its books: which intent or execution    *)
(* answers for which trigger.                                              *)
(*                                                                         *)
(*   1. Books relates the triggers to the intents and executions that hold *)
(*      them.  It is stated of any four maps, because it has to hold of    *)
(*      the manager's and of the copy on disk, and each thing the code     *)
(*      does to the maps (attach, coalesce, admit, requeue, settle,        *)
(*      withdraw, trim, save) has a lemma of its own.                      *)
(*   2. Every operation of the manager keeps the books of the manager.     *)
(*   3. The copy on disk has them right too, and knows every accepted      *)
(*      trigger.                                                           *)
(*   4. The theorems.                                                      *)
(***************************************************************************)
EXTENDS SchedulerProofs

-----------------------------------------------------------------------------
(* 1. Books *)

(* Only IDs that were given out are in use; an ID may outlive its trigger. *)
IDsIssued(pend, ex, last) ==
  /\ \A k \in DOMAIN pend : pend[k].triggers \subseteq 1 .. last
  /\ \A s \in DOMAIN ex : ex[s].triggers \subseteq 1 .. last

QueuedRight(trg, pend) ==
  \A k \in DOMAIN pend : \A t \in pend[k].triggers \cap DOMAIN trg :
    /\ trg[t].state \in {"pending", "waiting"}
    /\ trg[t].key = k
    /\ trg[t].coverage <= pend[k].coverage

ServedRight(trg, ex) ==
  \A s \in DOMAIN ex : \A t \in ex[s].triggers \cap DOMAIN trg :
    /\ trg[t].state \in {"running", "attached"}
    /\ trg[t].key = ex[s].key
    /\ trg[t].coverage <= ex[s].coverage
    /\ TaskOf[ex[s].key] \in FullScan /\ ex[s].targeted => trg[t].kind = "workflow"
    /\ \A u \in DOMAIN ex \ {s} : t \notin ex[u].triggers

Kept(trg, pend, ex) ==
  \A t \in DOMAIN trg :
    /\ trg[t].state \in {"pending", "waiting"} =>
         trg[t].key \in DOMAIN pend /\ t \in pend[trg[t].key].triggers
    /\ trg[t].state \in {"running", "attached"} => \E s \in DOMAIN ex : t \in ex[s].triggers

Books(trg, pend, ex, last) ==
  IDsIssued(pend, ex, last) /\ QueuedRight(trg, pend) /\ ServedRight(trg, ex)
    /\ Kept(trg, pend, ex)

(* What the maps must look like for the lemmas below. *)
Shaped(trg, pend, ex, last) ==
  /\ last \in Nat /\ TriggersOK(trg, last) /\ PendingOK(pend) /\ ExecsOK(ex)

(* trg2 is trg with the triggers in ids put into one of the states. *)
Marking(trg, trg2, ids, states) ==
  /\ DOMAIN trg2 = DOMAIN trg
  /\ \A t \in DOMAIN trg :
       /\ trg2[t].key = trg[t].key /\ trg2[t].coverage = trg[t].coverage
       /\ trg2[t].kind = trg[t].kind /\ trg2[t].durable = trg[t].durable
       /\ t \in ids => trg2[t].state \in states
       /\ t \notin ids => trg2[t].state = trg[t].state

(* What is settled stays as it is. *)
Follows(trg, trg2) ==
  \A t \in DOMAIN trg \cap DOMAIN trg2 :
    /\ trg2[t].key = trg[t].key /\ trg2[t].kind = trg[t].kind
    /\ trg2[t].durable = trg[t].durable
    /\ trg[t].state \in Terminal => trg2[t].state = trg[t].state

(* Nobody holds a settled trigger, so marking what somebody holds settles   *)
(* nothing twice.                                                           *)
LEMMA MarkingFollows ==
  ASSUME NEW trg, NEW trg2, NEW ids, NEW states, Marking(trg, trg2, ids, states),
         \A t \in ids \cap DOMAIN trg : trg[t].state \notin Terminal
  PROVE  Follows(trg, trg2)
BY DEF Marking, Follows

LEMMA HeldIsUnsettled ==
  ASSUME NEW trg, NEW pend, NEW ex, NEW last, Books(trg, pend, ex, last)
  PROVE  /\ \A k \in DOMAIN pend : \A t \in pend[k].triggers \cap DOMAIN trg :
              trg[t].state \notin Terminal
         /\ \A s \in DOMAIN ex : \A t \in ex[s].triggers \cap DOMAIN trg :
              trg[t].state \notin Terminal
BY DEF Books, QueuedRight, ServedRight, Terminal

(* Trimming forgets triggers, and nothing else. *)
LEMMA Fewer ==
  ASSUME NEW trg, NEW pend, NEW ex, NEW last, Books(trg, pend, ex, last),
         NEW D \in SUBSET DOMAIN trg
  PROVE  Books(Restrict(trg, D), pend, ex, last) /\ Follows(trg, Restrict(trg, D))
<1>1. /\ DOMAIN Restrict(trg, D) = D
      /\ \A t \in D : Restrict(trg, D)[t] = trg[t]
  BY DEF Restrict
<1> DEFINE trg2 == Restrict(trg, D)
<1> HIDE DEF trg2
<1>2. DOMAIN trg2 = D /\ \A t \in D : trg2[t] = trg[t]
  BY <1>1 DEF trg2
<1>3. QueuedRight(trg2, pend)
  BY <1>2 DEF Books, QueuedRight
<1>4. ServedRight(trg2, ex)
  BY <1>2 DEF Books, ServedRight
<1>5. Kept(trg2, pend, ex)
  BY <1>2 DEF Books, Kept
<1>6. Books(trg2, pend, ex, last) /\ Follows(trg, trg2)
  BY <1>2, <1>3, <1>4, <1>5 DEF Books, Follows
<1>7. QED
  BY <1>6 DEF trg2

(* Flags, priorities, ages and positions do not matter to the books. *)
LEMMA Alike ==
  ASSUME NEW trg, NEW pend, NEW ex, NEW last, Books(trg, pend, ex, last),
         NEW pend2, DOMAIN pend2 = DOMAIN pend,
         \A k \in DOMAIN pend : /\ pend2[k].triggers = pend[k].triggers
                                /\ pend2[k].coverage = pend[k].coverage,
         NEW ex2, DOMAIN ex2 = DOMAIN ex,
         \A s \in DOMAIN ex : /\ ex2[s].triggers = ex[s].triggers /\ ex2[s].key = ex[s].key
                              /\ ex2[s].coverage = ex[s].coverage
                              /\ ex2[s].targeted = ex[s].targeted
  PROVE  Books(trg, pend2, ex2, last)
<1>1. IDsIssued(pend2, ex2, last)
  BY DEF Books, IDsIssued
<1>2. QueuedRight(trg, pend2)
  BY DEF Books, QueuedRight
<1>3. ServedRight(trg, ex2)
  BY DEF Books, ServedRight
<1>4. Kept(trg, pend2, ex2)
  BY DEF Books, Kept
<1>5. QED
  BY <1>1, <1>2, <1>3, <1>4 DEF Books

(* EndPass marks what is blocked. *)
LEMMA Deferred ==
  ASSUME NEW trg, NEW pend, NEW ex, NEW last, Books(trg, pend, ex, last),
         NEW ids, \A t \in ids \cap DOMAIN trg : trg[t].state \in {"pending", "waiting"},
         NEW trg2, Marking(trg, trg2, ids, {"waiting"})
  PROVE  Books(trg2, pend, ex, last)
<1>1. \A t \in DOMAIN trg :
        /\ trg[t].state \in {"pending", "waiting"} <=> trg2[t].state \in {"pending", "waiting"}
        /\ trg[t].state \in {"running", "attached"} <=> trg2[t].state \in {"running", "attached"}
  BY DEF Marking
<1>2. QueuedRight(trg2, pend)
  BY <1>1 DEF Books, QueuedRight, Marking
<1>3. ServedRight(trg2, ex)
  BY <1>1 DEF Books, ServedRight, Marking
<1>4. Kept(trg2, pend, ex)
  BY <1>1 DEF Books, Kept, Marking
<1>5. QED
  BY <1>2, <1>3, <1>4 DEF Books

(* Admit turns an intent into an execution of its own. *)
LEMMA Admitted ==
  ASSUME NEW trg, NEW pend, NEW ex, NEW last, Books(trg, pend, ex, last),
         NEW k \in DOMAIN pend, NEW s, s \notin DOMAIN ex,
         NEW trg2, Marking(trg, trg2, pend[k].triggers, {"running"}),
         NEW pend2, DOMAIN pend2 = DOMAIN pend \ {k},
         \A j \in DOMAIN pend2 : /\ pend2[j].triggers = pend[j].triggers
                                 /\ pend2[j].coverage = pend[j].coverage,
         NEW ex2, DOMAIN ex2 = DOMAIN ex \cup {s}, \A u \in DOMAIN ex : ex2[u] = ex[u],
         ex2[s].key = k, ex2[s].triggers = pend[k].triggers, ex2[s].coverage = pend[k].coverage,
         ex2[s].targeted => \A t \in pend[k].triggers \cap DOMAIN trg : trg[t].kind = "workflow"
  PROVE  Books(trg2, pend2, ex2, last)
<1>1. IDsIssued(pend2, ex2, last)
  BY DEF Books, IDsIssued
<1>2. QueuedRight(trg2, pend2)
  <2>1. ASSUME NEW j \in DOMAIN pend2, NEW t \in pend2[j].triggers \cap DOMAIN trg2
        PROVE  t \notin pend[k].triggers /\ t \in pend[j].triggers \cap DOMAIN trg /\ j # k
    BY DEF Books, QueuedRight, Marking
  <2>2. QED
    BY <2>1 DEF Books, QueuedRight, Marking
<1>3. ServedRight(trg2, ex2)
  <2>1. ASSUME NEW u \in DOMAIN ex, NEW t \in ex[u].triggers \cap DOMAIN trg
        PROVE  t \notin pend[k].triggers
    BY DEF Books, QueuedRight, ServedRight
  <2>2. ASSUME NEW u \in DOMAIN ex, NEW t \in ex2[u].triggers \cap DOMAIN trg2
        PROVE  /\ trg2[t].state \in {"running", "attached"}
               /\ trg2[t].key = ex2[u].key
               /\ trg2[t].coverage <= ex2[u].coverage
               /\ TaskOf[ex2[u].key] \in FullScan /\ ex2[u].targeted => trg2[t].kind = "workflow"
               /\ \A v \in DOMAIN ex2 \ {u} : t \notin ex2[v].triggers
    BY <2>1 DEF Books, ServedRight, Marking
  <2>3. ASSUME NEW t \in ex2[s].triggers \cap DOMAIN trg2
        PROVE  /\ trg2[t].state \in {"running", "attached"}
               /\ trg2[t].key = ex2[s].key
               /\ trg2[t].coverage <= ex2[s].coverage
               /\ TaskOf[ex2[s].key] \in FullScan /\ ex2[s].targeted => trg2[t].kind = "workflow"
               /\ \A v \in DOMAIN ex2 \ {s} : t \notin ex2[v].triggers
    BY <2>1 DEF Books, QueuedRight, Marking
  <2>4. QED
    BY <2>2, <2>3 DEF ServedRight
<1>4. Kept(trg2, pend2, ex2)
  <2>1. ASSUME NEW t \in DOMAIN trg2, trg2[t].state \in {"pending", "waiting"}
        PROVE  trg2[t].key \in DOMAIN pend2 /\ t \in pend2[trg2[t].key].triggers
    BY <2>1 DEF Books, Kept, Marking
  <2>2. ASSUME NEW t \in DOMAIN trg2, trg2[t].state \in {"running", "attached"}
        PROVE  \E u \in DOMAIN ex2 : t \in ex2[u].triggers
    <3>1. CASE t \in pend[k].triggers
      BY <3>1
    <3>2. CASE t \notin pend[k].triggers
      BY <2>2, <3>2 DEF Books, Kept, Marking
    <3>3. QED
      BY <3>1, <3>2
  <2>3. QED
    BY <2>1, <2>2 DEF Kept
<1>5. QED
  BY <1>1, <1>2, <1>3, <1>4 DEF Books

(* The runner's result settles every trigger of its execution. *)
LEMMA SettledBooks ==
  ASSUME NEW trg, NEW pend, NEW ex, NEW last, Books(trg, pend, ex, last),
         NEW s \in DOMAIN ex,
         NEW trg2, Marking(trg, trg2, ex[s].triggers, Terminal),
         NEW ex2, DOMAIN ex2 = DOMAIN ex \ {s}, \A u \in DOMAIN ex2 : ex2[u] = ex[u]
  PROVE  Books(trg2, pend, ex2, last)
<1>1. IDsIssued(pend, ex2, last)
  BY DEF Books, IDsIssued
<1>2. \A k \in DOMAIN pend : \A t \in pend[k].triggers \cap DOMAIN trg : t \notin ex[s].triggers
  BY DEF Books, QueuedRight, ServedRight
<1>3. QueuedRight(trg2, pend)
  BY <1>2 DEF Books, QueuedRight, Marking
<1>4. ServedRight(trg2, ex2)
  <2>1. \A u \in DOMAIN ex2 : \A t \in ex2[u].triggers \cap DOMAIN trg : t \notin ex[s].triggers
    BY DEF Books, ServedRight
  <2>2. QED
    BY <2>1 DEF Books, ServedRight, Marking
<1>5. Kept(trg2, pend, ex2)
  <2>1. ASSUME NEW t \in DOMAIN trg2, trg2[t].state \notin Terminal
        PROVE  t \notin ex[s].triggers /\ trg2[t].state = trg[t].state /\ trg2[t].key = trg[t].key
    BY <2>1 DEF Marking
  <2>2. {"pending", "waiting", "running", "attached"} \cap Terminal = {}
    BY DEF Terminal
  <2>3. QED
    BY <2>1, <2>2 DEF Books, Kept, Marking
<1>6. QED
  BY <1>1, <1>3, <1>4, <1>5 DEF Books

(* A requeue merges an execution into the intent of its key. *)
LEMMA RequeuedBooks ==
  ASSUME NEW trg, NEW pend, NEW ex, NEW last, Books(trg, pend, ex, last),
         Shaped(trg, pend, ex, last), NEW s \in DOMAIN ex,
         NEW trg2, Marking(trg, trg2, ex[s].triggers, {"pending"}),
         NEW ex2, DOMAIN ex2 = DOMAIN ex \ {s}, \A u \in DOMAIN ex2 : ex2[u] = ex[u],
         NEW pend2, PendingOK(pend2), DOMAIN pend2 = DOMAIN pend \cup {ex[s].key},
         \A j \in DOMAIN pend \ {ex[s].key} : pend2[j] = pend[j],
         pend2[ex[s].key].triggers =
           ex[s].triggers \cup (IF ex[s].key \in DOMAIN pend THEN pend[ex[s].key].triggers ELSE {}),
         ex[s].coverage <= pend2[ex[s].key].coverage,
         ex[s].key \in DOMAIN pend => pend[ex[s].key].coverage <= pend2[ex[s].key].coverage
  PROVE  Books(trg2, pend2, ex2, last)
<1> DEFINE k == ex[s].key
<1>0. /\ \A j \in DOMAIN pend : pend[j].coverage \in Nat
      /\ \A j \in DOMAIN pend2 : pend2[j].coverage \in Nat
      /\ \A u \in DOMAIN ex : ex[u].coverage \in Nat
      /\ \A t \in DOMAIN trg : trg[t].coverage \in Nat
  BY DEF Shaped, PendingOK, ExecsOK, TriggersOK, Intent, Execution, Trigger
<1>1. IDsIssued(pend2, ex2, last)
  BY DEF Books, IDsIssued
<1>2. ASSUME NEW j \in DOMAIN pend, NEW t \in pend[j].triggers \cap DOMAIN trg
      PROVE  /\ t \notin ex[s].triggers
             /\ trg2[t].state \in {"pending", "waiting"} /\ trg2[t].key = j
             /\ trg2[t].coverage <= pend[j].coverage
  BY DEF Books, QueuedRight, ServedRight, Marking
<1>3. QueuedRight(trg2, pend2)
  <2>1. ASSUME NEW j \in DOMAIN pend2 \ {k}, NEW t \in pend2[j].triggers \cap DOMAIN trg2
        PROVE  /\ trg2[t].state \in {"pending", "waiting"} /\ trg2[t].key = j
               /\ trg2[t].coverage <= pend2[j].coverage
    BY <1>2 DEF Marking
  <2>2. ASSUME NEW t \in ex[s].triggers \cap DOMAIN trg2
        PROVE  /\ trg2[t].state \in {"pending", "waiting"} /\ trg2[t].key = k
               /\ trg2[t].coverage <= pend2[k].coverage
    <3>1. /\ trg2[t].state = "pending" /\ trg2[t].key = k
          /\ trg2[t].coverage <= ex[s].coverage /\ trg2[t].coverage \in Nat
      BY <1>0 DEF Books, ServedRight, Marking
    <3>2. QED
      BY <1>0, <3>1
  <2>3. ASSUME k \in DOMAIN pend, NEW t \in pend[k].triggers \cap DOMAIN trg2
        PROVE  /\ trg2[t].state \in {"pending", "waiting"} /\ trg2[t].key = k
               /\ trg2[t].coverage <= pend2[k].coverage
    <3>1. t \in DOMAIN trg
      BY DEF Marking
    <3>2. /\ trg2[t].state \in {"pending", "waiting"} /\ trg2[t].key = k
          /\ trg2[t].coverage <= pend[k].coverage /\ trg2[t].coverage \in Nat
      BY <1>0, <1>2, <2>3, <3>1 DEF Marking
    <3>3. QED
      BY <1>0, <2>3, <3>2
  <2>4. QED
    BY <2>1, <2>2, <2>3 DEF QueuedRight
<1>4. ServedRight(trg2, ex2)
  <2>1. \A u \in DOMAIN ex2 : \A t \in ex2[u].triggers \cap DOMAIN trg : t \notin ex[s].triggers
    BY DEF Books, ServedRight
  <2>2. QED
    BY <2>1 DEF Books, ServedRight, Marking
<1>5. Kept(trg2, pend2, ex2)
  <2>1. ASSUME NEW t \in DOMAIN trg2, t \in ex[s].triggers
        PROVE  trg2[t].state = "pending" /\ trg2[t].key = k /\ t \in pend2[k].triggers
    BY <2>1 DEF Books, ServedRight, Marking
  <2>2. ASSUME NEW t \in DOMAIN trg2, t \notin ex[s].triggers
        PROVE  /\ trg2[t].state \in {"pending", "waiting"} =>
                    trg2[t].key \in DOMAIN pend2 /\ t \in pend2[trg2[t].key].triggers
               /\ trg2[t].state \in {"running", "attached"} =>
                    \E u \in DOMAIN ex2 : t \in ex2[u].triggers
    BY <2>2 DEF Books, Kept, Marking
  <2>3. QED
    BY <2>1, <2>2 DEF Kept
<1>6. QED
  BY <1>1, <1>3, <1>4, <1>5 DEF Books

(* A trigger that waits is withdrawn from its intent. *)
LEMMA WithdrawnBooks ==
  ASSUME NEW trg, NEW pend, NEW ex, NEW last, Books(trg, pend, ex, last),
         NEW t \in DOMAIN trg, trg[t].state \in {"pending", "waiting"},
         NEW trg2, Marking(trg, trg2, {t}, {"cancelled"}),
         NEW pend2, DOMAIN pend2 \subseteq DOMAIN pend,
         \A j \in DOMAIN pend \ DOMAIN pend2 : pend[j].triggers \subseteq {t},
         \A j \in DOMAIN pend2 : /\ pend2[j].triggers = pend[j].triggers \ {t}
                                 /\ pend2[j].coverage = pend[j].coverage
  PROVE  Books(trg2, pend2, ex, last)
<1>1. IDsIssued(pend2, ex, last)
  BY DEF Books, IDsIssued
<1>2. QueuedRight(trg2, pend2)
  BY DEF Books, QueuedRight, Marking
<1>3. ServedRight(trg2, ex)
  <2>1. \A s \in DOMAIN ex : t \notin ex[s].triggers
    BY DEF Books, ServedRight
  <2>2. QED
    BY <2>1 DEF Books, ServedRight, Marking
<1>4. Kept(trg2, pend2, ex)
  <2>1. ASSUME NEW x \in DOMAIN trg2, x # t
        PROVE  /\ trg2[x].state \in {"pending", "waiting"} =>
                    trg2[x].key \in DOMAIN pend2 /\ x \in pend2[trg2[x].key].triggers
               /\ trg2[x].state \in {"running", "attached"} => \E s \in DOMAIN ex : x \in ex[s].triggers
    BY <2>1 DEF Books, Kept, Marking
  <2>2. trg2[t].state = "cancelled"
    BY DEF Marking
  <2>3. QED
    BY <2>1, <2>2 DEF Kept
<1>5. QED
  BY <1>1, <1>2, <1>3, <1>4 DEF Books

(* A new ID is nobody's yet. *)
LEMMA NewIDs ==
  ASSUME NEW trg, NEW pend, NEW ex, NEW last, Books(trg, pend, ex, last),
         Shaped(trg, pend, ex, last)
  PROVE  /\ last + 1 \notin DOMAIN trg
         /\ \A k \in DOMAIN pend : last + 1 \notin pend[k].triggers
         /\ \A s \in DOMAIN ex : last + 1 \notin ex[s].triggers
         /\ 1 .. last \subseteq 1 .. (last + 1) /\ last + 1 \in 1 .. (last + 1)
<1>1. last \in Nat
  BY DEF Shaped
<1>2. last + 1 \notin 1 .. last /\ 1 .. last \subseteq 1 .. (last + 1) /\ last + 1 \in 1 .. (last + 1)
  BY <1>1
<1>3. QED
  BY <1>2 DEF Books, IDsIssued, Shaped, TriggersOK

(* A request joins the execution of its key that reads enough for it. *)
LEMMA AttachedBooks ==
  ASSUME NEW trg, NEW pend, NEW ex, NEW last, Books(trg, pend, ex, last),
         Shaped(trg, pend, ex, last), NEW s \in DOMAIN ex,
         NEW new, new.state = "attached", new.key = ex[s].key, new.coverage <= ex[s].coverage,
         TaskOf[ex[s].key] \in FullScan /\ ex[s].targeted => new.kind = "workflow"
  PROVE  Books(Put(trg, last + 1, new), pend,
               [ex EXCEPT ![s].triggers = @ \cup {last + 1}], last + 1)
<1> DEFINE t == last + 1
           trg2 == Put(trg, t, new)
           ex2 == [ex EXCEPT ![s].triggers = @ \cup {t}]
<1>1. DOMAIN trg2 = DOMAIN trg \cup {t} /\ trg2[t] = new
  BY DEF Put
<1>2. \A x \in DOMAIN trg : trg2[x] = trg[x]
  BY NewIDs DEF Put
<1>3. /\ t \notin DOMAIN trg
      /\ \A k \in DOMAIN pend : t \notin pend[k].triggers
      /\ \A u \in DOMAIN ex : t \notin ex[u].triggers
      /\ 1 .. last \subseteq 1 .. t /\ t \in 1 .. t
  BY NewIDs
<1>4. ex[s] \in Execution /\ DOMAIN ex2 = DOMAIN ex
  BY DEF Shaped, ExecsOK
<1>5. /\ \A u \in DOMAIN ex \ {s} : ex2[u] = ex[u]
      /\ ex2[s].triggers = ex[s].triggers \cup {t} /\ ex2[s].key = ex[s].key
      /\ ex2[s].coverage = ex[s].coverage /\ ex2[s].targeted = ex[s].targeted
  BY <1>4 DEF Execution
<1> HIDE DEF t, trg2, ex2
<1>6. IDsIssued(pend, ex2, t)
  BY <1>3, <1>4, <1>5 DEF Books, IDsIssued
<1>7. QueuedRight(trg2, pend)
  BY <1>1, <1>2, <1>3 DEF Books, QueuedRight
<1>8. ServedRight(trg2, ex2)
  <2>1. ASSUME NEW u \in DOMAIN ex, NEW x \in ex[u].triggers \cap DOMAIN trg
        PROVE  /\ trg2[x].state \in {"running", "attached"} /\ trg2[x].key = ex2[u].key
               /\ trg2[x].coverage <= ex2[u].coverage
               /\ TaskOf[ex2[u].key] \in FullScan /\ ex2[u].targeted => trg2[x].kind = "workflow"
               /\ \A v \in DOMAIN ex2 \ {u} : x \notin ex2[v].triggers
    <3>1. /\ trg[x].state \in {"running", "attached"} /\ trg[x].key = ex[u].key
          /\ trg[x].coverage <= ex[u].coverage
          /\ TaskOf[ex[u].key] \in FullScan /\ ex[u].targeted => trg[x].kind = "workflow"
          /\ \A v \in DOMAIN ex \ {u} : x \notin ex[v].triggers
      BY DEF Books, ServedRight
    <3>2. x # t /\ trg2[x] = trg[x]
      BY <1>2, <1>3
    <3>3. /\ ex2[u].key = ex[u].key /\ ex2[u].coverage = ex[u].coverage
          /\ ex2[u].targeted = ex[u].targeted
      BY <1>5
    <3>4. \A v \in DOMAIN ex2 \ {u} : x \notin ex2[v].triggers
      BY <1>4, <1>5, <3>1, <3>2
    <3>5. QED
      BY <3>1, <3>2, <3>3, <3>4
  <2>2. ASSUME NEW u \in DOMAIN ex2, NEW x \in ex2[u].triggers \cap DOMAIN trg2
        PROVE  u \in DOMAIN ex /\ (x \in ex[u].triggers \cap DOMAIN trg \/ (u = s /\ x = t))
    BY <1>1, <1>3, <1>4, <1>5
  <2>3. \A v \in DOMAIN ex2 \ {s} : t \notin ex2[v].triggers
    BY <1>3, <1>4, <1>5
  <2>4. /\ trg2[t].state = "attached" /\ trg2[t].key = ex2[s].key
        /\ trg2[t].coverage <= ex2[s].coverage
        /\ TaskOf[ex2[s].key] \in FullScan /\ ex2[s].targeted => trg2[t].kind = "workflow"
    BY <1>1, <1>5
  <2>5. QED
    BY <2>1, <2>2, <2>3, <2>4 DEF ServedRight
<1>9. Kept(trg2, pend, ex2)
  <2>1. ASSUME NEW x \in DOMAIN trg
        PROVE  /\ trg2[x].state \in {"pending", "waiting"} =>
                    trg2[x].key \in DOMAIN pend /\ x \in pend[trg2[x].key].triggers
               /\ trg2[x].state \in {"running", "attached"} =>
                    \E u \in DOMAIN ex2 : x \in ex2[u].triggers
    <3>1. /\ trg[x].state \in {"pending", "waiting"} =>
               trg[x].key \in DOMAIN pend /\ x \in pend[trg[x].key].triggers
          /\ trg[x].state \in {"running", "attached"} => \E u \in DOMAIN ex : x \in ex[u].triggers
      BY DEF Books, Kept
    <3>2. \A u \in DOMAIN ex : ex[u].triggers \subseteq ex2[u].triggers
      BY <1>5
    <3>3. QED
      BY <1>2, <1>4, <3>1, <3>2
  <2>2. trg2[t].state = "attached" /\ t \in ex2[s].triggers
    BY <1>1, <1>5
  <2>3. QED
    BY <1>1, <1>4, <2>1, <2>2 DEF Kept
<1>10. Books(trg2, pend, ex2, t)
  BY <1>6, <1>7, <1>8, <1>9 DEF Books
<1>11. QED
  BY <1>10 DEF t, trg2, ex2

(* A request joins the intent of its key, or founds it. *)
LEMMA QueuedBooks ==
  ASSUME NEW trg, NEW pend, NEW ex, NEW last, Books(trg, pend, ex, last),
         Shaped(trg, pend, ex, last), NEW k,
         NEW new, new.state = "pending", new.key = k, new.coverage \in Nat,
         NEW pend2, PendingOK(pend2), DOMAIN pend2 = DOMAIN pend \cup {k},
         \A j \in DOMAIN pend \ {k} : pend2[j] = pend[j],
         pend2[k].triggers =
           (IF k \in DOMAIN pend THEN pend[k].triggers ELSE {}) \cup {last + 1},
         new.coverage <= pend2[k].coverage,
         k \in DOMAIN pend => pend[k].coverage <= pend2[k].coverage
  PROVE  Books(Put(trg, last + 1, new), pend2, ex, last + 1)
<1> DEFINE t == last + 1
           trg2 == Put(trg, t, new)
<1>1. DOMAIN trg2 = DOMAIN trg \cup {t} /\ trg2[t] = new
  BY DEF Put
<1>2. \A x \in DOMAIN trg : trg2[x] = trg[x]
  BY NewIDs DEF Put
<1>3. /\ t \notin DOMAIN trg
      /\ \A j \in DOMAIN pend : t \notin pend[j].triggers
      /\ \A u \in DOMAIN ex : t \notin ex[u].triggers
      /\ 1 .. last \subseteq 1 .. t /\ t \in 1 .. t
  BY NewIDs
<1>4. pend2[k].triggers = (IF k \in DOMAIN pend THEN pend[k].triggers ELSE {}) \cup {t}
  OBVIOUS
<1> HIDE DEF t, trg2
<1>5. /\ \A j \in DOMAIN pend : pend[j].coverage \in Nat
      /\ \A j \in DOMAIN pend2 : pend2[j].coverage \in Nat
      /\ \A x \in DOMAIN trg : trg[x].coverage \in Nat
  BY DEF Shaped, PendingOK, TriggersOK, Intent, Trigger
<1>6. IDsIssued(pend2, ex, t)
  <2>1. ASSUME NEW j \in DOMAIN pend2
        PROVE  pend2[j].triggers \subseteq 1 .. t
    BY <1>3, <1>4 DEF Books, IDsIssued
  <2>2. QED
    BY <1>3, <2>1 DEF Books, IDsIssued
<1>7. QueuedRight(trg2, pend2)
  <2>1. ASSUME NEW j \in DOMAIN pend, NEW x \in pend[j].triggers \cap DOMAIN trg2
        PROVE  /\ trg2[x].state \in {"pending", "waiting"} /\ trg2[x].key = j
               /\ trg2[x].coverage <= pend2[j].coverage
    <3>1. x \in DOMAIN trg /\ trg2[x] = trg[x]
      BY <1>1, <1>2, <1>3
    <3>2. /\ trg[x].state \in {"pending", "waiting"} /\ trg[x].key = j
          /\ trg[x].coverage <= pend[j].coverage
      BY <3>1 DEF Books, QueuedRight
    <3>3. pend[j].coverage <= pend2[j].coverage
      BY <1>5
    <3>4. trg[x].coverage <= pend2[j].coverage
      BY <1>5, <3>1, <3>2, <3>3
    <3>5. QED
      BY <3>1, <3>2, <3>4
  <2>2. /\ trg2[t].state \in {"pending", "waiting"} /\ trg2[t].key = k
        /\ trg2[t].coverage <= pend2[k].coverage
    BY <1>1
  <2>3. ASSUME NEW j \in DOMAIN pend2, NEW x \in pend2[j].triggers
        PROVE  (j \in DOMAIN pend /\ x \in pend[j].triggers) \/ (j = k /\ x = t)
    BY <1>4
  <2>4. QED
    BY <2>1, <2>2, <2>3 DEF QueuedRight
<1>8. ServedRight(trg2, ex)
  BY <1>1, <1>2, <1>3 DEF Books, ServedRight
<1>9. Kept(trg2, pend2, ex)
  <2>1. ASSUME NEW x \in DOMAIN trg
        PROVE  /\ trg2[x].state \in {"pending", "waiting"} =>
                    trg2[x].key \in DOMAIN pend2 /\ x \in pend2[trg2[x].key].triggers
               /\ trg2[x].state \in {"running", "attached"} =>
                    \E u \in DOMAIN ex : x \in ex[u].triggers
    <3>1. \A j \in DOMAIN pend : j \in DOMAIN pend2 /\ pend[j].triggers \subseteq pend2[j].triggers
      BY <1>4
    <3>2. QED
      BY <1>2, <3>1 DEF Books, Kept
  <2>2. trg2[t].state = "pending" /\ trg2[t].key = k /\ t \in pend2[k].triggers
    BY <1>1, <1>4
  <2>3. QED
    BY <1>1, <2>1, <2>2 DEF Kept
<1>10. Books(trg2, pend2, ex, t)
  BY <1>6, <1>7, <1>8, <1>9 DEF Books
<1>11. QED
  BY <1>10 DEF t, trg2

(* The copy that persistLocked saves drops ephemeral triggers, and the      *)
(* intents that had no other; it has its books right.                       *)
LEMMA SavedBooks ==
  ASSUME Books(triggers, pending, execs, issued)
  PROVE  Books(PersistenceView.triggers, PersistenceView.pending, PersistenceView.execs,
               PersistenceView.issued)
<1> DEFINE D == {t \in DOMAIN triggers : triggers[t].durable \/ triggers[t].state \in Terminal}
           K == {k \in DOMAIN pending :
                  \E t \in pending[k].triggers \cap DOMAIN triggers : triggers[t].durable}
           trg2 == Restrict(triggers, D)
           pend2 == Restrict(pending, K)
<1>1. /\ PersistenceView.triggers = trg2 /\ PersistenceView.pending = pend2
      /\ PersistenceView.execs = execs /\ PersistenceView.issued = issued
  BY DEF PersistenceView
<1>2. Books(trg2, pending, execs, issued)
  BY Fewer
<1>3. DOMAIN pend2 = K /\ K \subseteq DOMAIN pending /\ \A k \in K : pend2[k] = pending[k]
  BY DEF Restrict
<1>4. DOMAIN trg2 = D /\ \A t \in D : trg2[t] = triggers[t]
  BY DEF Restrict
<1>5. ASSUME NEW t \in D, triggers[t].state \in {"pending", "waiting"}
      PROVE  triggers[t].key \in K /\ t \in pending[triggers[t].key].triggers
  <2>1. triggers[t].durable
    BY <1>5 DEF Terminal
  <2>2. QED
    BY <1>5, <2>1 DEF Books, Kept
<1> HIDE DEF D, K, trg2, pend2
<1>6. IDsIssued(pend2, execs, issued)
  BY <1>2, <1>3 DEF Books, IDsIssued
<1>7. QueuedRight(trg2, pend2)
  BY <1>2, <1>3 DEF Books, QueuedRight
<1>8. Kept(trg2, pend2, execs)
  BY <1>2, <1>3, <1>4, <1>5 DEF Books, Kept
<1>9. QED
  BY <1>1, <1>2, <1>6, <1>7, <1>8 DEF Books

(* With no triggers there are no books to keep. *)
LEMMA EmptyBooks ==
  /\ \A last : Books(EmptyMap, EmptyMap, EmptyMap, last)
  /\ \A trg : Follows(EmptyMap, trg) /\ Follows(trg, EmptyMap) /\ Follows(trg, trg)
<1>1. DOMAIN EmptyMap = {}
  BY DEF EmptyMap
<1>2. QED
  BY <1>1 DEF Books, IDsIssued, QueuedRight, ServedRight, Kept, Follows

-----------------------------------------------------------------------------
(* 2. The manager's books *)

BooksNow == Books(triggers, pending, execs, issued)

(* Accounting of a step: the manager's books stay right, outcomes stay, and *)
(* a trigger that appears was created by the loop or is on disk.            *)
Accounts ==
  /\ Books(triggers', pending', execs', issued')
  /\ Follows(triggers, triggers')
  /\ \A t \in DOMAIN triggers' \ DOMAIN triggers :
       \/ triggers'[t].kind = "workflow" \/ ~triggers'[t].durable
       \/ disk' = PersistenceView'
       \/ disk'.triggers = triggers'

LEMMA ShapedNow == TypeOK => Shaped(triggers, pending, execs, issued)
BY DEF TypeOK, Shaped

LEMMA MarkedIsMarking ==
  ASSUME NEW n, TriggersOK(triggers, n), NEW ids, NEW states, NEW state \in states
  PROVE  Marking(triggers, Marked(ids, state), ids, states)
BY DEF Marking, Marked, TriggersOK, Trigger

(* Forgetting everything, as the process dies. *)
LEMMA ForgetAccounts ==
  ASSUME Forget
  PROVE  Accounts
<1>1. triggers' = EmptyMap /\ pending' = EmptyMap /\ execs' = EmptyMap
  BY DEF Forget
<1>2. DOMAIN EmptyMap = {}
  BY DEF EmptyMap
<1>3. QED
  BY <1>1, <1>2, EmptyBooks DEF Accounts

LEMMA UnchangedAccounts ==
  ASSUME BooksNow, UNCHANGED <<triggers, pending, execs, issued>>
  PROVE  Accounts
BY EmptyBooks DEF Accounts, BooksNow

(* submitLocked *)
LEMMA LargerBounds == \A a, b \in Nat : a <= Larger(a, b) /\ b <= Larger(a, b)
BY DEF Larger

LEMMA SubmitLockedAccounts ==
  ASSUME TypeOK, BooksNow, NEW r \in Request, SubmitLocked(r)
  PROVE  /\ Books(triggers', pending', execs', issued')
         /\ Follows(triggers, triggers')
         /\ \A t \in DOMAIN triggers' \ DOMAIN triggers :
              triggers'[t].kind = r.kind /\ triggers'[t].durable = r.durable
<1>1. Shaped(triggers, pending, execs, issued) /\ Books(triggers, pending, execs, issued)
  BY ShapedNow DEF BooksNow
<1>2. issued + 1 \notin DOMAIN triggers
  BY <1>1, NewIDs
<1>3. r.key \in Key /\ r.coverage \in Nat /\ issued' = issued + 1
  BY DEF SubmitLocked, Request
<1>4. ASSUME NEW state, triggers' = Put(triggers, issued + 1, NewTrigger(r, state))
      PROVE  /\ Follows(triggers, triggers')
             /\ \A t \in DOMAIN triggers' \ DOMAIN triggers :
                  triggers'[t].kind = r.kind /\ triggers'[t].durable = r.durable
  BY <1>2, <1>4 DEF Put, NewTrigger, Follows
<1>5. ASSUME NEW s \in Attachable(r),
             execs' = [execs EXCEPT ![s].triggers = @ \cup {issued + 1}],
             triggers' = Put(triggers, issued + 1, NewTrigger(r, "attached")),
             UNCHANGED pending
      PROVE  Books(triggers', pending', execs', issued')
  <2>1. /\ s \in DOMAIN execs /\ execs[s].key = r.key /\ execs[s].coverage >= r.coverage
        /\ AttachCompatible(TaskOf[r.key], KindsOf(execs[s].triggers), r.kind)
    BY DEF Attachable
  <2>2. execs[s].coverage \in Nat
    BY <2>1 DEF TypeOK, ExecsOK, Execution
  <2>3. TaskOf[execs[s].key] \in FullScan /\ execs[s].targeted => r.kind = "workflow"
    <3>1. TaskOf[execs[s].key] \in FullScan /\ execs[s].targeted
            => KindsOf(execs[s].triggers) \subseteq {"workflow"}
      BY <1>1, <2>1 DEF Books, ServedRight, KindsOf
    <3>2. QED
      BY <2>1, <3>1 DEF AttachCompatible
  <2> DEFINE new == NewTrigger(r, "attached")
  <2>4. /\ new.state = "attached" /\ new.key = execs[s].key /\ new.coverage <= execs[s].coverage
        /\ new.kind = r.kind
    BY <1>3, <2>1, <2>2 DEF NewTrigger
  <2> HIDE DEF new
  <2>5. Books(Put(triggers, issued + 1, new), pending,
              [execs EXCEPT ![s].triggers = @ \cup {issued + 1}], issued + 1)
    BY <1>1, <2>1, <2>3, <2>4, AttachedBooks
  <2>6. QED
    BY <1>3, <1>5, <2>5 DEF new
<1>6. ASSUME triggers' = Put(triggers, issued + 1, NewTrigger(r, "pending")),
             LET intent == IF r.key \in DOMAIN pending THEN pending[r.key]
                           ELSE NewIntent(r.priority, r.coverage, 1, FALSE)
             IN pending' = Put(pending, r.key, Coalesce(intent, issued + 1, r)),
             UNCHANGED execs
      PROVE  Books(triggers', pending', execs', issued')
  <2> DEFINE intent == IF r.key \in DOMAIN pending THEN pending[r.key]
                       ELSE NewIntent(r.priority, r.coverage, 1, FALSE)
             merged == Coalesce(intent, issued + 1, r)
             new == NewTrigger(r, "pending")
  <2>1. PendingOK(pending')
    BY SubmitLockedType
  <2>2. intent \in Intent
    <3>1. r.priority \in Priority /\ 1 \in 1 .. MaxAttempts
      BY SchedulerAssumption DEF Request
    <3>2. NewIntent(r.priority, r.coverage, 1, FALSE) \in Intent
      BY <1>3, <3>1, NewIntentType DEF TypeOK
    <3>3. QED
      BY <3>2 DEF TypeOK, PendingOK
  <2>3. intent.triggers = IF r.key \in DOMAIN pending THEN pending[r.key].triggers ELSE {}
    BY DEF NewIntent
  <2>4. r.key \in DOMAIN pending => intent.coverage = pending[r.key].coverage
    OBVIOUS
  <2> HIDE DEF intent
  <2>5. /\ merged.triggers = intent.triggers \cup {issued + 1}
        /\ merged.coverage = Larger(intent.coverage, r.coverage)
        /\ intent.coverage \in Nat
    BY <2>2 DEF Coalesce, Intent
  <2>6. intent.coverage <= merged.coverage /\ r.coverage <= merged.coverage
    BY <1>3, <2>5, LargerBounds
  <2> HIDE DEF merged
  <2>7. /\ new.state = "pending" /\ new.key = r.key /\ new.coverage = r.coverage
    BY DEF NewTrigger
  <2>8. pending' = Put(pending, r.key, merged)
    BY <1>6 DEF merged, intent
  <2>9. /\ DOMAIN pending' = DOMAIN pending \cup {r.key} /\ pending'[r.key] = merged
        /\ \A j \in DOMAIN pending \ {r.key} : pending'[j] = pending[j]
    BY <2>8 DEF Put
  <2> HIDE DEF new
  <2>10. PICK pend2 : pend2 = pending'
    OBVIOUS
  <2>11. Books(Put(triggers, issued + 1, new), pend2, execs, issued + 1)
    BY <1>1, <1>3, <2>1, <2>3, <2>4, <2>5, <2>6, <2>7, <2>9, <2>10, QueuedBooks
  <2>12. QED
    BY <1>3, <1>6, <2>10, <2>11 DEF new
<1>7. Books(triggers', pending', execs', issued')
  BY <1>5, <1>6 DEF SubmitLocked
<1>8. QED
  BY <1>4, <1>7 DEF SubmitLocked

LEMMA PassAccounts ==
  ASSUME TypeOK, BooksNow, Pass
  PROVE  Accounts
<1>1. CASE StartPass
  BY <1>1, UnchangedAccounts DEF StartPass, manager
<1>2. ASSUME NEW task \in Periodic, CreatePeriodicTrigger(task)
      PROVE  Accounts
  <2> DEFINE r == [key |-> PeriodicKey[task], kind |-> "periodic", priority |-> PriorityPeriodic,
                   durable |-> FALSE, coverage |-> nextTick[task]]
  <2>1. r \in Request
    BY SchedulerAssumption DEF Request, Kind, Priority, TypeOK
  <2>2. SubmitLocked(r)
    BY <1>2 DEF CreatePeriodicTrigger
  <2>3. r.durable = FALSE
    OBVIOUS
  <2> HIDE DEF r
  <2>4. QED
    BY <2>1, <2>2, <2>3, SubmitLockedAccounts DEF Accounts
<1>3. CASE CreateWorkflowTrigger
  <2> DEFINE r == [key |-> Steps[workflow.step + 1], kind |-> "workflow",
                   priority |-> IF workflow.overdue THEN PriorityConsistencyDeadline
                                ELSE PriorityConsistency,
                   durable |-> TRUE, coverage |-> 0]
  <2>1. r \in Request
    <3>1. workflow.step + 1 \in 1 .. Len(Steps)
      BY <1>3, SchedulerAssumption, LenProperties
         DEF CreateWorkflowTrigger, WorkflowDue, TypeOK, WorkflowOK, Workflow
    <3>2. Steps[workflow.step + 1] \in Key
      BY <3>1, SchedulerAssumption, ElementOfSeq
    <3>3. QED
      BY <3>2 DEF Request, Kind, Priority
  <2>2. SubmitLocked(r)
    BY <1>3 DEF CreateWorkflowTrigger
  <2>3. r.kind = "workflow"
    OBVIOUS
  <2> HIDE DEF r
  <2>4. QED
    BY <2>1, <2>2, <2>3, SubmitLockedAccounts DEF Accounts
<1>4. CASE Preempt
  <2>1. /\ UNCHANGED <<triggers, pending, issued>>
        /\ execs' = [s \in DOMAIN execs |->
                      IF Yields(s) THEN [execs[s] EXCEPT !.state = "cancelling"] ELSE execs[s]]
    BY <1>4 DEF Preempt
  <2>2. /\ DOMAIN execs' = DOMAIN execs
        /\ \A s \in DOMAIN execs :
             /\ execs'[s].triggers = execs[s].triggers /\ execs'[s].key = execs[s].key
             /\ execs'[s].coverage = execs[s].coverage
             /\ execs'[s].targeted = execs[s].targeted
    BY <2>1 DEF TypeOK, ExecsOK, Execution
  <2>3. PICK ex2 : ex2 = execs'
    OBVIOUS
  <2>4. Books(triggers, pending, ex2, issued)
    BY <2>2, <2>3, Alike DEF BooksNow
  <2>5. QED
    BY <2>1, <2>3, <2>4, EmptyBooks DEF Accounts
<1>5. ASSUME NEW k \in Key, Admit(k)
      PROVE  Accounts
  <2>1. CASE Panics
    BY <2>1, ForgetAccounts DEF Panics
  <2>2. CASE ~Panics
    <3> DEFINE e == [key |-> k, triggers |-> pending[k].triggers,
                     priority |-> pending[k].priority,
                     coverage |-> pending[k].coverage, attempt |-> pending[k].attempt,
                     state |-> "running", fresh |-> TRUE,
                     targeted |-> KindsOf(pending[k].triggers) = {"workflow"}]
    <3>1. /\ FreeSlots # {} /\ k \in DOMAIN pending
          /\ execs' = Put(execs, NewSlot, e)
          /\ pending' = Dequeue(k)
          /\ triggers' = Marked(pending[k].triggers, "running")
          /\ issued' = issued
      BY <1>5, <2>2 DEF Admit, Admissible, Ready
    <3>2. PICK s : s = NewSlot
      OBVIOUS
    <3>3. s \notin DOMAIN execs
      BY <3>1, <3>2 DEF NewSlot, FreeSlots
    <3>4. /\ e.key = k /\ e.triggers = pending[k].triggers /\ e.coverage = pending[k].coverage
          /\ e.targeted => KindsOf(pending[k].triggers) = {"workflow"}
      OBVIOUS
    <3> HIDE DEF e
    <3>5. PICK ex2 : ex2 = execs'
      OBVIOUS
    <3>6. /\ DOMAIN ex2 = DOMAIN execs \cup {s} /\ ex2[s] = e
          /\ \A u \in DOMAIN execs : ex2[u] = execs[u]
      BY <3>1, <3>2, <3>3, <3>5 DEF Put
    <3>7. PICK pend2 : pend2 = pending'
      OBVIOUS
    <3>8. /\ DOMAIN pend2 = DOMAIN pending \ {k}
          /\ \A j \in DOMAIN pend2 : /\ pend2[j].triggers = pending[j].triggers
                                     /\ pend2[j].coverage = pending[j].coverage
      BY <3>1, <3>7 DEF Dequeue, TypeOK, PendingOK, Intent
    <3>9. PICK trg2 : trg2 = Marked(pending[k].triggers, "running")
      OBVIOUS
    <3>10. Marking(triggers, trg2, pending[k].triggers, {"running"})
      BY <3>9, MarkedIsMarking DEF TypeOK
    <3>11. e.targeted => \A t \in pending[k].triggers \cap DOMAIN triggers :
                            triggers[t].kind = "workflow"
      BY <3>4 DEF KindsOf
    <3>12. Books(trg2, pend2, ex2, issued)
      BY <3>1, <3>3, <3>4, <3>6, <3>8, <3>10, <3>11, Admitted DEF BooksNow
    <3>13. Follows(triggers, trg2)
      BY <3>1, <3>10, MarkingFollows, HeldIsUnsettled DEF BooksNow
    <3>14. DOMAIN trg2 = DOMAIN triggers
      BY <3>10 DEF Marking
    <3>15. QED
      BY <3>1, <3>5, <3>7, <3>9, <3>12, <3>13, <3>14 DEF Accounts
  <2>3. QED
    BY <2>1, <2>2
<1>6. CASE EndPass
  <2>1. CASE Panics
    BY <2>1, ForgetAccounts DEF Panics
  <2>2. CASE ~Panics
    <3> DEFINE blocked == UNION {pending[k].triggers : k \in {j \in Key : Ready(j)}}
    <3>1. triggers' = Marked(blocked, "waiting") /\ UNCHANGED <<issued, pending, execs>>
      BY <1>6, <2>2 DEF EndPass
    <3>2. \A t \in blocked \cap DOMAIN triggers :
            /\ triggers[t].state \in {"pending", "waiting"}
            /\ triggers[t].state \notin Terminal
      BY DEF Ready, BooksNow, Books, QueuedRight, Terminal
    <3> HIDE DEF blocked
    <3>3. PICK trg2 : trg2 = Marked(blocked, "waiting")
      OBVIOUS
    <3>4. Marking(triggers, trg2, blocked, {"waiting"})
      BY <3>3, MarkedIsMarking DEF TypeOK
    <3>5. Books(trg2, pending, execs, issued)
      BY <3>2, <3>4, Deferred DEF BooksNow
    <3>6. Follows(triggers, trg2)
      BY <3>2, <3>4, MarkingFollows
    <3>7. DOMAIN trg2 = DOMAIN triggers
      BY <3>4 DEF Marking
    <3>8. QED
      BY <3>1, <3>3, <3>5, <3>6, <3>7 DEF Accounts
  <2>3. QED
    BY <2>1, <2>2
<1>7. QED
  BY <1>1, <1>2, <1>3, <1>4, <1>5, <1>6 DEF Pass

(* cancelWorkflowTriggerLocked; trg may already have other triggers marked. *)
LEMMA WithdrawAccounts ==
  ASSUME PendingOK(pending), NEW trg, NEW n, TriggersOK(trg, n), NEW ex,
         Books(trg, pending, ex, issued),
         DOMAIN trg = DOMAIN triggers, NEW t, Withdrawn(t) => trg[t] = triggers[t]
  PROVE  /\ Books(TriggersWithdrawing(trg, t), PendingWithout(t), ex, issued)
         /\ Follows(trg, TriggersWithdrawing(trg, t))
         /\ DOMAIN TriggersWithdrawing(trg, t) = DOMAIN triggers
<1>1. CASE ~Withdrawn(t)
  BY <1>1, EmptyBooks DEF TriggersWithdrawing, PendingWithout
<1>2. CASE Withdrawn(t)
  <2> DEFINE k == triggers[t].key
             trg2 == TriggersWithdrawing(trg, t)
             pend2 == PendingWithout(t)
  <2>1. /\ t \in DOMAIN trg /\ trg[t].state \in {"pending", "waiting"}
        /\ k = trg[t].key
    BY <1>2 DEF Withdrawn
  <2>2. k \in DOMAIN pending /\ t \in pending[k].triggers
    BY <2>1 DEF Books, Kept
  <2>3. \A j \in DOMAIN pending : t \in pending[j].triggers => j = k
    BY <2>1 DEF Books, QueuedRight
  <2>4. trg2 = [trg EXCEPT ![t].state = "cancelled"]
    BY <1>2 DEF TriggersWithdrawing
  <2>5. Marking(trg, trg2, {t}, {"cancelled"})
    BY <2>1, <2>4 DEF Marking, TriggersOK, Trigger
  <2>6. /\ DOMAIN pend2 \subseteq DOMAIN pending
        /\ \A j \in DOMAIN pending \ DOMAIN pend2 : pending[j].triggers \subseteq {t}
        /\ \A j \in DOMAIN pend2 : /\ pend2[j].triggers = pending[j].triggers \ {t}
                                   /\ pend2[j].coverage = pending[j].coverage
    <3>1. CASE pending[k].triggers \ {t} = {}
      <4>1. pend2 = Dequeue(k)
        BY <1>2, <2>2, <3>1 DEF PendingWithout
      <4>2. /\ DOMAIN pend2 = DOMAIN pending \ {k}
            /\ \A j \in DOMAIN pend2 : /\ pend2[j].triggers = pending[j].triggers
                                       /\ pend2[j].coverage = pending[j].coverage
        BY <4>1 DEF Dequeue, PendingOK, Intent
      <4>3. QED
        BY <2>3, <3>1, <4>2
    <3>2. CASE pending[k].triggers \ {t} # {}
      <4>1. pend2 = [pending EXCEPT ![k].triggers = @ \ {t}]
        BY <1>2, <2>2, <3>2 DEF PendingWithout
      <4>2. /\ DOMAIN pend2 = DOMAIN pending
            /\ \A j \in DOMAIN pending \ {k} : pend2[j] = pending[j]
            /\ pend2[k].triggers = pending[k].triggers \ {t}
            /\ pend2[k].coverage = pending[k].coverage
        BY <2>2, <4>1 DEF PendingOK, Intent
      <4>3. QED
        BY <2>3, <4>2
    <3>3. QED
      BY <3>1, <3>2
  <2> HIDE DEF trg2, pend2
  <2>7. Books(trg2, pend2, ex, issued)
    BY <2>1, <2>5, <2>6, WithdrawnBooks
  <2>8. \A x \in {t} \cap DOMAIN trg : trg[x].state \notin Terminal
    BY <2>1 DEF Terminal
  <2>9. Follows(trg, trg2)
    BY <2>5, <2>8, MarkingFollows
  <2>10. DOMAIN trg2 = DOMAIN triggers
    BY <2>5 DEF Marking
  <2>11. QED
    BY <2>7, <2>9, <2>10 DEF trg2, pend2
<1>3. QED
  BY <1>1, <1>2

(* requeueExecutionLocked *)
LEMMA RequeueIsRight ==
  ASSUME PendingOK(pending), NEW trg, NEW ex, NEW last, Books(trg, pending, ex, last),
         last \in Nat, TriggersOK(trg, last), ExecsOK(ex), NEW s \in DOMAIN ex,
         NEW delay \in BOOLEAN,
         NEW trg2, Marking(trg, trg2, ex[s].triggers, {"pending"}),
         NEW ex2, DOMAIN ex2 = DOMAIN ex \ {s}, \A u \in DOMAIN ex2 : ex2[u] = ex[u]
  PROVE  Books(trg2, Requeued(ex[s], delay), ex2, last)
<1> DEFINE e == ex[s]
           intent == IF e.key \in DOMAIN pending THEN pending[e.key]
                     ELSE NewIntent(e.priority, e.coverage, NextAttempt(e), FALSE)
           merged == [intent EXCEPT !.triggers = @ \cup e.triggers,
                                    !.priority = Larger(@, e.priority),
                                    !.coverage = Larger(@, e.coverage),
                                    !.attempt  = Larger(@, NextAttempt(e)),
                                    !.delayed  = @ \/ delay]
           pend2 == Requeued(e, delay)
<1>1. e \in Execution
  BY DEF ExecsOK
<1>2. e.key \in Key /\ e.coverage \in Nat /\ e.priority \in Priority
  BY <1>1 DEF Execution
<1>3. intent \in Intent
  <2>1. NextAttempt(e) \in 1 .. MaxAttempts
    BY <1>1, SchedulerAssumption DEF NextAttempt, Execution
  <2>2. NewIntent(e.priority, e.coverage, NextAttempt(e), FALSE) \in Intent
    BY <1>2, <2>1, NewIntentType
  <2>3. QED
    BY <2>2 DEF PendingOK
<1>4. /\ intent.triggers = IF e.key \in DOMAIN pending THEN pending[e.key].triggers ELSE {}
      /\ e.key \in DOMAIN pending => intent.coverage = pending[e.key].coverage
  BY DEF NewIntent
<1>5. PendingOK(pend2)
  BY <1>1, RequeuedType
<1>6. pend2 = Put(pending, e.key, merged)
  BY DEF Requeued
<1> HIDE DEF intent, e, pend2
<1>7. /\ merged.triggers = intent.triggers \cup e.triggers
      /\ merged.coverage = Larger(intent.coverage, e.coverage)
      /\ intent.coverage \in Nat
  BY <1>3 DEF Intent
<1>8. intent.coverage <= merged.coverage /\ e.coverage <= merged.coverage
  BY <1>2, <1>7, LargerBounds
<1> HIDE DEF merged
<1>9. /\ DOMAIN pend2 = DOMAIN pending \cup {e.key} /\ pend2[e.key] = merged
      /\ \A j \in DOMAIN pending \ {e.key} : pend2[j] = pending[j]
  BY <1>6 DEF Put
<1>10. pend2[e.key].triggers =
         e.triggers \cup (IF e.key \in DOMAIN pending THEN pending[e.key].triggers ELSE {})
  BY <1>4, <1>7, <1>9
<1>11. /\ e.coverage <= pend2[e.key].coverage
       /\ e.key \in DOMAIN pending => pending[e.key].coverage <= pend2[e.key].coverage
  BY <1>4, <1>8, <1>9
<1>12. Shaped(trg, pending, ex, last)
  BY DEF Shaped
<1>13. Books(trg2, pend2, ex2, last)
  BY <1>5, <1>9, <1>10, <1>11, <1>12, RequeuedBooks DEF e
<1>14. QED
  BY <1>13 DEF pend2, e

(* The end of finishExecution trims settled triggers. *)
LEMMA FinishedAccounts ==
  ASSUME NEW s, NEW trg, NEW others, Finished(s, trg, others),
         Books(trg, pending', others, issued),
         Follows(triggers, trg), DOMAIN trg = DOMAIN triggers
  PROVE  Accounts
<1>1. PICK D \in SUBSET DOMAIN trg : triggers' = Restrict(trg, D)
  BY DEF Finished
<1>2. execs' = others /\ issued' = issued
  BY DEF Finished
<1>3. PICK pend2 : pend2 = pending'
  OBVIOUS
<1>4. PICK trg2 : trg2 = Restrict(trg, D)
  OBVIOUS
<1>5. Books(trg, pend2, others, issued)
  BY <1>3
<1>6. Books(trg2, pend2, others, issued)
  BY <1>4, <1>5, Fewer
<1>7. Follows(trg, trg2)
  BY <1>4, <1>5, Fewer
<1>8. DOMAIN trg2 \subseteq DOMAIN triggers
  BY <1>4 DEF Restrict
<1>9. Follows(triggers, trg2)
  BY <1>7, <1>8 DEF Follows
<1>10. QED
  BY <1>1, <1>2, <1>3, <1>4, <1>6, <1>8, <1>9 DEF Accounts

LEMMA FinishAccounts ==
  ASSUME TypeOK, BooksNow, NEW s \in Slot, Finish(s)
  PROVE  Accounts
<1> DEFINE e == execs[s]
           others == Without(execs, s)
<1>1. s \in DOMAIN execs
  BY DEF Finish, FinishRequeued, FinishInterrupted, FinishFailed, FinishSucceeded
<1>2. DOMAIN others = DOMAIN execs \ {s} /\ \A u \in DOMAIN others : others[u] = execs[u]
  BY DEF Without, Restrict
<1>3. e \in Execution
  BY <1>1 DEF TypeOK, ExecsOK
<1>4. \A t \in e.triggers \cap DOMAIN triggers : triggers[t].state \notin Terminal
  BY <1>1, HeldIsUnsettled DEF BooksNow
<1>5. ASSUME NEW state
      PROVE  /\ Marking(triggers, Marked(e.triggers, state), e.triggers, {state})
             /\ Follows(triggers, Marked(e.triggers, state))
             /\ DOMAIN Marked(e.triggers, state) = DOMAIN triggers
  <2>1. Marking(triggers, Marked(e.triggers, state), e.triggers, {state})
    BY MarkedIsMarking DEF TypeOK
  <2>2. QED
    BY <1>4, <2>1, MarkingFollows DEF Marked
<1>6. ASSUME NEW state \in Terminal
      PROVE  Books(Marked(e.triggers, state), pending, others, issued)
  <2>1. Marking(triggers, Marked(e.triggers, state), e.triggers, Terminal)
    BY MarkedIsMarking DEF TypeOK
  <2> DEFINE trg2 == Marked(e.triggers, state)
  <2> HIDE DEF trg2, others
  <2>2. Marking(triggers, trg2, execs[s].triggers, Terminal)
    BY <2>1 DEF trg2
  <2>3. Books(trg2, pending, others, issued)
    BY <1>1, <1>2, <2>2, SettledBooks DEF BooksNow
  <2>4. QED
    BY <2>3 DEF trg2
<1> HIDE DEF others
<1>7. ASSUME NEW outcome \in {"canceled", "retryable"}, FinishRequeued(s, outcome)
      PROVE  Accounts
  <2> DEFINE delay == outcome = "retryable" \/ TaskOf[e.key] \in CoolsDown
             trg2 == Marked(e.triggers, "pending")
             pend2 == Requeued(e, delay)
  <2>1. pending' = pend2 /\ Finished(s, trg2, others)
    BY <1>7 DEF FinishRequeued, others
  <2>2. delay \in BOOLEAN
    OBVIOUS
  <2>3. /\ Marking(triggers, trg2, execs[s].triggers, {"pending"})
        /\ Follows(triggers, trg2) /\ DOMAIN trg2 = DOMAIN triggers
    BY <1>5
  <2>4. /\ PendingOK(pending) /\ issued \in Nat /\ TriggersOK(triggers, issued) /\ ExecsOK(execs)
        /\ Books(triggers, pending, execs, issued)
    BY DEF TypeOK, BooksNow
  <2> HIDE DEF delay, trg2
  <2>5. Books(trg2, Requeued(execs[s], delay), others, issued)
    BY <1>1, <1>2, <2>2, <2>3, <2>4, RequeueIsRight
  <2>6. QED
    BY <2>1, <2>3, <2>5, FinishedAccounts
<1>8. ASSUME NEW state \in Terminal, Finished(s, Marked(e.triggers, state), others),
             pending' = pending
      PROVE  Accounts
  <2>1. Books(Marked(e.triggers, state), pending', others, issued)
    BY <1>6, <1>8
  <2>2. QED
    BY <1>5, <1>8, <2>1, FinishedAccounts
<1>9. CASE FinishInterrupted(s)
  <2>1. "attention" \in Terminal
    BY DEF Terminal
  <2>2. QED
    BY <1>8, <1>9, <2>1 DEF FinishInterrupted, others
<1>10. ASSUME NEW outcome \in {"permanent", "retryable"}, FinishFailed(s, outcome)
       PROVE  Accounts
  <2>1. "failed" \in Terminal
    BY DEF Terminal
  <2>2. QED
    BY <1>8, <1>10, <2>1 DEF FinishFailed, others
<1>11. CASE FinishSucceeded(s)
  <2>1. "fulfilled" \in Terminal
    BY DEF Terminal
  <2>2. CASE Satisfies(e)
    <3> DEFINE fulfilled == Marked(e.triggers, "fulfilled")
               t == workflow.trigger
               trg2 == TriggersWithdrawing(fulfilled, t)
               ex2 == NoneFresh(others)
    <3>1. pending' = PendingWithout(t) /\ Finished(s, trg2, ex2)
      BY <1>11, <2>2 DEF FinishSucceeded, others
    <3>2. Books(fulfilled, pending, others, issued)
      BY <1>6, <2>1
    <3>3. /\ DOMAIN fulfilled = DOMAIN triggers
          /\ Follows(triggers, fulfilled)
          /\ TriggersOK(fulfilled, issued)
      BY <1>5, MarkedTriggers DEF TypeOK, TriggerState
    <3>4. Withdrawn(t) => fulfilled[t] = triggers[t]
      <4>1. Withdrawn(t) => t \notin e.triggers
        BY <1>1 DEF Withdrawn, BooksNow, Books, ServedRight
      <4>2. QED
        BY <4>1 DEF Marked, Withdrawn
    <3> HIDE DEF fulfilled
    <3>5. Books(fulfilled, pending, ex2, issued)
      <4>1. /\ DOMAIN ex2 = DOMAIN others
            /\ \A u \in DOMAIN others :
                 /\ ex2[u].triggers = others[u].triggers /\ ex2[u].key = others[u].key
                 /\ ex2[u].coverage = others[u].coverage
                 /\ ex2[u].targeted = others[u].targeted
        BY <1>2 DEF NoneFresh, TypeOK, ExecsOK, Execution
      <4> HIDE DEF ex2
      <4>2. QED
        BY <3>2, <4>1, Alike
    <3> HIDE DEF t, ex2
    <3>6. /\ Books(trg2, PendingWithout(t), ex2, issued)
          /\ Follows(fulfilled, trg2)
          /\ DOMAIN trg2 = DOMAIN triggers
      BY <3>3, <3>4, <3>5, WithdrawAccounts DEF TypeOK
    <3> HIDE DEF trg2
    <3>7. Books(trg2, pending', ex2, issued)
      BY <3>1, <3>6
    <3>8. Follows(triggers, trg2)
      BY <3>3, <3>6 DEF Follows
    <3>9. QED
      BY <3>1, <3>6, <3>7, <3>8, FinishedAccounts
  <2>3. CASE ~Satisfies(e)
    BY <1>8, <1>11, <2>1, <2>3 DEF FinishSucceeded, others
  <2>4. QED
    BY <2>2, <2>3
<1>12. QED
  BY <1>7, <1>9, <1>10, <1>11 DEF Finish

LEMMA RecoveryAccounts ==
  ASSUME TypeOK, BooksNow, Recovery
  PROVE  Accounts
<1>1. ASSUME NEW s \in Slot, RecoverInterrupted(s)
      PROVE  Accounts
  <2> DEFINE e == execs[s]
             abandoned == [t \in DOMAIN triggers |->
                            IF t \notin e.triggers THEN triggers[t]
                            ELSE [triggers[t] EXCEPT !.state =
                                    IF triggers[t].durable THEN "attention" ELSE "interrupted"]]
  <2>1. CASE Panics
    BY <2>1, ForgetAccounts DEF Panics
  <2>2. CASE ~Panics
    <3>1. /\ s \in DOMAIN execs /\ issued' = issued
          /\ execs' = Without(execs, s)
          /\ \/ pending' = Requeued(e, FALSE) /\ triggers' = Marked(e.triggers, "pending")
             \/ pending' = pending /\ triggers' = abandoned
      BY <1>1, <2>2 DEF RecoverInterrupted
    <3>2. PICK ex2 : ex2 = Without(execs, s)
      OBVIOUS
    <3>3. DOMAIN ex2 = DOMAIN execs \ {s} /\ \A u \in DOMAIN ex2 : ex2[u] = execs[u]
      BY <3>2 DEF Without, Restrict
    <3>4. /\ PendingOK(pending) /\ issued \in Nat /\ TriggersOK(triggers, issued) /\ ExecsOK(execs)
          /\ Books(triggers, pending, execs, issued)
      BY DEF TypeOK, BooksNow
    <3>5. \A t \in e.triggers \cap DOMAIN triggers : triggers[t].state \notin Terminal
      BY <3>1, <3>4, HeldIsUnsettled
    <3>6. ASSUME NEW trg2, NEW states, Marking(triggers, trg2, e.triggers, states),
                 triggers' = trg2, Books(trg2, pending', ex2, issued)
          PROVE  Accounts
      <4>1. Follows(triggers, trg2)
        BY <3>5, <3>6, MarkingFollows
      <4>2. DOMAIN trg2 = DOMAIN triggers
        BY <3>6 DEF Marking
      <4>3. QED
        BY <3>1, <3>2, <3>6, <4>1, <4>2 DEF Accounts
    <3>7. CASE pending' = Requeued(e, FALSE) /\ triggers' = Marked(e.triggers, "pending")
      <4> DEFINE trg2 == Marked(e.triggers, "pending")
      <4>1. Marking(triggers, trg2, execs[s].triggers, {"pending"})
        BY <3>4, MarkedIsMarking
      <4>2. triggers' = trg2
        BY <3>7
      <4> HIDE DEF trg2
      <4>3. Books(trg2, Requeued(execs[s], FALSE), ex2, issued)
        BY <3>1, <3>3, <3>4, <4>1, RequeueIsRight
      <4>4. Books(trg2, pending', ex2, issued)
        BY <3>7, <4>3
      <4>5. QED
        BY <3>6, <4>1, <4>2, <4>4
    <3>8. CASE pending' = pending /\ triggers' = abandoned
      <4>1. Marking(triggers, abandoned, execs[s].triggers, Terminal)
        <5>1. ASSUME NEW t \in DOMAIN triggers
              PROVE  /\ abandoned[t].key = triggers[t].key
                     /\ abandoned[t].coverage = triggers[t].coverage
                     /\ abandoned[t].kind = triggers[t].kind
                     /\ abandoned[t].durable = triggers[t].durable
                     /\ t \in e.triggers => abandoned[t].state \in Terminal
                     /\ t \notin e.triggers => abandoned[t].state = triggers[t].state
          <6> DEFINE outcome == IF triggers[t].durable THEN "attention" ELSE "interrupted"
          <6>1. outcome \in Terminal
            BY DEF Terminal
          <6>2. triggers[t] \in Trigger
            BY <3>4 DEF TriggersOK
          <6>3. abandoned[t] = IF t \notin e.triggers THEN triggers[t]
                               ELSE [triggers[t] EXCEPT !.state = outcome]
            OBVIOUS
          <6> HIDE DEF outcome, abandoned
          <6>4. QED
            BY <6>1, <6>2, <6>3 DEF Trigger
        <5>2. DOMAIN abandoned = DOMAIN triggers
          OBVIOUS
        <5> HIDE DEF abandoned
        <5>3. QED
          BY <5>1, <5>2 DEF Marking
      <4>2. PICK trg2 : trg2 = abandoned
        OBVIOUS
      <4> HIDE DEF abandoned
      <4>3. Books(trg2, pending, ex2, issued)
        BY <3>1, <3>3, <3>4, <4>1, <4>2, SettledBooks
      <4>4. Books(trg2, pending', ex2, issued)
        BY <3>8, <4>3
      <4>5. QED
        BY <3>6, <3>8, <4>1, <4>2, <4>4
    <3>9. QED
      BY <3>1, <3>7, <3>8
  <2>3. QED
    BY <2>1, <2>2
<1>2. CASE RecoveryDone
  BY <1>2, ForgetAccounts, UnchangedAccounts DEF RecoveryDone, manager
<1>3. QED
  BY <1>1, <1>2 DEF Recovery

LEMMA TimePassesAccounts ==
  ASSUME TypeOK, BooksNow, TimePasses
  PROVE  Accounts
<1>1. ASSUME NEW k \in Key, DelayElapses(k) \/ Age(k)
      PROVE  Accounts
  <2>1. UNCHANGED <<triggers, execs, issued>>
    BY <1>1 DEF DelayElapses, Age
  <2>2. \A j \in DOMAIN pending : pending[j] \in Intent
    BY DEF TypeOK, PendingOK
  <2>3. /\ DOMAIN pending' = DOMAIN pending
        /\ \A j \in DOMAIN pending : /\ pending'[j].triggers = pending[j].triggers
                                     /\ pending'[j].coverage = pending[j].coverage
    <3>1. CASE DelayElapses(k)
      BY <2>2, <3>1 DEF DelayElapses, Elapsed, Intent
    <3>2. CASE Age(k)
      BY <2>2, <3>2 DEF Age, Aged, Intent
    <3>3. QED
      BY <1>1, <3>1, <3>2
  <2>4. PICK pend2 : pend2 = pending'
    OBVIOUS
  <2>5. Books(triggers, pend2, execs, issued)
    BY <2>3, <2>4, Alike DEF BooksNow
  <2>6. QED
    BY <2>1, <2>4, <2>5, EmptyBooks DEF Accounts
<1>2. CASE QuietPeriodElapses \/ DeadlinePasses \/ \E task \in Periodic : Tick(task)
  BY <1>2, UnchangedAccounts
     DEF QuietPeriodElapses, DeadlinePasses, WorkflowTimePasses, Tick, manager
<1>3. QED
  BY <1>1, <1>2 DEF TimePasses

LEMMA ClientAccounts ==
  ASSUME TypeOK, BooksNow, Client
  PROVE  Accounts
<1>1. ASSUME NEW r \in Requests, Submit(r)
      PROVE  Accounts
  <2>1. CASE SubmitLocked(r) /\ disk' = PersistenceView'
    <3>1. r \in Request
      BY SchedulerAssumption
    <3>2. QED
      BY <2>1, <3>1, SubmitLockedAccounts DEF Accounts
  <2>2. CASE UNCHANGED manager
    BY <2>2, UnchangedAccounts DEF manager
  <2>3. QED
    BY <1>1, <2>1, <2>2 DEF Submit
<1>2. ASSUME NEW quiet \in BOOLEAN, AdvanceWorkflow(quiet)
      PROVE  Accounts
  <2>1. CASE UNCHANGED manager
    BY <2>1, UnchangedAccounts DEF manager
  <2>2. CASE /\ pending' = PendingWithout(workflow.trigger)
             /\ triggers' = TriggersWithdrawing(triggers, workflow.trigger)
             /\ execs' = NoneFresh(execs) /\ issued' = issued
    <3> DEFINE t == workflow.trigger
               trg2 == TriggersWithdrawing(triggers, t)
               ex2 == NoneFresh(execs)
    <3>1. /\ DOMAIN ex2 = DOMAIN execs
          /\ \A u \in DOMAIN execs :
               /\ ex2[u].triggers = execs[u].triggers /\ ex2[u].key = execs[u].key
               /\ ex2[u].coverage = execs[u].coverage
               /\ ex2[u].targeted = execs[u].targeted
      BY DEF NoneFresh, TypeOK, ExecsOK, Execution
    <3>2. triggers' = trg2 /\ execs' = ex2
      BY <2>2
    <3> HIDE DEF ex2
    <3>3. Books(triggers, pending, ex2, issued)
      BY <3>1, Alike DEF BooksNow
    <3>4. Books(trg2, PendingWithout(t), ex2, issued)
          /\ Follows(triggers, trg2) /\ DOMAIN trg2 = DOMAIN triggers
      BY <3>3, WithdrawAccounts DEF TypeOK
    <3> HIDE DEF trg2
    <3>5. QED
      BY <2>2, <3>2, <3>4 DEF Accounts
  <2>3. QED
    BY <1>2, <2>1, <2>2 DEF AdvanceWorkflow
<1>3. QED
  BY <1>1, <1>2 DEF Client

(* A process that is not running has no triggers. *)
Dormant == phase \in {"down", "panicked"} => triggers = EmptyMap

BooksDisk == Books(disk.triggers, disk.pending, disk.execs, disk.issued)

LEMMA ProcessAccounts ==
  ASSUME TypeOK, BooksNow, BooksDisk, Dormant, Process
  PROVE  Accounts
<1>1. CASE Restart
  <2>1. /\ triggers' = disk.triggers /\ pending' = disk.pending /\ execs' = disk.execs
        /\ issued' = disk.issued /\ disk' = disk /\ triggers = EmptyMap
    BY <1>1 DEF Restart, Dormant
  <2>2. QED
    BY <2>1, EmptyBooks DEF Accounts, BooksDisk
<1>2. CASE Crash \/ Stopped
  BY <1>2, ForgetAccounts DEF Crash, Stopped
<1>3. CASE Shutdown \/ StopLoop \/ GraceExpires
  BY <1>3, UnchangedAccounts DEF Shutdown, StopLoop, GraceExpires, manager
<1>4. QED
  BY <1>1, <1>2, <1>3 DEF Process

LEMMA StepAccounts ==
  ASSUME TypeOK, BooksNow, BooksDisk, Dormant, [Next]_vars
  PROVE  Accounts
<1>1. CASE Pass
  BY <1>1, PassAccounts
<1>2. ASSUME NEW s \in Slot, Finish(s) PROVE Accounts
  BY <1>2, FinishAccounts
<1>3. CASE Recovery
  BY <1>3, RecoveryAccounts
<1>4. CASE TimePasses
  BY <1>4, TimePassesAccounts
<1>5. CASE Client
  BY <1>5, ClientAccounts
<1>6. CASE Process
  BY <1>6, ProcessAccounts
<1>7. CASE UNCHANGED vars
  BY <1>7, UnchangedAccounts DEF vars, manager
<1>8. QED
  BY <1>1, <1>2, <1>3, <1>4, <1>5, <1>6, <1>7 DEF Next

-----------------------------------------------------------------------------
(* 3. The books on disk *)

BooksView ==
  Books(PersistenceView.triggers, PersistenceView.pending, PersistenceView.execs,
        PersistenceView.issued)

LEMMA ViewBooks == BooksNow => BooksView
BY SavedBooks DEF BooksNow, BooksView

LEMMA ViewBooksNext == BooksNow' => BooksView'
BY ViewBooks, PTL

(* What persistLocked saves includes every durable trigger. *)
ViewKnows ==
  \A t \in DOMAIN triggers : triggers[t].durable =>
    t \in DOMAIN PersistenceView.triggers /\ PersistenceView.triggers[t] = triggers[t]

LEMMA ViewKnowsDurable == ViewKnows
BY DEF ViewKnows, PersistenceView, Restrict

LEMMA ViewKnowsDurableNext == ViewKnows'
BY ViewKnowsDurable, PTL

(* What becomes of the copy on disk in one step. *)
DiskStays ==
  /\ disk'.triggers = disk.triggers /\ disk'.execs = disk.execs /\ disk'.issued = disk.issued
  /\ DOMAIN disk'.pending = DOMAIN disk.pending
  /\ \A k \in DOMAIN disk.pending : /\ disk'.pending[k].triggers = disk.pending[k].triggers
                                    /\ disk'.pending[k].coverage = disk.pending[k].coverage

LEMMA DiskShape ==
  ASSUME TypeOK, [Next]_vars
  PROVE  DiskStays \/ disk' = PersistenceView' \/ (disk' = PersistenceView /\ Forget)
<1>1. disk' = disk => DiskStays
  BY DEF DiskStays
<1>2. CASE Pass
  BY <1>1, <1>2 DEF Pass, StartPass, CreatePeriodicTrigger, CreateWorkflowTrigger, Preempt,
                    Admit, EndPass, Panics, PersistOrLog, Persisted, PersistFails
<1>3. ASSUME NEW s \in Slot, Finish(s)
      PROVE  disk' = disk \/ disk' = PersistenceView'
  <2>1. PersistOrLog
    BY <1>3 DEF Finish, FinishRequeued, FinishInterrupted, FinishFailed, FinishSucceeded, Finished
  <2>2. QED
    BY <2>1 DEF PersistOrLog, Persisted, PersistFails
<1>4. CASE Recovery
  BY <1>1, <1>4 DEF Recovery, RecoverInterrupted, RecoveryDone, Panics, Persisted, PersistFails
<1>5. CASE TimePasses
  <2>1. ASSUME NEW k \in Key, DelayElapses(k)
        PROVE  DiskStays
    <3>1. disk' = [disk EXCEPT !.pending = Elapsed(@, k)]
      BY <2>1 DEF DelayElapses
    <3>2. \A j \in DOMAIN disk.pending : disk.pending[j] \in Intent
      BY DEF TypeOK, SavedOK, PendingOK
    <3>3. /\ disk'.triggers = disk.triggers /\ disk'.execs = disk.execs
          /\ disk'.issued = disk.issued /\ disk'.pending = Elapsed(disk.pending, k)
      BY <3>1 DEF TypeOK, SavedOK
    <3>4. QED
      BY <3>2, <3>3 DEF DiskStays, Elapsed, Intent
  <2>2. ASSUME NEW k \in Key, Age(k)
        PROVE  DiskStays
    <3>1. disk' = [disk EXCEPT !.pending = Aged(@, k)]
      BY <2>2 DEF Age
    <3>2. \A j \in DOMAIN disk.pending : disk.pending[j] \in Intent
      BY DEF TypeOK, SavedOK, PendingOK
    <3>3. /\ disk'.triggers = disk.triggers /\ disk'.execs = disk.execs
          /\ disk'.issued = disk.issued /\ disk'.pending = Aged(disk.pending, k)
      BY <3>1 DEF TypeOK, SavedOK
    <3>4. QED
      BY <3>2, <3>3 DEF DiskStays, Aged, Intent
  <2>3. ASSUME NEW ready, NEW overdue, WorkflowTimePasses(ready, overdue)
        PROVE  DiskStays
    BY <2>3 DEF WorkflowTimePasses, DiskStays, TypeOK, SavedOK
  <2>4. QED
    BY <1>1, <1>5, <2>1, <2>2, <2>3 DEF TimePasses, QuietPeriodElapses, DeadlinePasses, Tick
<1>6. CASE Client
  BY <1>1, <1>6 DEF Client, Submit, AdvanceWorkflow, PersistFails
<1>7. CASE Process
  BY <1>1, <1>7 DEF Process, Restart, Crash, Shutdown, StopLoop, GraceExpires, Stopped,
                    PersistFails
<1>8. CASE UNCHANGED vars
  BY <1>1, <1>8 DEF vars
<1>9. QED
  BY <1>1, <1>2, <1>3, <1>4, <1>5, <1>6, <1>7, <1>8 DEF Next

LEMMA DormantStep ==
  ASSUME Idle, Dormant, [Next]_vars
  PROVE  Dormant'
<1>1. Forget => Dormant'
  BY DEF Forget, Dormant
<1>2. phase' \notin {"down", "panicked"} => Dormant'
  BY DEF Dormant
<1>3. UNCHANGED <<phase, triggers>> => Dormant'
  BY DEF Dormant
<1>4. Alive => phase \notin {"down", "panicked"}
  BY DEF Alive
<1>5. CASE Pass
  <2>1. Alive
    BY <1>5 DEF Pass, StartPass, CreatePeriodicTrigger, CreateWorkflowTrigger, Preempt,
                Admit, EndPass, Idle
  <2>2. phase' = phase \/ Forget
    BY <1>5 DEF Pass, StartPass, CreatePeriodicTrigger, CreateWorkflowTrigger, Preempt,
                Admit, EndPass, Panics
  <2>3. QED
    BY <1>1, <1>2, <1>4, <2>1, <2>2
<1>6. ASSUME NEW s \in Slot, Finish(s)
      PROVE  Dormant'
  <2>1. Alive /\ phase' = phase
    BY <1>6 DEF Finish, FinishRequeued, FinishInterrupted, FinishFailed, FinishSucceeded,
                Finished, Unlocked
  <2>2. QED
    BY <1>2, <1>4, <2>1
<1>7. CASE Recovery
  BY <1>1, <1>2, <1>7 DEF Recovery, RecoverInterrupted, RecoveryDone, Panics
<1>8. CASE TimePasses
  BY <1>3, <1>8 DEF TimePasses, DelayElapses, Age, QuietPeriodElapses, DeadlinePasses,
                    WorkflowTimePasses, Tick, manager
<1>9. CASE Client
  <2>1. Alive /\ phase' = phase
    BY <1>9 DEF Client, Submit, AdvanceWorkflow, Unlocked
  <2>2. QED
    BY <1>2, <1>4, <2>1
<1>10. CASE Process
  BY <1>1, <1>2, <1>3, <1>4, <1>10
     DEF Process, Restart, Crash, Shutdown, StopLoop, GraceExpires, Stopped, manager
<1>11. CASE UNCHANGED vars
  BY <1>3, <1>11 DEF vars, manager
<1>12. QED
  BY <1>5, <1>6, <1>7, <1>8, <1>9, <1>10, <1>11 DEF Next

(* Every trigger accepted from a caller that is owed an outcome is on disk, *)
(* and is owed one there.                                                   *)
OnDisk ==
  \A t \in DOMAIN triggers :
    triggers[t].durable /\ triggers[t].kind # "workflow" /\ triggers[t].state \notin Terminal =>
      t \in DOMAIN disk.triggers /\ disk.triggers[t].state \notin Terminal

LEMMA OnDiskStep ==
  ASSUME OnDisk, Accounts, DiskStays \/ disk' = PersistenceView' \/ Forget
  PROVE  OnDisk'
<1>1. CASE Forget
  <2>1. triggers' = EmptyMap /\ DOMAIN EmptyMap = {}
    BY <1>1 DEF Forget, EmptyMap
  <2>2. QED
    BY <2>1 DEF OnDisk
<1>2. CASE disk' = PersistenceView'
  BY <1>2, ViewKnowsDurableNext DEF ViewKnows, OnDisk
<1>3. CASE DiskStays /\ disk' # PersistenceView'
  <2>1. ASSUME NEW t \in DOMAIN triggers', triggers'[t].durable,
               triggers'[t].kind # "workflow", triggers'[t].state \notin Terminal
        PROVE  t \in DOMAIN disk'.triggers /\ disk'.triggers[t].state \notin Terminal
    <3>1. CASE t \in DOMAIN triggers
      <4>1. /\ triggers[t].durable /\ triggers[t].kind # "workflow"
            /\ triggers[t].state \notin Terminal
        BY <2>1, <3>1 DEF Accounts, Follows
      <4>2. QED
        BY <1>3, <3>1, <4>1 DEF OnDisk, DiskStays
    <3>2. CASE t \notin DOMAIN triggers
      BY <1>3, <2>1, <3>2 DEF Accounts
    <3>3. QED
      BY <3>1, <3>2
  <2>2. QED
    BY <2>1 DEF OnDisk
<1>4. QED
  BY <1>1, <1>2, <1>3

(* The inductive invariant. *)
Accounted == BooksNow /\ BooksDisk /\ Dormant /\ OnDisk

LEMMA AccountedInit == Init => Accounted
<1> SUFFICES ASSUME Init PROVE Accounted
  OBVIOUS
<1>1. /\ triggers = EmptyMap /\ pending = EmptyMap /\ execs = EmptyMap
      /\ disk.triggers = EmptyMap /\ disk.pending = EmptyMap /\ disk.execs = EmptyMap
      /\ DOMAIN EmptyMap = {}
  BY DEF Init, EmptyDisk, EmptyMap
<1>2. BooksNow /\ BooksDisk
  BY <1>1, EmptyBooks DEF BooksNow, BooksDisk
<1>3. QED
  BY <1>1, <1>2 DEF Accounted, Dormant, OnDisk

LEMMA AccountedKept ==
  ASSUME Accounted, Accounts, Dormant',
         DiskStays \/ disk' = PersistenceView' \/ (disk' = PersistenceView /\ Forget)
  PROVE  Accounted'
<1>1. BooksNow'
  BY DEF Accounts, BooksNow
<1>2. OnDisk'
  BY OnDiskStep DEF Accounted
<1>3. BooksDisk'
  <2>1. CASE DiskStays
    <3>1. PICK pend2 : pend2 = disk'.pending
      OBVIOUS
    <3>2. Books(disk.triggers, pend2, disk.execs, disk.issued)
      BY <2>1, <3>1, Alike DEF DiskStays, Accounted, BooksDisk
    <3>3. QED
      BY <2>1, <3>1, <3>2 DEF DiskStays, BooksDisk
  <2>2. CASE disk' = PersistenceView'
    BY <1>1, <2>2, ViewBooksNext DEF BooksView, BooksDisk
  <2>3. CASE disk' = PersistenceView
    BY <2>3, ViewBooks DEF Accounted, BooksView, BooksDisk
  <2>4. QED
    BY <2>1, <2>2, <2>3
<1>4. QED
  BY <1>1, <1>2, <1>3 DEF Accounted

LEMMA AccountedStep ==
  TypeOK /\ Idle /\ Accounted /\ [Next]_vars => Accounted' /\ Accounts
<1> SUFFICES ASSUME TypeOK, Idle, Accounted, [Next]_vars
             PROVE  Accounted' /\ Accounts
  OBVIOUS
<1>1. Accounts
  BY StepAccounts DEF Accounted
<1>2. Dormant'
  BY DormantStep DEF Accounted
<1>3. QED
  BY <1>1, <1>2, DiskShape, AccountedKept

LEMMA AlwaysAccounted == Spec => [](TypeOK /\ Idle /\ Accounted)
<1>1. TypeOK /\ Idle /\ Accounted /\ [Next]_vars => Accounted'
  BY AccountedStep
<1>2. QED
  BY <1>1, AccountedInit, TypeCorrect, TableExact, PTL DEF Spec

-----------------------------------------------------------------------------
(* 4. The theorems *)

(* Every trigger that is not settled is held by exactly one intent of its   *)
(* key or exactly one execution of its key, as its state says, through      *)
(* coalescing, preemption, retry, withdrawal, trimming and restart.         *)
THEOREM EveryTriggerIsAccounted == Spec => []TriggersAccounted
<1>1. BooksNow => TriggersAccounted
  <2> SUFFICES ASSUME BooksNow, NEW t \in DOMAIN triggers
               PROVE  CASE triggers[t].state \in {"pending", "waiting"} ->
                             Queued(t) = {triggers[t].key} /\ Served(t) = {}
                        [] triggers[t].state \in {"running", "attached"} ->
                             /\ Queued(t) = {}
                             /\ \E s \in DOMAIN execs :
                                  Served(t) = {s} /\ execs[s].key = triggers[t].key
                        [] OTHER -> Queued(t) = {} /\ Served(t) = {}
    BY DEF TriggersAccounted
  <2>1. CASE triggers[t].state \in {"pending", "waiting"}
    <3>1. Queued(t) = {triggers[t].key} /\ Served(t) = {}
      BY <2>1 DEF BooksNow, Books, Kept, QueuedRight, ServedRight, Queued, Served
    <3>2. QED
      BY <2>1, <3>1
  <2>2. CASE triggers[t].state \in {"running", "attached"}
    <3>1. Queued(t) = {}
      BY <2>2 DEF BooksNow, Books, QueuedRight, Queued
    <3>2. PICK s \in DOMAIN execs : t \in execs[s].triggers
      BY <2>2 DEF BooksNow, Books, Kept
    <3>3. Served(t) = {s} /\ execs[s].key = triggers[t].key
      BY <3>2 DEF BooksNow, Books, ServedRight, Served
    <3>4. QED
      BY <2>2, <3>1, <3>2, <3>3
  <2>3. CASE triggers[t].state \notin {"pending", "waiting", "running", "attached"}
    <3>1. Queued(t) = {} /\ Served(t) = {}
      BY <2>3 DEF BooksNow, Books, QueuedRight, ServedRight, Queued, Served
    <3>2. QED
      BY <2>3, <3>1
  <2>4. QED
    BY <2>1, <2>2, <2>3
<1>2. QED
  BY <1>1, AlwaysAccounted, PTL DEF Accounted

(* No execution serves a trigger that requires facts newer than the         *)
(* coverage it was admitted with.                                           *)
THEOREM CoverageIsCaptured == Spec => []CoverageCaptured
<1>1. BooksNow => CoverageCaptured
  BY DEF BooksNow, Books, QueuedRight, ServedRight, CoverageCaptured
<1>2. QED
  BY <1>1, AlwaysAccounted, PTL DEF Accounted

(* No run that was admitted for the workflow alone serves a request for the *)
(* full scan.                                                               *)
THEOREM FullScansAreFull == Spec => []FullScanIsFull
<1>1. BooksNow => FullScanIsFull
  BY DEF BooksNow, Books, ServedRight, FullScanIsFull, KindsOf
<1>2. QED
  BY <1>1, AlwaysAccounted, PTL DEF Accounted

(* Whatever was accepted from a caller and is owed an outcome is on disk,   *)
(* held there by an intent or an execution, however many saves failed.      *)
THEOREM AcceptedWorkIsDurable == Spec => []AcceptedIsDurable
<1>1. TypeOK /\ BooksDisk /\ OnDisk => AcceptedIsDurable
  <2> SUFFICES ASSUME TypeOK, BooksDisk, OnDisk, NEW t \in DOMAIN triggers,
                      triggers[t].durable, triggers[t].kind # "workflow", Live(t)
               PROVE  /\ t \in DOMAIN disk.triggers
                      /\ disk.triggers[t].state \notin Terminal
                      /\ \/ \E k \in DOMAIN disk.pending : t \in disk.pending[k].triggers
                         \/ \E s \in DOMAIN disk.execs : t \in disk.execs[s].triggers
    BY DEF AcceptedIsDurable
  <2>1. t \in DOMAIN disk.triggers /\ disk.triggers[t].state \notin Terminal
    BY DEF OnDisk, Live
  <2>2. disk.triggers[t].state \in {"pending", "waiting", "running", "attached"}
    BY <2>1 DEF TypeOK, SavedOK, TriggersOK, Trigger, TriggerState, Terminal
  <2>3. QED
    BY <2>1, <2>2 DEF BooksDisk, Books, Kept
<1>2. QED
  BY <1>1, AlwaysAccounted, PTL DEF Accounted

(* What a caller was told is final. *)
THEOREM OutcomesAreFinal == Spec => OutcomeIsFinal
<1>1. TypeOK /\ Idle /\ Accounted /\ [Next]_vars =>
        [\A t \in DOMAIN triggers \cap DOMAIN triggers' :
           triggers[t].state \in Terminal => triggers'[t].state = triggers[t].state]_vars
  BY AccountedStep DEF Accounts, Follows
<1>2. QED
  BY <1>1, AlwaysAccounted, PTL DEF Spec, OutcomeIsFinal
=============================================================================
