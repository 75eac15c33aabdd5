------------------------------ MODULE Removals ------------------------------
(***************************************************************************)
(* Removal operations on top of the scheduler: admission by the HTTP       *)
(* handlers (internal/httpui/removal_execution.go, auto_removal.go), the   *)
(* durable journal (history_events), the removal runner, the scope of the  *)
(* reconciliation that must follow (internal/inventory), and what a new    *)
(* process does with the journal (scheduled_removal.go).                   *)
(*                                                                         *)
(* Every SQLite statement and every call of the scheduler is a step of its *)
(* own.  The journal and the scope survive the process, the rest does not. *)
(* Writes may fail, within MaxFaults.  Of the reads only the look-up of a  *)
(* token does: its failure is taken for an answer, the others stop what    *)
(* asked.                                                                  *)
(***************************************************************************)
EXTENDS Scheduler

CONSTANTS
  RemovalTask,   \* the task "removal-operation"
  OperationKey,  \* OperationKey[i]: the key "operation:i" of journal row i
  Browser,       \* requests to /removal/execute that may be served at once
  Planner,       \* goroutines in submitAutoRemoval
  Token,         \* operation_token values the confirmation pages carry
  Window,        \* rows the look-up of a token reads (200 in the code)
  DryRunModes,   \* values removal.dry_run takes while the system runs
  MaxEdits       \* bound: service changes

Inventory == TaskOf[Steps[1]]
Files == TaskOf[Steps[2]]
NoToken == "no token"
Caller == Browser \cup Planner

ASSUME RemovalsAssumption ==
  /\ RemovalTask \in Task
  /\ OperationKey \in Seq(Key)
  /\ \A i \in DOMAIN OperationKey : TaskOf[OperationKey[i]] = RemovalTask
  /\ \A i, j \in DOMAIN OperationKey : OperationKey[i] = OperationKey[j] => i = j
  /\ DryRunModes \subseteq BOOLEAN
  /\ NoToken \notin Token /\ Browser \cap Planner = {}
  /\ Len(Steps) = 2 /\ Inventory # Files /\ RemovalTask \notin {Inventory, Files}
  \* Recovery: RecoveryAttention, no Interval; only this package submits the task.
  /\ RemovalTask \notin RetryRecovery
  /\ \A task \in Periodic : TaskOf[PeriodicKey[task]] # RemovalTask
  /\ \A r \in Requests : TaskOf[r.key] # RemovalTask
  \* A removal claims exclusively what a file reconciliation shares.
  /\ ClaimsConflict(RemovalTask, Files)
  /\ MaxEdits \in Nat /\ Window \in Nat \ {0}

VARIABLES
  \* SQLite
  journal,  \* history_events of type removal, by ID
  scope,    \* inventory.reconciliation.scope.v1: the operations named, and Full
  \* the process
  caller,   \* the requests being served
  runner,   \* the running removals, by execution
  scan,     \* the running inventory and file reconciliations, by execution
  server,   \* how far NewServer is with recoverScheduledRemovals
  edits,    \* services added, edited or removed so far
  \* what really happened
  acted,    \* how often each operation touched owners or files
  refused,  \* operations a browser was told could not be scheduled
  debts     \* <<operation, task>>: facts the task has yet to read again

domain == <<journal, scope, caller, runner, scan, server, edits, acted, refused, debts>>
system == <<vars, domain>>

NoScope == [full |-> FALSE, named |-> {}]
Services == 0   \* stands for an operation in `debts`

IdleCaller == [at |-> "idle", token |-> NoToken, operation |-> 0]
Starting == [at |-> "starting", todo |-> {}, restore |-> FALSE]

Verdict == {"success", "partial", "failed", "dry_run", "interrupted"}
InFlight == {i \in DOMAIN journal : journal[i].status \in {"queued", "started"}}
OperationOf(s) == CHOOSE i \in DOMAIN OperationKey : OperationKey[i] = execs[s].key
Recorded(i, status) == journal' = [journal EXCEPT ![i].status = status]

(* A statement that touches nothing the scheduler owns, and its failure -  *)
(* which is the same step for a write and for a read.                      *)
Written == UNCHANGED vars
NotWritten ==
  PersistFails /\ UNCHANGED <<manager, resources, wake, armed, loop, grace, phase, ticks>>

-----------------------------------------------------------------------------
(* executeRemoval and submitAutoRemoval *)

RemovalRequest(i) ==
  [key |-> OperationKey[i], kind |-> "event", priority |-> PriorityMutation,
   durable |-> TRUE, coverage |-> 0]

(* A request that names identities Stewarr has published reaches admission. *)
Arrive(c) ==
  /\ phase = "up" /\ server.at = "open"
  /\ caller[c].at \in {"idle", "accepted", "rejected"}
  /\ \E t \in (IF c \in Browser THEN Token ELSE {NoToken}) :
       caller' = [caller EXCEPT ![c] =
         [at |-> IF c \in Browser THEN "lookup" ELSE "save", token |-> t, operation |-> 0]]
  /\ UNCHANGED <<vars, journal, scope, runner, scan, server, edits, acted, refused, debts>>

(* Mutation: admission is not serialized. *)
AdmissionAlwaysFree == TRUE

(* admissionMu, which submitAutoRemoval does not take. *)
Admitting == {b \in Browser : caller[b].at \in {"save", "submit", "refuse"}}
AdmissionFree == Admitting = {}

(* HistoryEvents(200), newest first. *)
Recent == {i \in DOMAIN journal : i > Len(journal) - Window}
SameToken(b) == {i \in Recent : journal[i].token = caller[b].token}

(* existingRemovalByToken: a repeated confirmation is answered with the     *)
(* newest operation of its token, whatever became of it.  A failing read    *)
(* finds none.                                                              *)
Lookup(b) ==
  /\ caller[b].at = "lookup"
  /\ AdmissionFree
  /\ \/ /\ Written
        /\ caller' = [caller EXCEPT ![b] =
             IF SameToken(b) = {} THEN [@ EXCEPT !.at = "save"]
             ELSE [@ EXCEPT !.at = "accepted",
                            !.operation = CHOOSE i \in SameToken(b) : \A j \in SameToken(b) : j <= i]]
     \/ NotWritten /\ caller' = [caller EXCEPT ![b].at = "save"]
  /\ UNCHANGED <<journal, scope, runner, scan, server, edits, acted, refused, debts>>

(* Mutation: the handler goes on without having saved the row. *)
SaveUnchecked(c) ==
  /\ caller[c].at = "save"
  /\ Written /\ UNCHANGED journal
  /\ caller' = [caller EXCEPT ![c].at = "submit", ![c].operation = Len(journal) + 1]
  /\ UNCHANGED <<scope, runner, scan, server, edits, acted, refused, debts>>

(* SaveHistoryEvent.  At the bound of the model no more rows are saved. *)
Save(c) ==
  /\ caller[c].at = "save"
  /\ \/ /\ Len(journal) < Len(OperationKey)
        /\ \E dry \in DryRunModes :
             journal' = Append(journal, [status |-> "queued", token |-> caller[c].token, dry |-> dry])
        /\ caller' = [caller EXCEPT ![c].at = "submit", ![c].operation = Len(journal) + 1]
        /\ Written
     \/ /\ NotWritten \/ (Len(journal) = Len(OperationKey) /\ UNCHANGED vars)
        /\ caller' = [caller EXCEPT ![c].at = "rejected"]
        /\ UNCHANGED journal
  /\ UNCHANGED <<scope, runner, scan, server, edits, acted, refused, debts>>

(* tasks.Submit, and the answer. *)
HandOver(c) ==
  /\ caller[c].at = "submit"
  /\ Submit(RemovalRequest(caller[c].operation))
  /\ caller' = [caller EXCEPT ![c].at = IF issued' # issued THEN "accepted"
                                       ELSE IF c \in Browser THEN "refuse" ELSE "rejected"]
  /\ UNCHANGED <<journal, scope, runner, scan, server, edits, acted, refused, debts>>

(* Mutation: the row of a refused operation stays queued. *)
RefuseOnly(b) ==
  /\ caller[b].at = "refuse"
  /\ Written /\ UNCHANGED journal
  /\ caller' = [caller EXCEPT ![b].at = "rejected"]
  /\ refused' = refused \cup {caller[b].operation}
  /\ UNCHANGED <<scope, runner, scan, server, edits, acted, debts>>

(* Only executeRemoval closes the row of an operation the scheduler did not *)
(* take, and it ignores the error of that update.                           *)
Refuse(b) ==
  /\ caller[b].at = "refuse"
  /\ \/ Written /\ Recorded(caller[b].operation, "failed")
     \/ NotWritten /\ UNCHANGED journal
  /\ caller' = [caller EXCEPT ![b].at = "rejected"]
  /\ refused' = refused \cup {caller[b].operation}
  /\ UNCHANGED <<scope, runner, scan, server, edits, acted, debts>>

Admission ==
  \/ \E c \in Caller : Arrive(c) \/ Save(c) \/ HandOver(c)
  \/ \E b \in Browser : Lookup(b) \/ Refuse(b)

-----------------------------------------------------------------------------
(* runScheduledRemoval and executeRemovalNowContext.  The runner starts     *)
(* once the scheduling pass that admitted it has released the manager.      *)

Step(s, at) == runner' = [runner EXCEPT ![s].at = at]
RemovalRuns(s) == s \in DOMAIN execs /\ TaskOf[execs[s].key] = RemovalTask

(* The plan is rebuilt against the live state: it may no longer be valid,   *)
(* and removal.dry_run may have changed since admission.  Otherwise the row *)
(* says "started" before anything is touched.                               *)
Revalidate(s) ==
  /\ Unlocked /\ RemovalRuns(s) /\ s \notin DOMAIN runner
  /\ \E dry \in DryRunModes, at \in {"act", "reject"} :
       /\ runner' = Put(runner, s, [at |-> at, dry |-> dry, mutated |-> FALSE, uncertain |-> FALSE,
                                    errors |-> FALSE, failed |-> FALSE])
       /\ \/ /\ at = "act" /\ Written
             /\ journal' = [journal EXCEPT ![OperationOf(s)].status = "started",
                                           ![OperationOf(s)].dry = dry]
          \/ /\ at = "reject" /\ (Written \/ NotWritten)
             /\ UNCHANGED journal
  /\ UNCHANGED <<scope, caller, scan, server, edits, acted, refused, debts>>

(* The runner answers an HTTP error to itself and closes the row. *)
Reject(s) ==
  /\ s \in DOMAIN runner /\ runner[s].at = "reject"
  /\ \/ Written /\ Recorded(OperationOf(s), "failed")
     \/ NotWritten /\ UNCHANGED journal
  /\ runner' = [runner EXCEPT ![s].at = "return", ![s].failed = TRUE]
  /\ UNCHANGED <<scope, caller, scan, server, edits, acted, refused, debts>>

(* Owners and files are changed.  An owner's error leaves it uncertain      *)
(* whether the owner acted; an unlink's error does not.                     *)
Act(s) ==
  /\ s \in DOMAIN runner /\ runner[s].at = "act"
  /\ LET i == OperationOf(s) IN
     IF runner[s].dry
     THEN Step(s, "finalize") /\ UNCHANGED <<acted, debts>>
     ELSE \E mutated, uncertain, errors \in BOOLEAN :
            /\ uncertain => errors
            /\ mutated \/ errors
            /\ runner' = [runner EXCEPT ![s] =
                 [@ EXCEPT !.at = IF mutated \/ uncertain THEN "scope" ELSE "finalize",
                           !.mutated = mutated, !.uncertain = uncertain, !.errors = errors]]
            /\ IF mutated \/ uncertain
               THEN /\ acted' = [acted EXCEPT ![i] = IF @ < 2 THEN @ + 1 ELSE @]
                    /\ debts' = debts \cup {<<i, Files>>}
                                      \cup (IF uncertain THEN {<<i, Inventory>>} ELSE {})
               ELSE UNCHANGED <<acted, debts>>
  /\ UNCHANGED <<vars, journal, scope, caller, scan, server, edits, refused>>

(* Mutation: the new scope replaces the one that is still owed. *)
QueueScopeReplacing(s) ==
  /\ s \in DOMAIN runner /\ runner[s].at = "scope"
  /\ Written
  /\ scope' = [full |-> runner[s].uncertain, named |-> {OperationOf(s)}]
  /\ Step(s, "advance")
  /\ UNCHANGED <<journal, caller, scan, server, edits, acted, refused, debts>>

(* QueueReconciliation.  Its failure makes the mutation uncertain, too late *)
(* for the scope.                                                           *)
QueueScope(s) ==
  /\ s \in DOMAIN runner /\ runner[s].at = "scope"
  /\ \/ /\ Written
        /\ scope' = [full |-> scope.full \/ runner[s].uncertain,
                     named |-> scope.named \cup {OperationOf(s)}]
        /\ Step(s, "advance")
     \/ /\ NotWritten
        /\ UNCHANGED scope
        /\ runner' = [runner EXCEPT ![s].at = "advance", ![s].errors = TRUE, ![s].uncertain = TRUE]
  /\ UNCHANGED <<journal, caller, scan, server, edits, acted, refused, debts>>

(* schedulePostRemovalConsistency: no quiet period.  A failure is recorded. *)
AdvanceAfter(s) ==
  /\ s \in DOMAIN runner /\ runner[s].at = "advance"
  /\ AdvanceWorkflow(FALSE)
  /\ runner' = [runner EXCEPT ![s].at = "finalize",
                              ![s].errors = @ \/ workflow' = workflow]
  /\ UNCHANGED <<journal, scope, caller, scan, server, edits, acted, refused, debts>>

Outcome(r) ==
  IF r.dry THEN "dry_run" ELSE IF ~r.errors THEN "success" ELSE IF r.mutated THEN "partial" ELSE "failed"

(* The row gets the outcome; if it cannot be written, only the log does,    *)
(* and the runner, which reads its own row again, does not fail.            *)
Finalize(s) ==
  /\ s \in DOMAIN runner /\ runner[s].at = "finalize"
  /\ \/ Written /\ Recorded(OperationOf(s), Outcome(runner[s]))
     \/ NotWritten /\ UNCHANGED journal
  /\ runner' = [runner EXCEPT ![s].at = "return",
                              ![s].failed = journal'[OperationOf(s)].status = "failed"]
  /\ UNCHANGED <<scope, caller, scan, server, edits, acted, refused, debts>>

(* Mutation: the row is not read again, so the runner never fails. *)
ReturnSucceeded(s) ==
  /\ s \in DOMAIN runner /\ runner[s].at = "return"
  /\ FinishSucceeded(s)
  /\ runner' = Without(runner, s)
  /\ UNCHANGED <<journal, scope, caller, scan, server, edits, acted, refused, debts>>

(* The error it returns, if any, never is context.Canceled. *)
Return(s) ==
  /\ s \in DOMAIN runner /\ runner[s].at = "return"
  /\ IF runner[s].failed THEN FinishFailed(s, "permanent") ELSE FinishSucceeded(s)
  /\ runner' = Without(runner, s)
  /\ UNCHANGED <<journal, scope, caller, scan, server, edits, acted, refused, debts>>

Running ==
  \E s \in Slot : Revalidate(s) \/ Reject(s) \/ Act(s) \/ QueueScope(s)
                    \/ AdvanceAfter(s) \/ Finalize(s) \/ Return(s)

-----------------------------------------------------------------------------
(* The two steps of the consistency workflow, as far as the scope decides   *)
(* what they read: Refresh and ReconcileFiles read everything,              *)
(* RefreshAfterMutation nothing and ReconcileFilesAfterMutation what the    *)
(* scope names - if it is exact.                                            *)

Scans(s) == s \in DOMAIN execs /\ TaskOf[execs[s].key] \in {Inventory, Files}
ScopeIsExact == scope.named # {} /\ ~scope.full

(* The facts a run reads, at the earliest. *)
Read(task, full) ==
  {d \in debts : /\ d[2] = task
                 /\ full \/ (task = Files /\ d[1] \in scope.named)}

(* A targeted inventory step reads nothing. A scope none of whose plans had *)
(* files counts as none, and any doubt about a targeted file reconciliation *)
(* promotes it: a step may be full where the scope would let it be exact.   *)
BeginScan(s) ==
  /\ Unlocked /\ Scans(s) /\ s \notin DOMAIN scan
  /\ LET task == TaskOf[execs[s].key]
         exact == execs[s].targeted /\ ScopeIsExact
     IN \E full \in BOOLEAN :
          /\ full \/ exact
          /\ scan' = Put(scan, s, [reads |-> Read(task, full), full |-> full, at |-> "work"])
  /\ UNCHANGED <<vars, journal, scope, caller, runner, server, edits, acted, refused, debts>>

(* The delta of a targeted file reconciliation and the cleared scope are one *)
(* transaction; ReconcileFiles clears the scope after it has published.     *)
Exact(s) == TaskOf[execs[s].key] = Files /\ ~scan[s].full
Published(s) == IF TaskOf[execs[s].key] = Files /\ scan[s].full THEN "clear" ELSE "done"

(* Mutation: a targeted run publishes nothing and yet clears the scope. *)
PublishNothing(s) ==
  /\ s \in DOMAIN scan /\ scan[s].at = "work"
  /\ debts' = IF scan[s].full THEN debts \ scan[s].reads ELSE debts
  /\ scope' = IF Exact(s) THEN NoScope ELSE scope
  /\ scan' = [scan EXCEPT ![s].at = Published(s)]
  /\ UNCHANGED <<vars, journal, caller, runner, server, edits, acted, refused>>

Publish(s) ==
  /\ s \in DOMAIN scan /\ scan[s].at = "work"
  /\ debts' = debts \ scan[s].reads
  /\ scope' = IF Exact(s) THEN NoScope ELSE scope
  /\ scan' = [scan EXCEPT ![s].at = Published(s)]
  /\ UNCHANGED <<vars, journal, caller, runner, server, edits, acted, refused>>

(* Whatever has been added to the scope since it was read goes with it.  A  *)
(* run that cannot clear it fails, for all that it has published.           *)
ClearScope(s) ==
  /\ s \in DOMAIN scan /\ scan[s].at = "clear" /\ TaskOf[execs[s].key] = Files
  /\ \/ Written /\ scope' = NoScope /\ scan' = [scan EXCEPT ![s].at = "done"]
     \/ NotWritten /\ UNCHANGED scope /\ scan' = [scan EXCEPT ![s].at = "failed"]
  /\ UNCHANGED <<journal, caller, runner, server, edits, acted, refused, debts>>

ScanReturns(s) ==
  /\ Scans(s)
  /\ IF s \in DOMAIN scan /\ scan[s].at = "done"
     THEN FinishSucceeded(s)
     ELSE \/ \E outcome \in {"canceled", "retryable"} : FinishRequeued(s, outcome)
          \/ FinishFailed(s, "retryable")
  /\ scan' = Restrict(scan, DOMAIN scan \ {s})
  /\ UNCHANGED <<journal, scope, caller, runner, server, edits, acted, refused, debts>>

Scanning == \E s \in Slot : BeginScan(s) \/ Publish(s) \/ ClearScope(s) \/ ScanReturns(s)

(* A service is added, edited or removed: the services' own facts have to   *)
(* be read again.  Nothing is added to the scope, and a workflow that       *)
(* cannot be advanced is only logged.                                       *)
ServiceChanges ==
  /\ phase = "up" /\ server.at = "open"
  /\ edits < MaxEdits /\ edits' = edits + 1
  /\ debts' = debts \cup {<<Services, Inventory>>, <<Services, Files>>}
  /\ AdvanceWorkflow(TRUE)
  /\ UNCHANGED <<journal, scope, caller, runner, scan, server, acted, refused>>

-----------------------------------------------------------------------------
(* recoverScheduledRemovals, before the scheduler's loop is started *)

ReadJournal ==
  /\ Unlocked /\ server.at = "starting"
  /\ server' = [at |-> "events", todo |-> InFlight, restore |-> FALSE]
  /\ UNCHANGED <<vars, journal, scope, caller, runner, scan, edits, acted, refused, debts>>

(* LatestTriggerForKey *)
TriggersOf(i) == {t \in DOMAIN triggers : triggers[t].key = OperationKey[i]}
LatestState(i) ==
  IF TriggersOf(i) = {} THEN "none"
  ELSE triggers[CHOOSE t \in TriggersOf(i) : \A u \in TriggersOf(i) : u <= t].state

NextEvent == CHOOSE i \in server.todo : \A j \in server.todo : i <= j
Handled(restore) ==
  server' = [server EXCEPT !.todo = @ \ {NextEvent}, !.restore = @ \/ restore]
Fatal == server' = [server EXCEPT !.at = "fatal"]

(* Mutation: a row that had started is handed over again. *)
RecoverStartedAgain ==
  /\ journal[NextEvent].status = "started"
  /\ Submit(RemovalRequest(NextEvent))
  /\ journal' = [journal EXCEPT ![NextEvent].status = "queued"]
  /\ IF issued' # issued THEN Handled(FALSE) ELSE Fatal

(* A row that had started is left to InterruptStartedHistoryEvents. *)
RecoverStarted ==
  /\ journal[NextEvent].status = "started"
  /\ Handled(~journal[NextEvent].dry)
  /\ UNCHANGED <<vars, journal>>

(* The scheduler still has it, or cannot tell whether it ran. *)
RecoverScheduled ==
  /\ journal[NextEvent].status = "queued" /\ LatestState(NextEvent) # "none"
  /\ IF LatestState(NextEvent) \in {"pending", "waiting", "running", "attached"}
     THEN Handled(FALSE) /\ UNCHANGED <<vars, journal>>
     ELSE \/ /\ Written /\ Recorded(NextEvent, "interrupted")
             /\ Handled(~journal[NextEvent].dry)
          \/ NotWritten /\ UNCHANGED journal /\ Fatal

(* Mutation: a queued row is left to a scheduler that never heard of it. *)
RecoverUnscheduledLeft ==
  /\ journal[NextEvent].status = "queued" /\ LatestState(NextEvent) = "none"
  /\ Handled(FALSE)
  /\ UNCHANGED <<vars, journal>>

(* The process died between the journal and the scheduler. *)
RecoverUnscheduled ==
  /\ journal[NextEvent].status = "queued" /\ LatestState(NextEvent) = "none"
  /\ Submit(RemovalRequest(NextEvent))
  /\ IF issued' # issued THEN Handled(FALSE) ELSE Fatal
  /\ UNCHANGED journal

RecoverEvent ==
  /\ Unlocked /\ server.at = "events" /\ server.todo # {}
  /\ RecoverStarted \/ RecoverScheduled \/ RecoverUnscheduled
  /\ UNCHANGED <<scope, caller, runner, scan, edits, acted, refused, debts>>

(* Mutation: the update has lost its WHERE clause. *)
InterruptEvery ==
  /\ Unlocked /\ server.at = "events" /\ server.todo = {}
  /\ Written
  /\ journal' = [i \in DOMAIN journal |-> [journal[i] EXCEPT !.status = "interrupted"]]
  /\ server' = [server EXCEPT !.at = IF server.restore THEN "scope" ELSE "open"]
  /\ UNCHANGED <<scope, caller, runner, scan, edits, acted, refused, debts>>

InterruptStarted ==
  /\ Unlocked /\ server.at = "events" /\ server.todo = {}
  /\ \/ /\ Written
        /\ journal' = [i \in DOMAIN journal |->
             IF journal[i].status = "started" THEN [journal[i] EXCEPT !.status = "interrupted"]
             ELSE journal[i]]
        /\ server' = [server EXCEPT !.at = IF server.restore THEN "scope" ELSE "open"]
     \/ NotWritten /\ UNCHANGED journal /\ Fatal
  /\ UNCHANGED <<scope, caller, runner, scan, edits, acted, refused, debts>>

RestoreScope ==
  /\ Unlocked /\ server.at = "scope"
  /\ \/ Written /\ scope' = [scope EXCEPT !.full = TRUE] /\ server' = [server EXCEPT !.at = "advance"]
     \/ NotWritten /\ UNCHANGED scope /\ Fatal
  /\ UNCHANGED <<journal, caller, runner, scan, edits, acted, refused, debts>>

RestoreWorkflow ==
  /\ server.at = "advance"
  /\ AdvanceWorkflow(FALSE)
  /\ IF workflow' # workflow THEN server' = [server EXCEPT !.at = "open"] ELSE Fatal
  /\ UNCHANGED <<journal, scope, caller, runner, scan, edits, acted, refused, debts>>

ServerStarts == ReadJournal \/ RecoverEvent \/ InterruptStarted \/ RestoreScope \/ RestoreWorkflow

(* main gives up when NewServer fails. *)
Exit ==
  /\ server.at = "fatal"
  /\ phase' = "down" /\ Forget
  /\ UNCHANGED <<ticks, disk, count>>

-----------------------------------------------------------------------------
(* The scheduler's own steps.  Its loop is started after NewServer; when    *)
(* the process ends, so does everything but SQLite.  What only changes      *)
(* priorities - ageing, the workflow's deadline - and periodic ticks are    *)
(* left to the scheduler's own runs.                                        *)
SchedulerSteps ==
  /\ \/ server.at = "open" /\ (Pass \/ StopLoop \/ \E r \in Requests : Submit(r))
     \/ Recovery \/ QuietPeriodElapses \/ \E k \in Key : DelayElapses(k)
     \/ Restart \/ Crash \/ Shutdown \/ GraceExpires \/ Stopped
     \/ Exit
  /\ IF phase' \in {"down", "panicked"}
     THEN /\ caller' = [c \in Caller |-> IdleCaller]
          /\ runner' = EmptyMap /\ scan' = EmptyMap
          /\ server' = Starting
          /\ UNCHANGED <<journal, scope, edits, acted, refused, debts>>
     ELSE UNCHANGED domain

RemovalsInit ==
  /\ Init
  /\ journal = <<>> /\ scope = NoScope /\ edits = 0
  /\ caller = [c \in Caller |-> IdleCaller]
  /\ runner = EmptyMap /\ scan = EmptyMap /\ server = Starting
  /\ acted = [i \in DOMAIN OperationKey |-> 0] /\ refused = {} /\ debts = {}

RemovalsNext ==
  \/ SchedulerSteps
  \/ Admission \/ Running \/ Scanning \/ ServiceChanges \/ ServerStarts

RemovalsSpec == RemovalsInit /\ [][RemovalsNext]_system

(* The loop, runners, handlers and start-up go on whenever they can; a      *)
(* supervisor restarts a process that ended.                                *)
RemovalsFairness ==
  /\ WF_system(server.at = "open" /\ Pass /\ UNCHANGED domain)
  /\ WF_system(SchedulerSteps /\ (Recovery \/ Restart \/ GraceExpires \/ Stopped \/ Exit))
  /\ SF_system(server.at = "open" /\ StopLoop /\ UNCHANGED domain)
  /\ \A c \in Caller : WF_system(Save(c) \/ HandOver(c) \/ (c \in Browser /\ Refuse(c)))
  /\ WF_system(Running) /\ WF_system(Scanning) /\ WF_system(ServerStarts)

FairRemovals == RemovalsSpec /\ RemovalsFairness

-----------------------------------------------------------------------------
(* Properties *)

Status == Verdict \cup {"queued", "started"}

(* The shape of the journal, the scope and the process state around them. *)
RemovalsTypeOK ==
  /\ journal \in Seq([status : Status, token : Token \cup {NoToken}, dry : BOOLEAN])
  /\ Len(journal) <= Len(OperationKey)
  /\ scope \in [full : BOOLEAN, named : SUBSET DOMAIN journal]
  /\ caller \in [Caller -> [at : {"idle", "lookup", "save", "submit", "refuse", "accepted", "rejected"},
                            token : Token \cup {NoToken}, operation : 0 .. Len(journal)]]
  /\ \A s \in DOMAIN runner :
       /\ RemovalRuns(s)
       /\ runner[s] \in [at : {"act", "reject", "scope", "advance", "finalize", "return"},
                         dry : BOOLEAN, mutated : BOOLEAN, uncertain : BOOLEAN,
                         errors : BOOLEAN, failed : BOOLEAN]
  /\ \A s \in DOMAIN scan :
       Scans(s) /\ scan[s] \in [reads : SUBSET (Nat \X Task), full : BOOLEAN,
                                at : {"work", "clear", "failed", "done"}]
  /\ server \in [at : {"starting", "events", "scope", "advance", "open", "fatal"},
                 todo : SUBSET DOMAIN journal, restore : BOOLEAN]
  /\ edits \in Nat /\ acted \in [DOMAIN OperationKey -> 0 .. 2]
  /\ refused \subseteq DOMAIN journal /\ debts \subseteq Nat \X {Inventory, Files}

(* A confirmed removal is carried out at most once, whatever crashes or     *)
(* stops in between (Scheduler-Spec.md section 10: irreversible mutations   *)
(* are never blindly replayed).                                             *)
NeverReplayed == \A i \in DOMAIN acted : acted[i] <= 1

Serving == Alive /\ server.at = "open"
RunnerAt(i, places) == \E s \in DOMAIN runner : OperationOf(s) = i /\ runner[s].at \in places

(* While ConsistencyPending says no, every mutation has been read back by a *)
(* file reconciliation, except the one whose runner is just about to        *)
(* advance the workflow.                                                    *)
MutationsReconciled ==
  Serving /\ workflow.state \in {"absent", "succeeded"} =>
    \A i \in DOMAIN journal :
      <<i, Files>> \in debts => RunnerAt(i, {"scope", "advance"})

(* An exact scope names every mutation that has yet to be read back: a      *)
(* targeted reconciliation cannot miss one.                                 *)
ScopeCovers ==
  Serving /\ ScopeIsExact =>
    \A i \in DOMAIN journal :
      <<i, Files>> \in debts => i \in scope.named \/ RunnerAt(i, {"scope"})

(* The journal and the scheduler give the same verdict on an operation once *)
(* the scheduler has settled it.                                            *)
VerdictsAgree ==
  Serving =>
    \A i \in DOMAIN journal :
      /\ LatestState(i) = "fulfilled" => journal[i].status \in {"success", "partial", "dry_run"}
      /\ LatestState(i) = "failed" => journal[i].status = "failed"
      /\ LatestState(i) = "attention" => journal[i].status \in Verdict
      /\ LatestState(i) \in {"pending", "waiting"} => journal[i].status = "queued"

(* What the history shows of a finished operation is final: no runner, no   *)
(* start of a new process and no answer to a browser rewrites a verdict, as *)
(* long as SQLite can be written.                                           *)
VerdictsStay ==
  [][count'.faults = 0 =>
       \A i \in DOMAIN journal : journal[i].status \in Verdict => journal'[i] = journal[i]]_system

(* However often a page is submitted, at once or again later, its           *)
(* operation_token does not get a second row while the first is among the   *)
(* newest Window rows: the second request is answered with the first        *)
(* operation.  (removal_execution.go:177-186, 308-321.  Beyond the window,  *)
(* and if the look-up fails, a second operation is submitted.)              *)
OneOperationPerToken ==
  count.faults = 0 =>
    \A i, j \in DOMAIN journal :
      i < j /\ journal[i].token = journal[j].token =>
        journal[i].token = NoToken \/ j - i > Window

(* A browser that was told its removal could not be scheduled will not see  *)
(* it carried out later.  (One failing write: if closing the row fails too, *)
(* the next start does submit it.)                                          *)
RejectedNeverRuns == \A i \in refused : acted[i] = 0

(* A journaled operation gets a verdict, whatever dies in between, as long  *)
(* as SQLite can be written.                                                *)
OperationsSettle ==
  [](count.faults = 0) =>
    \A i \in DOMAIN OperationKey : i \in InFlight ~> i \notin InFlight
=============================================================================
