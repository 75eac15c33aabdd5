# Stewarr in TLA+

Stewarr watches the storage behind Radarr, Sonarr and qBittorrent, works out
what could be removed, and removes it: by hand from a confirmation page, or by
itself for services that opted in. Removals cannot be undone, and everything it
decides rests on an inventory that removals and other programs make stale. Its
hard part is therefore less the planning than the order of things: what may run
beside what, what must be read again before it is trusted, and what a new
process may do with the work an old one left behind. And where it does plan, a
plan is drawn from what was published and carried out on what is there.

This directory specifies both. The modules are translated from the Go
source; `Scheduler-Spec.md` and comments are used only as the statements the
code is compared with.

## 1. Inventory

| Component | State | Operations | What makes it correct |
|---|---|---|---|
| Task scheduler (`internal/tasks`) | triggers, pending intents per task and key, executions, workflow instance, resource table, wake channel and timer; a copy in SQLite | `Submit`, `AdvanceWorkflow`, the pass of `Start` (periodic and workflow triggers, preemption, admission, save, timer), `finishExecution`, `requeueExecutionLocked`, `trimHistoryLocked`, `stop`, `NewPersistent` | conflicting work never overlaps; accepted work is never lost and never silently dropped; nothing that could run sleeps; a request is not answered by a run that read too little |
| Composition (`cmd/stewarr/main.go`) | task definitions, claims, retry and recovery policies, one workflow `inventory -> files` | start-up, shutdown | the claims chosen make the scheduler's guarantee the one the domain needs |
| Removal operations (`internal/httpui/removal_execution.go`, `scheduled_removal.go`, `auto_removal.go`, `internal/store/history.go`) | journal rows `queued -> started -> verdict`, admission lock, requests in flight, running removals | `executeRemoval`, `submitAutoRemoval`, `runScheduledRemoval`, `recoverScheduledRemovals` | carried out at most once; every accepted operation gets one verdict, the same in the journal and in the scheduler; one operation per confirmation page |
| Consistency (`internal/inventory/reconciliation_scope.go`, `page_services.go`) | durable scope: what a targeted run has to look at, or "everything" | `QueueReconciliation`, `RefreshAfterMutation`, `ReconcileFilesAfterMutation`, `ReconcileFiles`, service changes | what was changed is read again before the workflow counts as satisfied |
| Inventory (`internal/inventory/refresh.go`, `reconcile*.go`, `service.go`, `enrichment.go`) | published media, torrents and files; generation, topology version, reliability flags; the same in SQLite | refresh, full / targeted / delta reconciliation, enrichment | concurrent publishers never leave an older fact over a newer one; memory and database agree |
| Planning (`internal/removal`, `internal/cleanup`, `internal/filetopology`, `removal_plan*.go`) | none | plan one removal, plan a cleanup, classify hard links | the plan touches what was selected, counts space once per inode, reaches the target and leaves alone what is withheld |
| Live configuration (`live_config.go`, `internal/config`) | configuration file, clients | add, edit, remove, protect services | clients and configuration change together |
| UI (`server.go`, `reactive.go`, `page_*.go`) | revision, subscribers, projected removals | publish, subscribe, render | a browser is told of the newest revision |
| The rest: valuation, adapters, sessions, log, assets | | | see `PROJECT.json` |

How they interact:

    browser --POST--> executeRemoval --+-- journal row (SQLite)
    planner --------> submitAutoRemoval +-- Submit --> scheduler --run--> runScheduledRemoval
                                                          ^                  | owners, files
                                                          |                  | QueueReconciliation (SQLite)
    page_services --AdvanceWorkflow-----------------------+--AdvanceWorkflow-+
                                                          |
                                     inventory, files <---+ (workflow steps, periodic, manual)

Journal, scope and scheduler state live in the same database but are written by
separate statements: a process can die between any two of them. A failing write
is an error to most callers and a log line to some. These gaps, the shared
claims that allow `inventory` and `files` to run side by side, and the workflow
that several causes advance at once are where this code is hard to test; the
list is `hazards` in `PROJECT.json`.

## 2. Modules

* **`ResourceClaims`** - `resourceUse`, `resourceConflictLocked`, acquisition,
  release and `claimsConflict`, as operators over a table.
* **`Arbiter`** - the abstract promise of the scheduler about resources: a set
  of work that holds claims; work begins only if it is compatible with all that
  runs; it ends alone, or everything ends with the process.
* **`Scheduler`** - the manager, all of it. `Manager.mu` makes a handler one
  action. The pass of `Start` is several (`StartPass`, `CreatePeriodicTrigger`,
  `CreateWorkflowTrigger`, `Preempt`, `Admit`, `EndPass`), because its loops
  iterate over Go maps in any order; `loop` keeps handlers out meanwhile, as the
  lock does. `FinishInterrupted`, `FinishFailed`, `FinishRequeued` and `FinishSucceeded` are the ways through
  `finishExecution`. `PersistenceView` is what is saved; `Crash`, `Shutdown` (with its two rounds
  of cancellation and the grace period), `Restart` and the recovery after it
  close the circle. A dereference of a missing map entry is the state
  `phase = "panicked"`.
* **`Removals`** - extends `Scheduler` with the journal, the requests, the
  running removals, the durable scope and the start of the server. Every
  SQLite statement and every scheduler call is its own step: `Lookup`, `Save`,
  `HandOver`, `Refuse` (admission); `Revalidate`, `Reject`, `Act`, `QueueScope`,
  `AdvanceAfter`, `Finalize`, `Return` (a removal); `BeginScan`, `Publish`,
  `ClearScope`, `ScanReturns` (a reconciliation); `ReadJournal` to `RestoreWorkflow`
  (`recoverScheduledRemovals`). `acted`, `refused` and `debts` are history
  variables: how often an operation touched anything, who was told no, and
  which facts have changed since they were last read.
* **`Publication`** - `Service` of `internal/inventory`: how a refresh with its
  inline delta, full and targeted reconciliation, the enrichments and the
  catch-up after a refresh publish to one set of fields and one database. A step
  is what a goroutine does between two points where another may come in: an
  access under `mu`, a call to a service, a transaction (`RefreshFetch` ...
  `RefreshFinish`, with the copy of the media taken in `RefreshSnapshot` before the
  comparison in `RefreshCompare`; `FilesBeginFull` ... `FilesPublish`, `EnrichStart`,
  `EnrichPublish`, `CatchUpStart`, `CatchUpPublish`). `Loaded` is what a new
  process makes of the database. An entity's data is the instant of its last
  change; the counter `fileTopologyVersion`, which is only compared for
  equality, is kept as `topologyMoved`. A targeted run that doubts files of its
  owners outside its scope, which the model does not tell apart, promotes itself:
  `FilesPromote` may do so in any targeted run.
* **`FileTopology`** - the questions of the file index: siblings of an entry,
  hard links between owners, physical matches, which inodes lose their last
  link, and the estimate made of them. A size is counted (`Total`: byte 1, byte 2,
  ... of every inode), not added up by recursion, so that it can be proved about.
* **`CleanupPlan`** - `cleanup.Build`: the candidates of the media tier (alone or
  as a bundle) and the torrent tier, what is withheld, care, the fair share of
  the services, the prefix that reaches the target, season order. The sorted
  list is a rank (how many candidates come no later), and the prefix is the
  candidates whose predecessors do not reach the target yet.
* **`RemovalPlan`** - the plan of one removal: candidates found by ownership and by
  physical identity, related torrents, `Authorized` (revalidation), `Admitted`
  (admission), and the bytes freed when the final links go.
* **`Reclaim`** - the loop through all of it: the library as it is (`disk`,
  `live`), as it is published (`topology`, `view`), what is planned (`Plan`),
  submitted (`Evaluate`, `Submit`) and carried out (`Begin`, `RemoveManagedFile`,
  `RemoveTorrent`, `Unlink`, `Finish`), and the workflow that reads it all back
  (`Refresh`, `Files`). Beside it other programs link, remove, adopt and protect,
  and owner calls report errors with or without having acted.
* **`SchedulerProofs`, `AdmissionProofs`, `TriggerProofs`, `PublicationProofs`,
  `CleanupPlanProofs`, `ReclaimProofs`, `ReclaimPlanProofs`, `RemovalsProofs`** -
  the theorems (section 4). **`MCScheduler`**, **`MCRemovals`**, **`MCPublication`**, **`MCReclaim`** - the
  task definitions of `main.go` and the small instances for TLC.

How they compose: `Removals` contains the scheduler itself. `Publication` and
`Reclaim` take from it only what it guarantees to them - inventory publication
and enrichments exclude each other, a removal runs alone - which is what
`NoConflictingClaims` and the claims in `main.go` say. `Reclaim` takes each
refresh and each reconciliation as one step, which it may because no removal
runs beside them; what happens inside them is `Publication`.

Mutants (operators marked so in the modules) are plausible bugs, used to
confirm that each property can fail.

Abstractions, all of them deliberate: instants are reduced to the comparisons
the code makes (a delay lies ahead or has elapsed; an execution started before
or after `StepReadyAfter`); payloads, causes, messages, statuses shown to users
and log lines are left out; the four interruptible enrichments are one,
`jellyfin`; what an owner or the filesystem does is *changed*, *uncertain* or
*failed*; what a reconciliation computes is the set of facts it has read;
reads of SQLite succeed, except the look-up of a token (`Lookup`), whose failure the
code takes for an answer. In `Reclaim` a file has a size and an inode, there is
one device, values are integers of which only the order counts, ties that Go
leaves to map order are broken by the published order, and the last look at
owners and identity is one step with the unlink (the code has a few
instructions between the two). In `Removals` the scheduler's ageing, deadline and
periodic ticks are left to the scheduler's own runs: they only change
priorities.

## 3. Runs

| Run | Asks | Bounds that matter |
|---|---|---|
| `sched_queue` | type; no conflicting claims; no missed wake-up; preemption; admission order; refinement of `Arbiter` | two publications (one of them the file reconciliation), two removals, one restartable enrichment, 3 submissions, 2 attempts, ages up to 20 (past the cap on ageing) |
| `sched_restart` | accepted triggers are accounted for, durable on disk, and settle | one crash or shutdown and one failing save, anywhere |
| `sched_workflow` | full scans stay full; coverage; final outcomes; no missed wake-up for an interval or a workflow step; the workflow settles | two revisions, one interval, one manual request |
| `removal_pair` | an exact scope covers what is owed | two operations with a manual reconciliation |
| `removal_recovery` | at most once; journal and scheduler agree; nothing owed behind a satisfied workflow; a verdict is final; operations settle | one crash or shutdown, one service change, dry-run switched at will |
| `removal_admission` | type; one operation per token; rejected means never | two browsers with one page, which a planned operation may push out of a window of one row; three rows, one failing statement, one stop; browsers are interchangeable (`SYMMETRY`) |
| `publication` | a reliable topology is current; topology never goes back | one media item there from the start, one torrent, full and targeted runs, one change outside (a new path, a new match, gone, or the torrent's arrival), one restart |
| `publication_live` | type; the valuation flag awaits its sources and a withdrawn inventory; media converge | one media item, one source (`tmdb`), enrichment and catch-up, one change (its arrival or playback), one failure |
| `reclaim` | what a plan contains, reaches and promises; what an operation takes and frees | four libraries, two events of any kind, two queued operations (three in `reclaim_live`) |
| `reclaim_live` | pressure is relieved | the same libraries, one event |

Two more runs each end in a counterexample to a sentence of the repository:

| Run | Sentence | What happens |
|---|---|---|
| `sched_survive` | "Correctness-required work survives restart." | a durable trigger coalesced with a start-up trigger leaves a dangling ID in the saved state; the next process dies on a nil trigger, every time |
| `removal_replay` | "Irreversible mutations are never blindly replayed." | a save fails while the removal runs, then a crash: row "started", trigger "pending"; the row is closed and the removal runs again |

Two slots are enough for the scheduler: a third execution adds no new kind of
conflict between two claims, and the properties relate pairs. Two operations
are needed for scopes to merge, one is enough for recovery. One failing write
and one stop are each the least that reaches the gap in question;
`NeverReplayed` holds with a stop alone and fails with a stop and a failing
write, which is why it appears in a passing and in a failing run. With a second
stop, during the recovery from the first, `MutationsReconciled` fails (below); the
bound of one stop in `removal_recovery` is what the property is stated for.

`publication` needs a state of the world and one change to it to tell an older
observation from a newer one across a race; every property asks about one such
pair. `MaxGeneration` must exceed the generations a running step can have
missed: with one change and one restart 5 is enough, with too few a step would
take a later generation for its own, which the code's 64-bit counter never does.
`ReliableIsCurrent` and `ValuationAwaitsSources` do not depend on it (section 4).

The libraries of `reclaim` are a film, a show of two seasons and two torrents,
in the layouts imports leave behind: hardlinked one to one, a season pack
linked to both seasons beside a link Stewarr cannot see, and copies of a current
and of a replaced release; with and without a protected torrent. Sizes and
capacity are chosen so that the target needs one, two or three actions
depending on the layout, and so that values and season order contradict each
other.

### Where the code is known to differ

Seen while modelling, and reached by the models; no passing run contains a
property about them.

* A start that dies, or whose write fails, after `InterruptStartedHistoryEvents`
  and before `QueueReconciliation` and `AdvanceWorkflow` leaves rows
  `interrupted` and nothing else: the next start finds no row `started` and
  restores neither the scope nor the workflow
  (`scheduled_removal.go:36-85`). TLC finds it in `removal_recovery` with
  `MaxStops = 2`: a removal acts, the process dies, the next one dies right after
  that statement, and the third serves with automatic planning open over facts
  nobody reads again (`Scheduler-Spec.md`, guarantee 7, promises that
  correctness-required work survives). `FinishedMeansReconciled` (section 4)
  proves that with every write succeeding this window is the only gap.
* An interruptible run that is less urgent than a mutation may be admitted while
  the mutation waits for another execution to end; it is asked to yield when the
  loop next wakes. `ObstaclesYield` speaks of those the pass could see.
* A manual file reconciliation may not attach to a targeted one and their claims
  are shared, so two executions of one key run at once (`Scheduler-Spec.md`,
  guarantee 2, says at most one).
* A workflow that passes its deadline while its trigger waits keeps the priority
  the trigger had, so ordinary mutations precede it (section 6 says otherwise).
* A confirmation repeated after the scheduler refused the operation is answered
  202 from the journal (section 10: accepted means committed).
* The look-up of a repeated confirmation reads the newest 200 rows of the history
  (`removal_execution.go:309`) and takes a failing read for none found, so a page
  kept open for 200 operations, or confirmed again while SQLite fails, gets a
  second operation. `Window` is that number (1 in the runs) and
  `OneOperationPerToken` promises no more. The code orders those rows by the text
  of `created_at`, the model by their IDs: the two agree as long as the clock does
  not go back.
* An execution of an older revision that fails late puts the workflow on
  attention although a newer revision is pending (`manager.go:660`).
  `WorkflowSettles` counts attention as settled.
* A service change advances the same workflow as a removal; the removal's exact
  scope then keeps the new service's paths from being walked.
* If `QueueReconciliation` fails, the operation is missing from the scope and a
  later exact scope does not name it: `ScopeCovers` holds without failing writes
  only, which is the condition of `ExactScopesCover`.
* A targeted reconciliation does not look at the topology version and may publish
  over a newer full one; `TopologyNeverGoesBack` exempts it, and the next full
  run repairs it. A refresh and a full reconciliation that overlap for ever never
  converge; hence the premise of `MediaConverge`.
* Planning may be open over a base that is not on disk. A refresh publishes its
  base, flags it and values it before the write (`refresh.go:451-474`, `654-665`),
  with the valuation flag still up from before; and after a save has failed -
  "The current generation was not durably saved; automatic removal planning is
  paused." (`service.go:423`) - it takes no save to end the pause: the next
  refresh raises the inventory flag, its import history fails, and an enrichment
  raises the valuation flag again. `ValuationAwaitsSources` is about the flags
  only and claims nothing else.
* `EnrichNewMedia` merges what TMDB did not answer as well, as it was when the
  pass began: facts a TMDB pass has published meanwhile are lost
  (`CatchUpMerge`).
* `EnrichNewMedia` checks the generation but not the title an item is matched to:
  after a new match it may merge facts of the old title.
* An entry that a media item and a torrent claim under one path is no hard link
  to the planner (`PathsHardlinked` asks for two paths), so the media item is
  offered alone even if the torrent is protected. Without `LayoutAssumption`
  `WithheldKeepsItsData` fails.
* The filters of automatic removal apply after the plan is made: a candidate that
  is always filtered keeps its place and the device stays full although others
  could go. `PressureIsRelieved` therefore counts what is left out as unavailable
  and is checked with `Unattended = TRUE` and `PassedOver = {}`.
* A reconciliation does not renew bundle estimates: films keep the one they had,
  seasons lose theirs until the next refresh. `UnbundledBytesAreCurrent` speaks of
  the others.
* A current torrent whose files are proven copies is never offered: the flag the
  planner asks is reset and set only on the copies shown with the media.
* Protection added after an operation was queued is not looked at when it runs.

Deadlock checking is off: with the bounds used up and everything settled, the
modelled system really has nothing left to do.

### Fairness

`FairSpec` and `FairRemovals` assume what the runtime gives: the loop goroutine
continues (`Pass`), runners return (each has deadlines on its HTTP calls, a
removal 30 minutes in all), timers fire, recovery and shutdown go on, and a
supervisor starts the process again. `StopLoop` gets strong fairness: the
`select` of `Start` chooses at random among ready channels, so a shutdown cannot
be passed over for ever, though it may be while wake-ups compete with it.
Nothing is assumed of clients, crashes, saves or owners, and nothing makes the
periodic interval or the service changes happen.

In `Publication` the intervals start refreshes and full reconciliations again
and again and what has started runs on (`WF`); steps that wait for `publishMu` or
for the publication claim get `SF`, since Go's mutex hands over to a starving
waiter and the scheduler ages what waits. Nothing makes an enrichment start, and
no failure is assumed to end except by its bound. In `Reclaim` refresh,
reconciliation, evaluation and dispatch are periodic or event-driven tasks of
the scheduler (`WF` each); the weak fairness of `Refresh` and of
`Evaluate` is written out, `<>[]RefreshIsNews => []<><<Refresh>>_vars` and
`<>[]MayEvaluate => []<><<Evaluate>>_vars`, where the two predicates say exactly
when the action changes something: it is the same condition and spares TLC the
`ENABLED`. `left` bounds what may
happen from outside, so the environment rests in the end; scheduled scans beyond
those the workflow or a stale model asks for count against it too.

## 4. Proofs

`SchedulerProofs` holds for every set of tasks, keys, claims, requests, workflow
steps and for all bounds; it uses `SchedulerAssumption` and `ClaimsAssumption`,
which TLC evaluates in every run.

* `TypeCorrect`: `TypeOK` is inductive as it stands because it also describes
  `disk`: a restart reads back what some earlier state saved. The lemmas follow
  the code: the maps under their helper operators, then `submitLocked`, then one
  lemma per group of handlers.
* `TableExact`: `[](Idle /\ TableInv)`. Mutual exclusion is not inductive: a
  state with a table that has forgotten a holder satisfies it and admits a
  conflicting execution next. `TableInv` adds that the table says exactly what
  the live executions claim; `Idle` that nothing runs in the loop of a process
  that is not up.
  `StepShape` reduces the many actions to four shapes - the table and executions
  stay, all die, one begins, one ends - and only those are proved to preserve it.
* `ClaimsRespected`: `[]NoConflictingClaims`, from `TableExact`.
* `SchedulerImplementsArbiter`: with the executions' claims as the arbiter's
  state, the same four shapes are its stutter, crash, begin and end.

`PublicationProofs` holds for any number of entities, sources, generations,
changes, failures and restarts (`PublicationAssumption`).

* `PublicationTypeCorrect`: `Typed` types the locals of every goroutine as well,
  and says that `publishMu` is held exactly between the lock and the publication
  of a reconciliation. One lemma per step; the operators on catalogues and
  transactions have theirs.
* `ReliableTopologyIsCurrent`: the invariant excuses a refresh that still has its
  delta to publish. That is not inductive, because nothing says the excuse ends
  well. `Current` adds what it ends with: while the topology has not moved the
  refresh carries a delta, or has failed to save one and will call the topology
  stale. A generation number that comes round again does no harm: a
  reconciliation publishes under the generation it compares with.
* `ValuationAwaitsItsSources`: `RefreshFinish` and `EnrichPublish` raise the
  valuation flag without looking at the inventory's. `BaseNotWithdrawn` says why
  they may: it is up when they start to count on it, and since the tasks exclude
  each other nobody can withdraw it before they end. The theorem relates flags
  in memory; what is on disk by then is the subject of section 3, not of it.
* `TopologyOnlyMovesForward`: `[]GenerationsLast` with the specification implies
  `TopologyNeverGoesBack`. Two observations are on their way at most. The delta of
  a refresh is newer than what is published until the topology moves, and then
  it is dropped (`Newer`). A full reconciliation may hold something older than the
  delta of a refresh that runs beside it; but that refresh advances the
  generation before it publishes, since a delta exists only for a changed
  fingerprint, and the reconciliation then discards what it has. So what still
  has the generation of the base is newer than what is published and than what
  is about to be (`Latest`). With the numbers of generations used up and given
  out again it fails - TLC shows it for the invariant - hence `GenerationsLast`: the last
  number is never reached. `MaxGeneration` is any number, the counter of the code
  has 64 bits.

`AdmissionProofs` proves the order of admission, from the same assumptions.

* `AdmissionInOrder`: what the pass admits ranks no lower than any ready intent
  that would fit. The weight of waiting is capped, so the comparison the code
  makes of two scores is the one the property makes of priority and age.
* `NothingIsMissed`: `NoMissedWake` says that whatever could run has a wake-up or
  a timer coming. It is not inductive: a handler may free resources and set no
  wake-up. `Watchful` says in which states that cannot matter - the pass is still
  to look at it, the wake channel is full, or every timer the last pass needed is
  armed - and each handler is shown to leave one of them.
* `UrgentWorkIsYieldedTo`: `Preempt` runs once in a pass, before admission, and
  the property is about all states after it. `Yielding` and `Patient` say what
  the pass has asked of the executions it found; that they still are all
  obstacles follows from `TableInv`, because only the table stands in the way.

`TriggerProofs` follows accepted work through coalescing, attachment, requeueing,
crashes and recovery.

* `EveryTriggerIsAccounted`: `TriggersAccounted` says that an unsettled trigger
  is carried by a pending intent or by an execution, as its state says. Nothing
  in it says what a restart will read. The invariant, `Accounted`, keeps four
  books of the maps (which IDs were issued, what queued triggers and what served
  triggers are listed by, that listed triggers are kept) and demands them of the
  manager (`BooksNow`) and of what is on disk (`BooksDisk`), in which executions
  count as their own next attempt. The books are stated of any four maps, so
  that each helper of the code is proved once, in memory and on disk. `Dormant`
  covers a process that is not up; `OnDisk` ties the two copies together.
* `AcceptedWorkIsDurable`, `CoverageIsCaptured`, `FullScansAreFull` are conjuncts
  or consequences of `Accounted`; `OutcomesAreFinal` is an action property: a settled
  trigger keeps its outcome in every step of a process, and the books say that
  no list can bring it back.

What is planned and carried out is proved in three modules, for every library and
every set of media, torrents, paths and inodes that satisfies `TopologyAssumption`,
`PlanAssumption`, `ReclaimAssumption` and `LayoutAssumption`. The last says what imports
leave behind: an entry has one owner, a path belongs to one media item because a
file record of an owner has one movie or series.

* `ReclaimProofs`, `OthersKeepTheirFiles`: no step takes an entry of an owner the
  operation does not name. The property is about steps; `AlwaysSafe` supplies what
  it needs of the state before: entries keep a single owner, and what is left of
  an operation was asked for. Nothing about the published inventory or the plan
  is used, which is the point: safety here rests on the owners' calls and the
  last look before an unlink, not on the freshness of the plan.
* `CleanupPlanProofs` begins with lemmas about `FileTopology`: what `Total` counts is
  monotone and adds up over disjoint sets; a set of entries releases an inode
  exactly if it holds all its links; links are equal on parts of the topology that
  agree. `PlanIsRight`: what `Plan` returns, for every view a model can
  publish. No two candidates share their place in the list (`EveryPlaceIsTaken`:
  the order is total, so ranks are the numbers from 1 on), hence the prefix is
  one; it holds each candidate once, reaches what is needed or takes all there is,
  and of two seasons of a show the earlier goes first, which the swap of
  `EnforceSeasonOrder` must not undo. A fair share stops no earlier than what it replaces.
* `ReclaimProofs`, `ReclaimTypesOK`: the types, with `AlwaysTyped` the invariant
  behind it: what is published is a library of the right shape too, and what is
  queued names a form (`Forms`) that `Submit` enumerates. One lemma per action.
* `ReclaimPlanProofs`: the plan of a state is a plan in the sense of `PlanIsRight`
  because the view follows the topology (`ViewFollows`): every publication computes
  the estimates of one from the other. From it `TargetIsReached`,
  `EarlierSeasonsGoFirst`, `EstimatesAreCurrent` and `WithheldIsKept`, the last using that
  entries of one path have one media item. `PromisesAreKept` is about the end of
  an operation, the promise about its beginning. `FreesWhatItPromised` is not
  inductive: it says nothing of an operation under way. `PromiseStands` follows it:
  nothing has come to the device since, and every entry that an inode which is to
  go still has is one the operation will come to, and remove when it does.

`RemovalsProofs` holds for any number of operations, browsers, tokens and tasks
and for all bounds on faults, restarts and submissions, given `RemovalsAssumption`.
`Removals` contains the scheduler, so the first part shows that what the other
modules prove of it still holds under the steps removals add. The rest climbs,
each invariant resting on the one before:

* `RemovalsTypesCorrect`, with `Core`: the types, that the journal is well-formed,
  and that the maps of the scheduler know no key of an operation the journal has
  not (`Journaled`, `Orderly`).
* `TokensAreUnique`, with `Booked`: `OneOperationPerToken` is about saved rows; the
  race is between a handler's lookup and its save. `Tokens` says that the handler
  inside the admission mutex has found none among the newest `Window` rows, and
  rows added meanwhile by the planner only push older ones out; it is claimed while
  no statement has failed, and of rows no more than `Window` apart. `Ledger` says
  that the scheduler holds one trigger, intent or execution of each operation, in
  memory and on disk, and `Promised` that a row being submitted is known to its
  submitter alone.
* `ReplayNeedsAFault`, with `Carried`: "at most once" is not inductive, for nothing in
  it says what a restart will queue. `Ahead` is the reason: the journal runs
  ahead of the scheduler. Whatever is queued again, in memory or on disk, has a
  row that still says "queued", and only the runner of such a row acts. The
  order of the two saves keeps it so; a save that fails breaks it, hence the
  condition `count.faults = 0`, and `removal_replay` shows that it is needed.
* `ResurrectionNeedsTwoFaults`: a refused operation has a closed row and is nowhere
  in the scheduler (`Shut`), unless a second write failed: the one that closes it.
* `JournalAndSchedulerAgree`, with `Sound`: settled triggers match their rows in
  memory and on disk (`Matched`), and while start-up works through the rows of
  the last process, it either has come to a row or has it still to do
  (`Doubted`). `VerdictsAreFinal` is the action property beside it: no runner that
  ends late, no start and no refusal rewrites a verdict.
* `ExactScopesCover`, `FinishedMeansReconciled`, with `Indebted`: what a removal changed
  is named by the scope, awaited by the workflow, and already read by any file
  reconciliation under way - or someone is about to see to the first two:
  the runner that is still to queue it and to advance the workflow, or a
  start that still has its row. The third needs `RemovalsRunAlone`, from
  `TableInv`: a removal and a file reconciliation hold conflicting claims.
  `WorkflowGoesOn` says how a workflow may move: no step of the scheduler ends
  one that still has its file reconciliation to do, and a start loads what
  was saved. Both theorems assume no failed write and
  `RestoresUndisturbed`: the process does not die again after start-up has
  closed the rows of its predecessor and before it has advanced the workflow
  for them. Without that hypothesis they are false (section 3).

The conditions on faults and on that window are conditions on histories, not on
constants: every run satisfies them in most of its states, and the runs that
check these properties (`removal_pair`, `removal_recovery`) in all.

Only model-checked: liveness (`OwedWorkSettles`, `WorkflowSettles`,
`OperationsSettle`, `MediaConverge`, `PressureIsRelieved`), because fairness is out of
the prover's reach. Every safety property of the passing runs is a theorem, some
under the conditions named with them.

## 5. Plan

1. A run for the second death during start-up and, beside it, what a repaired
   start-up (scope and workflow before the rows) would promise.
2. *Publication* with an abstract specification of one register per entity, and
   as the inner steps of `Refresh` and `Files` in `Reclaim`.
3. *Live configuration* with runs in flight; the *revision hub* and the
   projection of pending removals.

Not modelled: valuation (floating point; any order of values will do for the
planner), what the adapters do on the wire, rendering and the confirmation
page's warnings and labels, dry runs and the queue-removal of incomplete torrents
in `Reclaim`, several devices, mount points that cannot be reached, sessions,
logging, the live configuration, the revision hub and the front end.
