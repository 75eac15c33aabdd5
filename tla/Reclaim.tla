------------------------------- MODULE Reclaim -------------------------------
(***************************************************************************)
(* Automatic and manual removal, end to end: what is on disk and claimed,  *)
(* what Stewarr has published of it, the plan it draws from that, and the  *)
(* operations that carry the plan out.                                     *)
(*                                                                         *)
(*   the world     disk, live        directory entries; live claims of the *)
(*                                   media services and torrent clients    *)
(*   published     topology, view, reliable                                *)
(*   workflow      due               the stage of the consistency workflow *)
(*                                   a removal started, or "none"          *)
(*   removal       queue, runner     journalled operations, the one at work*)
(*   bound         left              how much else may still happen        *)
(*                                                                         *)
(* The scheduler runs a removal alone: it holds "owner-filesystem-mutation"*)
(* exclusively, inventory and files hold it shared (module Scheduler).     *)
(***************************************************************************)
EXTENDS CleanupPlan, RemovalPlan

CONSTANTS
  Scanned,     \* the entries under the storage roots
  Layout,      \* initial worlds: disk, live
  Capacity,    \* bytes of the device
  Target,      \* target usage, percent
  Unattended,  \* removal.autoRemoveUnassociatedTorrents
  PassedOver,  \* media with stale TMDB data and incomplete torrents
  MaxQueue,    \* bound: journalled operations that wait
  MaxEvents    \* bound: confirmations, scheduled scans, faults and outside changes

ASSUME ReclaimAssumption ==
  /\ Scanned \subseteq Path
  /\ Unattended \in BOOLEAN
  /\ PassedOver \subseteq Media \cup Torrent
  /\ {Capacity, Target, MaxQueue, MaxEvents} \subseteq Nat

MediaRef == [media : Media, season : {0} \cup Seasons, path : Path, file : STRING]
TorrentRef == [torrent : Torrent, path : Path]

\* What the services and the clients know: their claims, what the import
\* history says of a torrent, and what may not be removed.
Claims ==
  [media : SUBSET MediaRef, torrents : SUBSET TorrentRef,
   origin : [Torrent -> [current : SUBSET Media, former : SUBSET Media, superseded : BOOLEAN]],
   withheld : SUBSET (Media \cup Torrent)]

ClaimsOK(x) ==
  /\ \A r \in x.media : r \in MediaRef /\ (r.season = 0 <=> r.media \in Films)
  /\ x.torrents \subseteq TorrentRef

\* A directory entry has one owner, and a managed file is of one media item.
ExclusiveClaims(x) ==
  /\ \A r, s \in x.media : r.path = s.path => r.file = s.file /\ r.media = s.media
  /\ \A r, s \in x.torrents : r.path = s.path => r.torrent = s.torrent
  /\ \A r \in x.media, s \in x.torrents : r.path # s.path

\* Libraries in which the media services and the clients keep entries of their
\* own, as hard linking and copying on import both leave them.
ASSUME LayoutAssumption ==
  \A l \in Layout :
    /\ DOMAIN l.disk \subseteq Path /\ Range(l.disk) \subseteq Inode
    /\ l.live \in Claims /\ ClaimsOK(l.live) /\ ExclusiveClaims(l.live)

VARIABLES disk, live, topology, view, reliable, due, queue, runner, left

vars == <<disk, live, topology, view, reliable, due, queue, runner, left>>
world == <<disk, live>>
published == <<topology, view, reliable>>

Operation(kind, media, files, torrents, paths) ==
  [kind |-> kind, media |-> media, files |-> files, torrents |-> torrents, paths |-> paths]

NoOperation == Operation("none", "none", {}, {}, {})

Idle == [running |-> FALSE, op |-> NoOperation, files |-> {}, torrents |-> {}, paths |-> {},
         confirmed |-> <<>>, promised |-> 0, before |-> 0,
         mutated |-> FALSE, failed |-> FALSE, undisturbed |-> TRUE]

-----------------------------------------------------------------------------
(* Publication: what a refresh and a file reconciliation derive.           *)

LiveTorrents == {r.torrent : r \in live.torrents}

UnitsOf(x) == {u \in Unit : u.media \in Films \/ UnitRefs(x, u) # {}}

\* The status import history gives a torrent, before topology has its say.  The
\* latest import counts while its media has files; every import leaves a trace.
FromHistory(t) ==
  LET origin == live.origin[t]
      current == {m \in origin.current : MediaPaths(live, m) # {}}
      former == origin.current \cup origin.former
  IN [items |-> current, former |-> former,
      status |-> CASE current # {} -> "current"
                   [] current = {} /\ origin.superseded -> "superseded"
                   [] current = {} /\ ~origin.superseded /\ former # {} -> "orphaned"
                   [] OTHER -> "unassociated"]

\* A torrent that backs managed files is current whatever history says.  The
\* two summary flags are reset and never set again on the torrent itself: only
\* the copies projected onto media have them.
ViewTorrent(x, t, base) ==
  LET matched == {m \in Media : TorrentMediaPhysicalMatch(x, t, m)}
      paths == TorrentPaths(x, t)
      items == base.items \cup matched
      linked == {m \in items : PathsHardlinked(x, MediaPaths(x, m), paths)}
  IN [items |-> items, former |-> base.former \ matched,
      status |-> IF matched = {} THEN base.status ELSE "current",
      linked |-> linked,
      seasons |-> {n \in Seasons : \E m \in linked \ Films :
                     PathsHardlinked(x, UnitPaths(x, [media |-> m, season |-> n]), paths)},
      reclaim |-> Estimate(x, paths), hardlinkKnown |-> FALSE, hardlinked |-> FALSE]

\* The entries of a unit and of every current torrent hardlinked to it.
BundlePaths(x, torrents, u) ==
  LET joined == {t \in DOMAIN torrents :
                   /\ torrents[t].status = "current"
                   /\ u.media \in torrents[t].linked
                   /\ u.media \notin Films => u.season \in torrents[t].seasons}
  IN UnitPaths(x, u) \cup UNION {TorrentPaths(x, t) : t \in joined}

Unestimated == [known |-> FALSE, bytes |-> 0]

\* The base inventory as the services report it, valued on topology x.
RefreshedView(x) ==
  LET torrents == [t \in LiveTorrents |-> ViewTorrent(x, t, FromHistory(t))] IN
  [torrents |-> torrents,
   units |-> [u \in UnitsOf(x) |->
                [alone |-> Estimate(x, UnitPaths(x, u)),
                 bundle |-> Estimate(x, BundlePaths(x, torrents, u))]],
   withheld |-> live.withheld,
   stock |-> [media |-> live.media, torrents |-> LiveTorrents]]

\* Mutant: units that were valued before keep both their estimates.
ReconciledViewKeeping(x) ==
  [view EXCEPT
     !.torrents = [t \in DOMAIN view.torrents |-> ViewTorrent(x, t, view.torrents[t])],
     !.units = [u \in UnitsOf(x) |->
                  IF u \in DOMAIN view.units THEN view.units[u]
                  ELSE [alone |-> Estimate(x, UnitPaths(x, u)), bundle |-> Unestimated]]]

\* The published inventory on a new topology.  A file reconciliation does not
\* compute bundles: movies keep the estimate they had, seasons are built anew.
ReconciledView(x) ==
  [view EXCEPT
     !.torrents = [t \in DOMAIN view.torrents |-> ViewTorrent(x, t, view.torrents[t])],
     !.units = [u \in UnitsOf(x) |->
                  [alone |-> Estimate(x, UnitPaths(x, u)),
                   bundle |-> IF u.media \in Films THEN view.units[u].bundle ELSE Unestimated]]]

\* Every regular file under a root that could be walked.
Walked == Restrict(disk, DOMAIN disk \cap Scanned)

MediaClaims == live.media

\* The clients are asked for the files of the published torrents alone.
TorrentClaims(torrents) == {r \in live.torrents : r.torrent \in torrents}

Found(inode, torrents) ==
  [inode |-> inode, links |-> [i \in Range(inode) |-> LinksOf(disk, i)],
   media |-> MediaClaims, torrents |-> TorrentClaims(torrents)]

\* Mutant: the walk leaves the roots.
ScanBeyond(torrents) == Found(disk, torrents)

Scan(torrents) == Found(Walked, torrents)

Refresh ==
  /\ ~runner.running
  /\ view' = RefreshedView(topology)
  /\ reliable' = (reliable /\ view'.stock = view.stock)
  /\ due' = IF due = "inventory" THEN "files" ELSE due
  /\ UNCHANGED <<world, topology, queue, runner, left>>

\* Wanted by the workflow, by a stale file model, or by the schedule.
Files ==
  /\ ~runner.running
  /\ \/ due = "files" /\ left' = left
     \/ ~reliable /\ left' = left
     \/ left > 0 /\ left' = left - 1
  /\ topology' = Scan(DOMAIN view.torrents)
  /\ view' = ReconciledView(topology')
  /\ reliable' = TRUE
  /\ due' = IF due = "files" THEN "none" ELSE due
  /\ UNCHANGED <<world, queue, runner>>

-----------------------------------------------------------------------------
(* Planning.                                                               *)

UsedBytes == Bytes(Range(disk))

\* Bytes used that no scanned file accounts for are set aside.
OtherBytes ==
  LET accounted == Bytes(Range(topology.inode))
  IN IF UsedBytes > accounted THEN UsedBytes - accounted ELSE 0

NeedBytes ==
  LET other == IF OtherBytes < Capacity THEN OtherBytes ELSE Capacity
      ours == IF other > UsedBytes THEN 0 ELSE UsedBytes - other
      allowed == ((Capacity - other) * Target) \div 100
  IN IF ours > allowed THEN ours - allowed ELSE 0

\* Bytes per media service: an inode belongs to a service that claims it.
Footprint ==
  LET claims(i) == {ServiceOf[r.media] : r \in {r \in topology.media :
                      r.path \in KnownPaths(topology) /\ topology.inode[r.path] = i}}
      owned(s) == {i \in Range(topology.inode) :
                     claims(i) # {} /\ s = CHOOSE c \in claims(i) : TRUE}
  IN [s \in Range(ServiceOf) |-> Bytes(owned(s))]

PlanningReliable == reliable /\ due = "none"

Plan == IF NeedBytes = 0 THEN <<>> ELSE BuildPlan(view, Footprint, NeedBytes)

\* What automatic removal leaves to a human, whatever the plan says.
LeftOut(a) ==
  IF a.kind = "torrent"
  THEN \E t \in a.torrents :
         \/ t \in PassedOver
         \/ view.torrents[t].status = "unassociated" /\ ~Unattended
  ELSE a.unit.media \in PassedOver

FormForAction(a) ==
  IF a.kind = "torrent"
  THEN Operation("torrent", "none", {}, a.torrents, {})
  ELSE Operation("media", a.unit.media, {r.file : r \in UnitRefs(topology, a.unit)}, a.torrents, {})

Submissions ==
  LET plan == Plan
      forms == [k \in DOMAIN plan |-> FormForAction(plan[k])]
      accepted == {k \in DOMAIN plan :
                     /\ ~LeftOut(plan[k])
                     /\ forms[k].kind = "media" => forms[k].files # {}
                     /\ Admitted(topology, view, forms[k])}
      Nth(n) == CHOOSE k \in accepted : Cardinality({j \in accepted : j < k}) = n - 1
  IN [n \in 1..Cardinality(accepted) |-> forms[Nth(n)]]

CanSubmit(forms) == forms # <<>> /\ Len(queue) + Len(forms) <= MaxQueue

MayEvaluate == PlanningReliable /\ Len(queue) < MaxQueue /\ CanSubmit(Submissions)

Evaluate ==
  /\ PlanningReliable /\ Len(queue) < MaxQueue
  /\ UNCHANGED <<world, published, due, runner, left>>
  /\ LET forms == Submissions IN
     /\ CanSubmit(forms)
     /\ queue' = queue \o forms

\* A torrent, an unmanaged file, or the files of a film or season with some of
\* the torrents.
Forms ==
  {Operation("torrent", "none", {}, {t}, {}) : t \in DOMAIN view.torrents}
  \cup {Operation("unmanaged", "none", {}, {}, {p}) : p \in KnownPaths(topology)}
  \cup UNION {{Operation("media", u.media, {r.file : r \in UnitRefs(topology, u)}, torrents, {}) :
                 torrents \in SUBSET DOMAIN view.torrents} : u \in UnitsOf(topology)}

\* A person confirms a removal; the form may be as old as the page it is on.
Submit ==
  /\ left > 0 /\ Len(queue) < MaxQueue
  /\ \E op \in Forms :
       /\ op.kind = "media" => op.files \cup op.torrents # {}
       /\ Admitted(topology, view, op)
       /\ queue' = Append(queue, op)
  /\ left' = left - 1
  /\ UNCHANGED <<world, published, due, runner>>

-----------------------------------------------------------------------------
(* Execution: revalidate, then owner by owner.                             *)

\* The published claims on what is still there are live.
ClaimsStand ==
  /\ {r \in topology.media : r.path \in DOMAIN disk} \subseteq live.media
  /\ {r \in topology.torrents : r.path \in DOMAIN disk} \subseteq live.torrents

Begin ==
  /\ ~runner.running /\ queue # <<>>
  /\ queue' = Tail(queue)
  /\ LET op == Head(queue) IN
     IF Authorized(topology, view, live, op)
     THEN runner' = [running |-> TRUE, op |-> op,
                     files |-> op.files, torrents |-> op.torrents, paths |-> op.paths,
                     confirmed |-> Restrict(disk, op.paths \cap DOMAIN disk),
                     promised |-> ReclaimableBytes(disk, op, Candidates(topology, view, op)),
                     before |-> UsedBytes,
                     mutated |-> FALSE, failed |-> FALSE, undisturbed |-> ClaimsStand]
     ELSE runner' = runner
  /\ UNCHANGED <<world, published, due, left>>

Unlinked(paths) == Restrict(disk, DOMAIN disk \ paths)

\* The media service deletes a managed file, or no longer knows it.
DeleteFile(f) ==
  LET refs == {r \in live.media : r.file = f} IN
  /\ disk' = Unlinked({r.path : r \in refs})
  /\ live' = [live EXCEPT !.media = @ \ refs]

\* The client deletes a torrent with its files; a torrent it lacks is no error.
DeleteTorrent(t) ==
  LET refs == {r \in live.torrents : r.torrent = t} IN
  /\ disk' = Unlinked({r.path : r \in refs})
  /\ live' = [live EXCEPT !.torrents = @ \ refs]

RemoveManagedFile(f) ==
  LET known == \E r \in live.media : r.file = f IN
  /\ f \in runner.files
  /\ DeleteFile(f)
  /\ runner' = [runner EXCEPT !.files = @ \ {f}, !.mutated = @ \/ known, !.failed = @ \/ ~known]
  /\ UNCHANGED <<published, due, queue, left>>

RemoveTorrent(t) ==
  /\ runner.files = {} /\ t \in runner.torrents
  /\ DeleteTorrent(t)
  /\ runner' = [runner EXCEPT !.torrents = @ \ {t}, !.mutated = TRUE]
  /\ UNCHANGED <<published, due, queue, left>>

\* An owner call that reports an error: it had its effect or it had none.
OwnerCallFails ==
  /\ left > 0
  /\ \/ \E f \in runner.files :
          /\ DeleteFile(f) \/ UNCHANGED world
          /\ runner' = [runner EXCEPT !.files = @ \ {f}, !.failed = TRUE]
     \/ \E t \in runner.torrents :
          /\ runner.files = {}
          /\ DeleteTorrent(t) \/ UNCHANGED world
          /\ runner' = [runner EXCEPT !.torrents = @ \ {t}, !.failed = TRUE]
  /\ left' = left - 1
  /\ UNCHANGED <<published, due, queue>>

\* Mutant: the claims that were checked when the operation began are trusted.
VerifiedByIdentity(p) ==
  /\ p \in DOMAIN disk \cap DOMAIN runner.confirmed
  /\ disk[p] = runner.confirmed[p]

\* The client is asked about its torrents as they are, not as published.
ClaimedFiles == {r.path : r \in live.torrents}
VerifyPathsUnmanaged(p) == p \notin ClaimedFiles

VerifyUnmanaged(p) ==
  /\ VerifyPathsUnmanaged(p)
  /\ p \notin {r.path : r \in live.media}

\* Live owners and identity are checked once more right before the unlink.
Verified(p) ==
  /\ VerifyUnmanaged(p)
  /\ p \in DOMAIN disk \cap DOMAIN runner.confirmed
  /\ disk[p] = runner.confirmed[p]

Unlink(p) ==
  /\ runner.files \cup runner.torrents = {} /\ p \in runner.paths
  /\ disk' = IF Verified(p) THEN Unlinked({p}) ELSE disk
  /\ runner' = [runner EXCEPT !.paths = @ \ {p}, !.mutated = @ \/ Verified(p)]
  /\ UNCHANGED <<live, published, due, queue, left>>

\* Mutant: an operation leaves it to the schedule to notice.
FinishQuietly ==
  /\ runner.running /\ runner.files \cup runner.torrents \cup runner.paths = {}
  /\ runner' = Idle
  /\ UNCHANGED <<world, published, due, queue, left>>

\* Anything done, or perhaps done, starts the consistency workflow.
Finish ==
  /\ runner.running /\ runner.files \cup runner.torrents \cup runner.paths = {}
  /\ runner' = Idle
  /\ due' = IF runner.mutated \/ runner.failed THEN "inventory" ELSE due
  /\ UNCHANGED <<world, published, queue, left>>

Execute ==
  \/ \E f \in runner.files : RemoveManagedFile(f)
  \/ \E t \in runner.torrents : RemoveTorrent(t)
  \/ \E p \in runner.paths : Unlink(p)
  \/ Finish

-----------------------------------------------------------------------------
(* Whatever else happens to the library.                                   *)

Drifts ==
  /\ left > 0
  /\ left' = left - 1
  /\ runner' = IF runner.running THEN [runner EXCEPT !.undisturbed = FALSE] ELSE runner
  /\ UNCHANGED <<published, due, queue>>

\* Another program links a file under a free name.
Link ==
  /\ Drifts
  /\ \E p \in Path \ (DOMAIN disk \cup Claimed(live)), q \in DOMAIN disk :
       disk' = [r \in DOMAIN disk \cup {p} |-> IF r = p THEN disk[q] ELSE disk[r]]
  /\ UNCHANGED live

\* Another program removes an entry nobody claims.
Vanish ==
  /\ Drifts
  /\ \E p \in DOMAIN disk \ Claimed(live) : disk' = Unlinked({p})
  /\ UNCHANGED live

\* A torrent is added on a file that was unmanaged.
Adopt ==
  /\ Drifts
  /\ \E p \in (DOMAIN disk \cap Scanned) \ Claimed(live), t \in Torrent :
       live' = [live EXCEPT !.torrents = @ \cup {[torrent |-> t, path |-> p]}]
  /\ UNCHANGED disk

\* Someone protects a media item or a torrent in its own service.
Withhold ==
  /\ Drifts
  /\ \E o \in (Media \cup LiveTorrents) \ live.withheld :
       live' = [live EXCEPT !.withheld = @ \cup {o}]
  /\ UNCHANGED disk

Environment == Link \/ Vanish \/ Adopt \/ Withhold

-----------------------------------------------------------------------------
NoTopology == [inode |-> <<>>, links |-> <<>>, media |-> {}, torrents |-> {}]

\* Stewarr starts on an unknown library: nothing is published yet.
Init ==
  /\ \E l \in Layout : disk = l.disk /\ live = l.live
  /\ topology = NoTopology
  /\ view = RefreshedView(NoTopology)
  /\ reliable = FALSE
  /\ due = "none"
  /\ queue = <<>>
  /\ runner = Idle
  /\ left = MaxEvents

Next ==
  \/ Refresh \/ Files \/ Evaluate \/ Submit \/ Begin
  \/ Execute \/ OwnerCallFails
  \/ Environment

\* Refresh, file reconciliation and evaluation are periodic tasks, removals are
\* dispatched as they come.  The two implications are WF_vars(Refresh) and
\* WF_vars(Evaluate): a refresh changes something when the view or the workflow
\* is behind, an evaluation changes the queue whenever it may be taken.
RefreshIsNews == ~runner.running /\ (due = "inventory" \/ view # RefreshedView(topology))

Fairness ==
  /\ <>[]RefreshIsNews => []<><<Refresh>>_vars
  /\ <>[]MayEvaluate => []<><<Evaluate>>_vars
  /\ WF_vars(Files) /\ WF_vars(Begin) /\ WF_vars(Execute)

Spec == Init /\ [][Next]_vars /\ Fairness
-----------------------------------------------------------------------------
(* Properties.                                                             *)

OperationOK(op) ==
  /\ op.kind \in {"media", "torrent", "unmanaged", "none"}
  /\ op.media \in Media \cup {"none"}
  /\ op.files \subseteq STRING /\ op.torrents \subseteq Torrent /\ op.paths \subseteq Path

\* Types, and what ties the parts together: every link count is at least the
\* links that were found, seasons and torrents of the view are those the
\* topology and the inventory have, an operation at work does what it was asked.
ReclaimTypeOK ==
  /\ DOMAIN disk \subseteq Path /\ Range(disk) \subseteq Inode
  /\ ClaimsOK(live) /\ ClaimsOK(topology)
  /\ KnownPaths(topology) \subseteq Scanned
  /\ \A i \in DOMAIN topology.links :
       topology.links[i] >= Cardinality({p \in KnownPaths(topology) : topology.inode[p] = i})
  /\ {r.torrent : r \in topology.torrents} \subseteq Torrent
  /\ DOMAIN view.units \subseteq Unit /\ DOMAIN view.torrents \subseteq Torrent
  /\ reliable => DOMAIN view.units = UnitsOf(topology)
  /\ reliable \in BOOLEAN /\ due \in {"none", "inventory", "files"}
  /\ Len(queue) <= MaxQueue /\ \A k \in DOMAIN queue : OperationOK(queue[k])
  /\ OperationOK(runner.op)
  /\ runner.files \subseteq runner.op.files
  /\ runner.torrents \subseteq runner.op.torrents
  /\ runner.paths \subseteq runner.op.paths

\* A directory entry that goes while an operation runs is claimed, at that
\* moment, by no owner but those the operation names, whatever was adopted or
\* imported since the form was confirmed and the plan was built.
NobodyElsesFileGoes ==
  [][\A p \in DOMAIN disk \ DOMAIN disk' :
       /\ \A r \in live.media : r.path = p => r.file \in runner.op.files
       /\ \A r \in live.torrents : r.path = p => r.torrent \in runner.op.torrents]_vars

\* An operation that began with claims that stand, that nothing disturbed and
\* that saw no error frees at least the bytes its plan recorded in History.
FreesWhatItPromised ==
  /\ runner.running /\ runner.undisturbed /\ ~runner.failed
  /\ runner.files \cup runner.torrents \cup runner.paths = {}
  => runner.before - UsedBytes >= runner.promised

Candidacies == MediaTier(view) \cup TorrentTier(view)

PlannedActions == Range(Plan)

\* The plan reaches the target or takes every candidate there is: the fair
\* share of the services never leaves it short.
PlanReachesTarget ==
  PlanningReliable /\ NeedBytes > 0 =>
    LET planned == PlannedActions
    IN BytesOf(planned) >= NeedBytes \/ planned = Candidacies

\* Whatever their values, of two seasons of a show in one plan the earlier goes
\* first; the plan still has the actions it had.
SeasonsGoInOrder ==
  PlanningReliable =>
    LET plan == Plan IN
    /\ \A j, k \in DOMAIN plan :
         /\ j < k
         /\ plan[j].unit.media = plan[k].unit.media
         /\ plan[j].unit.season # 0
         => plan[j].unit.season < plan[k].unit.season
    /\ Len(plan) = Cardinality(Range(plan))

\* The entries the operations of the plan will remove.
Doomed ==
  UNION {UnitPaths(topology, a.unit) \cup UNION {TorrentPaths(topology, t) : t \in a.torrents} :
           a \in PlannedActions}

\* No automatic removal takes an entry of a media item or torrent that is
\* protected, or whose service does not allow automatic removal.
WithheldKeepsItsData ==
  PlanningReliable =>
    LET doomed == Doomed
    IN \A o \in view.withheld :
         doomed \cap (MediaPaths(topology, o) \cup TorrentPaths(topology, o)) = {}

\* Outside of bundles, the bytes an action promises are those its removal frees
\* on the topology that is published.
UnbundledBytesAreCurrent ==
  PlanningReliable =>
    \A a \in Candidacies :
      a.kind # "bundle" =>
        a.bytes = Estimate(topology, IF a.kind = "media" THEN UnitPaths(topology, a.unit)
                                     ELSE UNION {TorrentPaths(topology, t) : t \in a.torrents}).bytes

\* Once the environment rests, usage comes down to the target for good, or
\* there is nothing left that may be removed unattended.
PressureIsRelieved ==
  <>[](NeedBytes = 0 \/ \A a \in Candidacies : LeftOut(a))
=============================================================================
