---------------------------- MODULE ReclaimProofs ----------------------------
(***************************************************************************)
(* What every removal may rely on, for every library in which entries have *)
(* one owner, every planner, and without bounds.                           *)
(*                                                                         *)
(* 1. A removal takes no entry of another owner.  The property is about a  *)
(* step, and rests on two facts about the states a step starts from: an    *)
(* entry has one owner, so that the call that deletes an owner's files     *)
(* deletes nobody else's; and what the running operation has left to do is *)
(* part of what it was asked.  Nothing is needed about what is published:  *)
(* an operation drawn from a stale plan is as safe as one from a fresh     *)
(* plan.                                                                   *)
(*                                                                         *)
(* 2. The view Stewarr plans on is the one of the topology it has          *)
(* published, unit by unit and torrent by torrent, this topology never saw *)
(* more links than an inode has, and operations are made of what both      *)
(* hold.  The view is what makes it inductive: a file reconciliation keeps *)
(* of it what it does not compute, and rests on the units being complete.  *)
(***************************************************************************)
EXTENDS Reclaim, CleanupPlanProofs

(* 1. Nobody else's file goes. *)
RunnerFields ==
  {"running", "op", "files", "torrents", "paths", "confirmed", "promised", "before",
   "mutated", "failed", "undisturbed"}

\* What is left of the running operation was asked for.
StaysInOrder ==
  /\ DOMAIN runner = RunnerFields
  /\ runner.files \subseteq runner.op.files
  /\ runner.torrents \subseteq runner.op.torrents

OneOwner == live \in Claims /\ ExclusiveClaims(live)

Safe == OneOwner /\ StaysInOrder

Requested(p) ==
  /\ \A r \in live.media : r.path = p => r.file \in runner.op.files
  /\ \A r \in live.torrents : r.path = p => r.torrent \in runner.op.torrents

TakesOwn == \A p \in DOMAIN disk \ DOMAIN disk' : Requested(p)

-----------------------------------------------------------------------------
(* What the owner calls and the outside world do to the claims.            *)

\* Unlinking paths removes these entries and no others.
LEMMA UnlinkedDomain ==
  ASSUME NEW S
  PROVE  DOMAIN Unlinked(S) = DOMAIN disk \ S
BY DEF Unlinked, Restrict

\* Taking claims away leaves every entry at most the owner it had.
LEMMA FewerClaims ==
  ASSUME NEW x, ExclusiveClaims(x), NEW y, y.media \subseteq x.media, y.torrents \subseteq x.torrents
  PROVE  ExclusiveClaims(y)
BY DEF ExclusiveClaims

\* A media service that deletes a file takes only entries of that file.
LEMMA DeleteFileIsExact ==
  ASSUME OneOwner, NEW f, DeleteFile(f)
  PROVE  /\ OneOwner'
         /\ \A p \in DOMAIN disk \ DOMAIN disk' :
              /\ \A r \in live.media : r.path = p => r.file = f
              /\ \A r \in live.torrents : r.path # p
<1> DEFINE refs == {r \in live.media : r.file = f}
<1>1. live' = [live EXCEPT !.media = @ \ refs] /\ live \in Claims
  BY DEF DeleteFile, OneOwner
<1>2. live' \in Claims /\ live'.media \subseteq live.media /\ live'.torrents = live.torrents
  BY <1>1 DEF Claims
<1>3. OneOwner'
  BY <1>2, FewerClaims DEF OneOwner
<1>4. DOMAIN disk \ DOMAIN disk' \subseteq {r.path : r \in refs}
  BY UnlinkedDomain DEF DeleteFile
<1>5. ASSUME NEW p \in DOMAIN disk \ DOMAIN disk'
      PROVE  /\ \A r \in live.media : r.path = p => r.file = f
             /\ \A r \in live.torrents : r.path # p
  <2>1. PICK s \in refs : s.path = p
    BY <1>4, <1>5
  <2> QED BY <2>1 DEF OneOwner, ExclusiveClaims
<1> QED BY <1>3, <1>5

\* A client that deletes a torrent takes only entries of that torrent.
LEMMA DeleteTorrentIsExact ==
  ASSUME OneOwner, NEW t, DeleteTorrent(t)
  PROVE  /\ OneOwner'
         /\ \A p \in DOMAIN disk \ DOMAIN disk' :
              /\ \A r \in live.torrents : r.path = p => r.torrent = t
              /\ \A r \in live.media : r.path # p
<1> DEFINE refs == {r \in live.torrents : r.torrent = t}
<1>1. live' = [live EXCEPT !.torrents = @ \ refs] /\ live \in Claims
  BY DEF DeleteTorrent, OneOwner
<1>2. live' \in Claims /\ live'.torrents \subseteq live.torrents /\ live'.media = live.media
  BY <1>1 DEF Claims
<1>3. OneOwner'
  BY <1>2, FewerClaims DEF OneOwner
<1>4. DOMAIN disk \ DOMAIN disk' \subseteq {r.path : r \in refs}
  BY UnlinkedDomain DEF DeleteTorrent
<1>5. ASSUME NEW p \in DOMAIN disk \ DOMAIN disk'
      PROVE  /\ \A r \in live.torrents : r.path = p => r.torrent = t
             /\ \A r \in live.media : r.path # p
  <2>1. PICK s \in refs : s.path = p
    BY <1>4, <1>5
  <2> QED BY <2>1 DEF OneOwner, ExclusiveClaims
<1> QED BY <1>3, <1>5

\* A torrent is only ever added on a file nobody claims.
LEMMA AdoptKeepsOneOwner ==
  ASSUME OneOwner, Adopt
  PROVE  OneOwner'
<1>1. PICK p \in (DOMAIN disk \cap Scanned) \ Claimed(live), t \in Torrent :
        live' = [live EXCEPT !.torrents = @ \cup {[torrent |-> t, path |-> p]}]
  BY DEF Adopt
<1> DEFINE new == [torrent |-> t, path |-> p]
<1>2. /\ live'.media = live.media /\ live'.torrents = live.torrents \cup {new}
      /\ live' \in Claims
  BY <1>1, ReclaimAssumption DEF OneOwner, Claims, TorrentRef
<1>3. \A r \in live.media \cup live.torrents : r.path # p
  BY <1>1 DEF Claimed
<1> QED BY <1>2, <1>3 DEF OneOwner, ExclusiveClaims

LEMMA WithholdKeepsOneOwner ==
  ASSUME OneOwner, Withhold
  PROVE  OneOwner'
<1>1. PICK o \in (Media \cup LiveTorrents) \ live.withheld :
        live' = [live EXCEPT !.withheld = @ \cup {o}]
  BY DEF Withhold
<1>2. LiveTorrents \subseteq Torrent
  BY DEF LiveTorrents, OneOwner, Claims, TorrentRef
<1>3. live' \in Claims /\ live'.media = live.media /\ live'.torrents = live.torrents
  BY <1>1, <1>2 DEF OneOwner, Claims
<1> QED BY <1>3, FewerClaims DEF OneOwner

-----------------------------------------------------------------------------
(* The steps of an operation.                                              *)

\* The operation at work goes on with no more than it had left.
Progress ==
  /\ DOMAIN runner' = RunnerFields
  /\ runner'.op = runner.op
  /\ runner'.files \subseteq runner.files
  /\ runner'.torrents \subseteq runner.torrents

LEMMA ProgressInOrder ==
  StaysInOrder /\ Progress => StaysInOrder'
BY DEF StaysInOrder, Progress

\* Deleting a file of the operation, whatever the call reports.
LEMMA FileGoes ==
  ASSUME Safe, NEW f \in runner.files, DeleteFile(f), Progress
  PROVE  Safe' /\ TakesOwn
<1>1. f \in runner.op.files
  BY DEF Safe, StaysInOrder
<1> QED BY <1>1, DeleteFileIsExact, ProgressInOrder DEF Safe, TakesOwn, Requested

\* Deleting a torrent of the operation, whatever the call reports.
LEMMA TorrentGoes ==
  ASSUME Safe, NEW t \in runner.torrents, DeleteTorrent(t), Progress
  PROVE  Safe' /\ TakesOwn
<1>1. t \in runner.op.torrents
  BY DEF Safe, StaysInOrder
<1> QED BY <1>1, DeleteTorrentIsExact, ProgressInOrder DEF Safe, TakesOwn, Requested

\* Steps that leave the world alone.
LEMMA WorldStays ==
  ASSUME Safe, UNCHANGED world, StaysInOrder'
  PROVE  Safe' /\ TakesOwn
BY DEF Safe, OneOwner, TakesOwn, world, ExclusiveClaims

LEMMA OwnerCallFailsIsSafe ==
  ASSUME Safe, OwnerCallFails
  PROVE  Safe' /\ TakesOwn
<1>1. CASE \E f \in runner.files :
             /\ DeleteFile(f) \/ UNCHANGED world
             /\ runner' = [runner EXCEPT !.files = @ \ {f}, !.failed = TRUE]
  <2>1. PICK f \in runner.files :
             /\ DeleteFile(f) \/ UNCHANGED world
             /\ runner' = [runner EXCEPT !.files = @ \ {f}, !.failed = TRUE]
    BY <1>1
  <2>2. Progress
    BY <2>1 DEF Safe, StaysInOrder, RunnerFields, Progress
  <2> QED BY <2>1, <2>2, FileGoes, WorldStays, ProgressInOrder DEF Safe
<1>2. CASE \E t \in runner.torrents :
             /\ DeleteTorrent(t) \/ UNCHANGED world
             /\ runner' = [runner EXCEPT !.torrents = @ \ {t}, !.failed = TRUE]
  <2>1. PICK t \in runner.torrents :
             /\ DeleteTorrent(t) \/ UNCHANGED world
             /\ runner' = [runner EXCEPT !.torrents = @ \ {t}, !.failed = TRUE]
    BY <1>2
  <2>2. Progress
    BY <2>1 DEF Safe, StaysInOrder, RunnerFields, Progress
  <2> QED BY <2>1, <2>2, TorrentGoes, WorldStays, ProgressInOrder DEF Safe
<1> QED BY <1>1, <1>2 DEF OwnerCallFails

\* The last look right before the unlink is at the claims as they are.
LEMMA UnlinkIsSafe ==
  ASSUME Safe, NEW p \in runner.paths, Unlink(p)
  PROVE  Safe' /\ TakesOwn
<1>1. Progress /\ live' = live
  BY DEF Unlink, Safe, StaysInOrder, RunnerFields, Progress
<1>2. Safe'
  BY <1>1, ProgressInOrder DEF Safe, OneOwner, ExclusiveClaims
<1>3. CASE Verified(p)
  <2>1. DOMAIN disk \ DOMAIN disk' \subseteq {p}
    BY <1>3, UnlinkedDomain DEF Unlink
  <2>2. Requested(p)
    BY <1>3 DEF Verified, VerifyUnmanaged, VerifyPathsUnmanaged, ClaimedFiles, Requested
  <2> QED BY <1>2, <2>1, <2>2 DEF TakesOwn
<1>4. CASE ~Verified(p)
  BY <1>2, <1>4 DEF Unlink, TakesOwn
<1> QED BY <1>3, <1>4

LEMMA ExecuteIsSafe ==
  ASSUME Safe, Execute
  PROVE  Safe' /\ TakesOwn
<1>1. ASSUME NEW f \in runner.files, RemoveManagedFile(f)
      PROVE  Safe' /\ TakesOwn
  <2>1. Progress /\ DeleteFile(f)
    BY <1>1 DEF RemoveManagedFile, Safe, StaysInOrder, RunnerFields, Progress
  <2> QED BY <2>1, FileGoes
<1>2. ASSUME NEW t \in runner.torrents, RemoveTorrent(t)
      PROVE  Safe' /\ TakesOwn
  <2>1. Progress /\ DeleteTorrent(t)
    BY <1>2 DEF RemoveTorrent, Safe, StaysInOrder, RunnerFields, Progress
  <2> QED BY <2>1, TorrentGoes
<1>3. CASE Finish
  <2>1. StaysInOrder' /\ UNCHANGED world
    BY <1>3 DEF Finish, Idle, StaysInOrder, RunnerFields
  <2> QED BY <2>1, WorldStays
<1> QED BY <1>1, <1>2, <1>3, UnlinkIsSafe DEF Execute

-----------------------------------------------------------------------------
(* Steps that are no part of an operation.                                 *)

LEMMA BeginIsSafe ==
  ASSUME Safe, Begin
  PROVE  Safe' /\ TakesOwn
<1>1. UNCHANGED world
  BY DEF Begin
<1>2. CASE Authorized(topology, view, live, Head(queue))
  <2>1. StaysInOrder'
    BY <1>2 DEF Begin, StaysInOrder, RunnerFields
  <2> QED BY <1>1, <2>1, WorldStays
<1>3. CASE ~Authorized(topology, view, live, Head(queue))
  <2>1. StaysInOrder'
    BY <1>3 DEF Begin, StaysInOrder, Safe
  <2> QED BY <1>1, <2>1, WorldStays
<1> QED BY <1>2, <1>3

LEMMA EnvironmentIsSafe ==
  ASSUME Safe, Environment
  PROVE  Safe' /\ TakesOwn
<1>1. Drifts
  BY DEF Environment, Link, Vanish, Adopt, Withhold
<1>2. StaysInOrder'
  BY <1>1 DEF Drifts, Safe, StaysInOrder, RunnerFields
<1>3. CASE Link
  <2>1. live' = live /\ DOMAIN disk \subseteq DOMAIN disk'
    BY <1>3 DEF Link
  <2> QED BY <1>2, <2>1 DEF Safe, OneOwner, TakesOwn, ExclusiveClaims
<1>4. CASE Vanish
  <2>1. PICK p \in DOMAIN disk \ Claimed(live) : disk' = Unlinked({p}) /\ live' = live
    BY <1>4 DEF Vanish
  <2>2. DOMAIN disk \ DOMAIN disk' \subseteq {p}
    BY <2>1, UnlinkedDomain
  <2>3. Requested(p)
    BY <2>1 DEF Claimed, Requested
  <2> QED BY <1>2, <2>1, <2>2, <2>3 DEF Safe, OneOwner, TakesOwn, ExclusiveClaims
<1>5. CASE Adopt
  <2>1. disk' = disk
    BY <1>5 DEF Adopt
  <2> QED BY <1>2, <1>5, <2>1, AdoptKeepsOneOwner DEF Safe, TakesOwn
<1>6. CASE Withhold
  <2>1. disk' = disk
    BY <1>6 DEF Withhold
  <2> QED BY <1>2, <1>6, <2>1, WithholdKeepsOneOwner DEF Safe, TakesOwn
<1> QED BY <1>3, <1>4, <1>5, <1>6 DEF Environment

\* Observing, planning and confirming touch neither the world nor the runner.
LEMMA QuietSteps ==
  ASSUME Safe, Refresh \/ Files \/ Evaluate \/ Submit \/ UNCHANGED vars
  PROVE  Safe' /\ TakesOwn
<1>1. UNCHANGED world /\ runner' = runner
  BY DEF Refresh, Files, Evaluate, Submit, vars, world
<1>2. StaysInOrder'
  BY <1>1 DEF Safe, StaysInOrder
<1> QED BY <1>1, <1>2, WorldStays

LEMMA StepIsSafe ==
  ASSUME Safe, [Next]_vars
  PROVE  Safe' /\ TakesOwn
BY QuietSteps, BeginIsSafe, ExecuteIsSafe, OwnerCallFailsIsSafe, EnvironmentIsSafe DEF Next

LEMMA InitIsSafe ==
  Init => Safe
BY LayoutAssumption DEF Init, Idle, NoOperation, Operation, Safe, OneOwner, StaysInOrder, RunnerFields

-----------------------------------------------------------------------------
(* An entry has one owner, always, and what the running operation still    *)
(* has to do was asked for.                                                *)
THEOREM AlwaysSafe == Spec => []Safe
BY InitIsSafe, StepIsSafe, PTL DEF Spec

(* A removal takes no entry of an owner it does not name, whatever was     *)
(* adopted, imported or removed since it was confirmed, whichever of its   *)
(* calls fail, and however old the inventory it was planned on.            *)
THEOREM OthersKeepTheirFiles == Spec => NobodyElsesFileGoes
<1>1. Safe /\ [Next]_vars => [TakesOwn]_vars
  BY StepIsSafe
<1> QED BY <1>1, AlwaysSafe, PTL DEF Spec, NobodyElsesFileGoes, TakesOwn, Requested
-----------------------------------------------------------------------------
(* 2. What is published. *)

DiskOK == DOMAIN disk \subseteq Path /\ Range(disk) \subseteq Inode

TopologyOK(x) ==
  /\ KnownPaths(x) \subseteq Scanned /\ Range(x.inode) \subseteq Inode
  /\ DOMAIN x.links = Range(x.inode)
  /\ \A i \in DOMAIN x.links :
       x.links[i] >= Cardinality({p \in KnownPaths(x) : x.inode[p] = i})
  /\ ClaimsOK(x) /\ ExclusiveClaims(x)

\* The estimates of v are those of topology x, but for the bundles.
ViewFollows(x, v) ==
  /\ DOMAIN v = {"torrents", "units", "withheld", "stock"}
  /\ DOMAIN v.units = UnitsOf(x) /\ DOMAIN v.torrents \subseteq Torrent
  /\ \A u \in UnitsOf(x) :
       v.units[u].alone = Estimate(x, UnitPaths(x, u)) /\ v.units[u].bundle.bytes \in Nat
  /\ \A t \in DOMAIN v.torrents : v.torrents[t].reclaim = Estimate(x, TorrentPaths(x, t))

Operations ==
  [kind : {"media", "torrent", "unmanaged"}, media : Media \cup {"none"},
   files : SUBSET STRING, torrents : SUBSET Torrent, paths : SUBSET Path]

\* Only a removal of unmanaged files names paths.
Wanted(op) == op \in Operations /\ (op.kind # "unmanaged" => op.paths = {})

QueueOK ==
  /\ queue \in Seq({op \in Operations : Wanted(op)})
  /\ Len(queue) <= MaxQueue

RunnerOK ==
  /\ Wanted(runner.op) \/ runner.op = NoOperation
  /\ runner.paths \subseteq runner.op.paths

FlagsOK == reliable \in BOOLEAN /\ due \in {"none", "inventory", "files"}

Typed ==
  /\ DiskOK /\ ClaimsOK(live) /\ TopologyOK(topology) /\ ViewFollows(topology, view)
  /\ QueueOK /\ RunnerOK /\ FlagsOK

-----------------------------------------------------------------------------
(* Estimates.                                                              *)

LEMMA BytesAreNat ==
  ASSUME NEW S \in SUBSET Inode
  PROVE  Bytes(S) \in Nat /\ Weighs(SizeOf, S)
<1>1. Weighs(SizeOf, S)
  BY TopologyAssumption, FS_Subset DEF Weighs
<1> QED BY <1>1, TotalIsNat DEF Bytes

LEMMA EstimateIsNat ==
  ASSUME NEW x, Range(x.inode) \subseteq Inode, NEW paths
  PROVE  Estimate(x, paths).bytes \in Nat
<1>1. Unreferenced(x, paths) \subseteq Inode
  BY DEF Unreferenced, KnownPaths, Range
<1>2. Bytes(Unreferenced(x, paths)) \in Nat
  BY <1>1, BytesAreNat
<1> QED BY <1>2 DEF Estimate

LEMMA ViewIsOK ==
  ASSUME NEW x, NEW v, Range(x.inode) \subseteq Inode, ViewFollows(x, v)
  PROVE  ViewOK(v)
BY EstimateIsNat DEF ViewFollows, ViewOK, UnitsOf

\* A refresh values the library as the services report it on the topology.
LEMMA RefreshedFollows ==
  ASSUME NEW x, Range(x.inode) \subseteq Inode, ClaimsOK(live)
  PROVE  ViewFollows(x, RefreshedView(x))
<1> DEFINE v == RefreshedView(x)
           torrents == [t \in LiveTorrents |-> ViewTorrent(x, t, FromHistory(t))]
<1>1. /\ DOMAIN v = {"torrents", "units", "withheld", "stock"}
      /\ v.torrents = torrents
      /\ v.units = [u \in UnitsOf(x) |->
                      [alone |-> Estimate(x, UnitPaths(x, u)),
                       bundle |-> Estimate(x, BundlePaths(x, torrents, u))]]
  BY DEF RefreshedView
<1>2. LiveTorrents \subseteq Torrent
  BY DEF LiveTorrents, ClaimsOK, TorrentRef
<1>3. \A t \in LiveTorrents : torrents[t].reclaim = Estimate(x, TorrentPaths(x, t))
  BY DEF ViewTorrent
<1> HIDE DEF torrents, v
<1>4. \A u \in UnitsOf(x) : v.units[u].alone = Estimate(x, UnitPaths(x, u)) /\ v.units[u].bundle.bytes \in Nat
  BY <1>1, EstimateIsNat
<1>5. DOMAIN torrents = LiveTorrents
  BY DEF torrents
<1> QED BY <1>1, <1>2, <1>3, <1>4, <1>5 DEF ViewFollows, v

\* A file reconciliation values the published inventory on the new topology.
LEMMA ReconciledFollows ==
  ASSUME NEW x, Range(x.inode) \subseteq Inode, ViewFollows(topology, view)
  PROVE  ViewFollows(x, ReconciledView(x))
<1> DEFINE v == ReconciledView(x)
           torrents == [t \in DOMAIN view.torrents |-> ViewTorrent(x, t, view.torrents[t])]
           bundle(u) == IF u.media \in Films THEN view.units[u].bundle ELSE Unestimated
<1>1. /\ DOMAIN v = {"torrents", "units", "withheld", "stock"}
      /\ v.torrents = torrents
      /\ v.units = [u \in UnitsOf(x) |-> [alone |-> Estimate(x, UnitPaths(x, u)), bundle |-> bundle(u)]]
  BY DEF ReconciledView, ViewFollows
<1>2. \A t \in DOMAIN view.torrents : torrents[t].reclaim = Estimate(x, TorrentPaths(x, t))
  BY DEF ViewTorrent
<1>3. ASSUME NEW u \in UnitsOf(x)
      PROVE  bundle(u).bytes \in Nat
  <2>1. u.media \in Films => u \in UnitsOf(topology)
    BY DEF UnitsOf
  <2> QED BY <2>1 DEF ViewFollows, Unestimated
<1> HIDE DEF torrents, v, bundle
<1>4. \A u \in UnitsOf(x) : v.units[u].alone = Estimate(x, UnitPaths(x, u)) /\ v.units[u].bundle.bytes \in Nat
  BY <1>1, <1>3
<1>5. DOMAIN torrents = DOMAIN view.torrents
  BY DEF torrents
<1> QED BY <1>1, <1>2, <1>4, <1>5 DEF ViewFollows, v

\* What a walk finds: entries under the roots, no link an inode does not have.
LEMMA ScanIsOK ==
  ASSUME DiskOK, ClaimsOK(live), ExclusiveClaims(live), NEW T
  PROVE  TopologyOK(Scan(T))
<1> DEFINE x == Scan(T)
<1>1. /\ x.inode = Walked /\ x.media = live.media /\ x.torrents \subseteq live.torrents
      /\ x.links = [i \in Range(Walked) |-> LinksOf(disk, i)]
  BY DEF Scan, Found, MediaClaims, TorrentClaims
<1>2. /\ DOMAIN Walked = DOMAIN disk \cap Scanned
      /\ \A p \in DOMAIN Walked : Walked[p] = disk[p]
  BY DEF Walked, Restrict
<1> HIDE DEF x
<1>3. KnownPaths(x) \subseteq Scanned /\ Range(x.inode) \subseteq Inode /\ DOMAIN x.links = Range(x.inode)
  BY <1>1, <1>2 DEF KnownPaths, Range, DiskOK
<1>4. ASSUME NEW i \in DOMAIN x.links
      PROVE  x.links[i] >= Cardinality({p \in KnownPaths(x) : x.inode[p] = i})
  <2> DEFINE all == {p \in DOMAIN disk : disk[p] = i}
             found == {p \in KnownPaths(x) : x.inode[p] = i}
  <2>1. found \subseteq all
    BY <1>1, <1>2 DEF KnownPaths
  <2>2. IsFiniteSet(all)
    BY TopologyAssumption, FS_Subset DEF DiskOK
  <2>3. Cardinality(found) <= Cardinality(all)
    BY <2>1, <2>2, FS_Subset
  <2>4. x.links[i] = Cardinality(all)
    BY <1>1 DEF LinksOf
  <2>5. Cardinality(all) \in Nat /\ Cardinality(found) \in Nat
    BY <2>1, <2>2, FS_Subset, FS_CardinalityType
  <2> QED BY <2>3, <2>4, <2>5
<1>5. ClaimsOK(x) /\ ExclusiveClaims(x)
  BY <1>1 DEF ClaimsOK, ExclusiveClaims
<1> QED BY <1>3, <1>4, <1>5 DEF TopologyOK, x

-----------------------------------------------------------------------------
(* The world and the runner.                                               *)

\* Removing entries and claims leaves fewer of the ones there were.
WorldShrinks ==
  /\ DOMAIN disk' \subseteq DOMAIN disk /\ Range(disk') \subseteq Range(disk)
  /\ live'.media \subseteq live.media /\ live'.torrents \subseteq live.torrents

LEMMA ShrunkIsOK ==
  ASSUME DiskOK, ClaimsOK(live), WorldShrinks
  PROVE  DiskOK' /\ ClaimsOK(live')
BY DEF WorldShrinks, DiskOK, ClaimsOK

LEMMA UnlinkedShrinks ==
  ASSUME NEW S
  PROVE  /\ DOMAIN Unlinked(S) \subseteq DOMAIN disk
         /\ Range(Unlinked(S)) \subseteq Range(disk)
BY DEF Unlinked, Restrict, Range

LEMMA DeletingShrinks ==
  ASSUME OneOwner, NEW k, DeleteFile(k) \/ DeleteTorrent(k) \/ UNCHANGED world
  PROVE  WorldShrinks
<1>1. CASE DeleteFile(k)
  <2>1. /\ live'.media \subseteq live.media /\ live'.torrents = live.torrents
        /\ disk' = Unlinked({r.path : r \in {r \in live.media : r.file = k}})
    BY <1>1 DEF DeleteFile, OneOwner, Claims
  <2> QED BY <2>1, UnlinkedShrinks DEF WorldShrinks
<1>2. CASE DeleteTorrent(k)
  <2>1. /\ live'.torrents \subseteq live.torrents /\ live'.media = live.media
        /\ disk' = Unlinked({r.path : r \in {r \in live.torrents : r.torrent = k}})
    BY <1>2 DEF DeleteTorrent, OneOwner, Claims
  <2> QED BY <2>1, UnlinkedShrinks DEF WorldShrinks
<1>3. CASE UNCHANGED world
  BY <1>3 DEF world, WorldShrinks
<1> QED BY <1>1, <1>2, <1>3

\* The runner goes on with no more paths than it had.
RunnerShrinks ==
  \/ runner'.op = runner.op /\ runner'.paths \subseteq runner.paths
  \/ runner' = Idle

LEMMA RunnerStaysOK ==
  RunnerOK /\ RunnerShrinks => RunnerOK'
BY DEF RunnerOK, RunnerShrinks, Idle

\* Steps of a removal: only the world and the runner change, and the workflow
\* may become due.
LEMMA RemovalStepTyped ==
  ASSUME Safe, Typed,
         WorldShrinks, RunnerShrinks, UNCHANGED <<published, queue>>, due' \in {due, "inventory"}
  PROVE  Typed'
<1>1. DiskOK' /\ ClaimsOK(live')
  BY ShrunkIsOK DEF Typed
<1>2. RunnerOK'
  BY RunnerStaysOK DEF Typed
<1>3. QueueOK' /\ FlagsOK' /\ topology' = topology /\ view' = view
  BY DEF Typed, QueueOK, FlagsOK, published
<1>4. TopologyOK(topology') /\ ViewFollows(topology', view')
  BY <1>3 DEF Typed
<1> QED BY <1>1, <1>2, <1>3, <1>4 DEF Typed

LEMMA ExecuteKeepsTypes ==
  ASSUME Safe, Typed, Execute
  PROVE  Typed'
<1> USE DEF RunnerShrinks
<1>1. ASSUME NEW f \in runner.files, RemoveManagedFile(f)
      PROVE  Typed'
  <2>1. DeleteFile(f) /\ UNCHANGED <<published, queue>> /\ due' = due
    BY <1>1 DEF RemoveManagedFile
  <2>2. RunnerShrinks
    BY <1>1 DEF RemoveManagedFile, Safe, StaysInOrder, RunnerFields
  <2> QED BY <2>1, <2>2, DeletingShrinks, RemovalStepTyped DEF Safe
<1>2. ASSUME NEW t \in runner.torrents, RemoveTorrent(t)
      PROVE  Typed'
  <2>1. DeleteTorrent(t) /\ UNCHANGED <<published, queue>> /\ due' = due
    BY <1>2 DEF RemoveTorrent
  <2>2. RunnerShrinks
    BY <1>2 DEF RemoveTorrent, Safe, StaysInOrder, RunnerFields
  <2> QED BY <2>1, <2>2, DeletingShrinks, RemovalStepTyped DEF Safe
<1>3. ASSUME NEW p \in runner.paths, Unlink(p)
      PROVE  Typed'
  <2>1. WorldShrinks /\ UNCHANGED <<published, queue>> /\ due' = due
    BY <1>3, UnlinkedShrinks DEF Unlink, WorldShrinks
  <2>2. RunnerShrinks
    BY <1>3 DEF Unlink, Safe, StaysInOrder, RunnerFields
  <2> QED BY <2>1, <2>2, RemovalStepTyped
<1>4. CASE Finish
  <2>1. WorldShrinks /\ UNCHANGED <<published, queue>> /\ due' \in {due, "inventory"} /\ RunnerShrinks
    BY <1>4 DEF Finish, WorldShrinks, world
  <2> QED BY <2>1, RemovalStepTyped
<1> QED BY <1>1, <1>2, <1>3, <1>4 DEF Execute

LEMMA OwnerCallFailsKeepsTypes ==
  ASSUME Safe, Typed, OwnerCallFails
  PROVE  Typed'
<1>1. UNCHANGED <<published, queue>> /\ due' = due
  BY DEF OwnerCallFails
<1>2. \E k : DeleteFile(k) \/ DeleteTorrent(k) \/ UNCHANGED world
  BY DEF OwnerCallFails
<1>3. RunnerShrinks
  BY DEF OwnerCallFails, Safe, StaysInOrder, RunnerFields, RunnerShrinks
<1> QED BY <1>1, <1>2, <1>3, DeletingShrinks, RemovalStepTyped DEF Safe

LEMMA BeginKeepsTypes ==
  ASSUME Typed, Begin
  PROVE  Typed'
<1> DEFINE op == Head(queue)
           ops == {o \in Operations : Wanted(o)}
<1>1. queue \in Seq(ops) /\ queue # <<>> /\ queue' = Tail(queue) /\ Len(queue) <= MaxQueue
  BY DEF Begin, Typed, QueueOK
<1>2. Wanted(op) /\ queue' \in Seq(ops) /\ Len(queue') <= MaxQueue
  <2>1. op \in ops /\ Tail(queue) \in Seq(ops) /\ Len(Tail(queue)) = Len(queue) - 1
    <3> HIDE DEF ops
    <3> QED BY <1>1
  <2>2. Len(queue) \in Nat /\ MaxQueue \in Nat
    BY <1>1, ReclaimAssumption
  <2>3. Len(queue) - 1 <= MaxQueue
    BY <1>1, <2>2
  <2> QED BY <1>1, <2>1, <2>3
<1>3. RunnerOK'
  <2>1. CASE Authorized(topology, view, live, op)
    <3>1. runner'.op = op /\ runner'.paths = op.paths
      BY <2>1 DEF Begin
    <3> QED BY <1>2, <3>1 DEF RunnerOK
  <2>2. CASE ~Authorized(topology, view, live, op)
    BY <2>2 DEF Begin, Typed, RunnerOK
  <2> QED BY <2>1, <2>2
<1>4. UNCHANGED <<world, published, due>>
  BY DEF Begin
<1>5. DiskOK' /\ ClaimsOK(live') /\ TopologyOK(topology') /\ ViewFollows(topology', view') /\ FlagsOK'
  BY <1>4 DEF Typed, DiskOK, FlagsOK, world, published
<1>6. QueueOK'
  BY <1>2 DEF QueueOK
<1> QED BY <1>3, <1>5, <1>6 DEF Typed

LEMMA EnvironmentKeepsTypes ==
  ASSUME Safe, Typed, Environment
  PROVE  Typed'
<1>1. Drifts
  BY DEF Environment, Link, Vanish, Adopt, Withhold
<1>2. UNCHANGED <<published, due, queue>> /\ RunnerShrinks
  BY <1>1 DEF Drifts, Safe, StaysInOrder, RunnerFields, RunnerShrinks
<1>3. RunnerOK' /\ QueueOK' /\ FlagsOK' /\ TopologyOK(topology') /\ ViewFollows(topology', view')
  <2>1. RunnerOK'
    BY <1>2, RunnerStaysOK DEF Typed
  <2> QED BY <1>2, <2>1 DEF Typed, QueueOK, FlagsOK, published
<1>4. DiskOK' /\ ClaimsOK(live')
  <2>1. CASE Link
    <3>1. PICK p \in Path \ (DOMAIN disk \cup Claimed(live)), q \in DOMAIN disk :
            disk' = [r \in DOMAIN disk \cup {p} |-> IF r = p THEN disk[q] ELSE disk[r]]
      BY <2>1 DEF Link
    <3>2. DOMAIN disk' = DOMAIN disk \cup {p} /\ \A r \in DOMAIN disk' : disk'[r] \in Range(disk)
      BY <3>1 DEF Range
    <3> QED BY <2>1, <3>2 DEF Link, Typed, DiskOK, Range
  <2>2. CASE Vanish
    <3>1. WorldShrinks
      BY <2>2, UnlinkedShrinks DEF Vanish, WorldShrinks
    <3> QED BY <3>1, ShrunkIsOK DEF Typed
  <2>3. CASE Adopt
    <3>1. PICK p \in (DOMAIN disk \cap Scanned) \ Claimed(live), t \in Torrent :
            live' = [live EXCEPT !.torrents = @ \cup {[torrent |-> t, path |-> p]}]
      BY <2>3 DEF Adopt
    <3>2. live'.media = live.media /\ live'.torrents = live.torrents \cup {[torrent |-> t, path |-> p]}
      BY <3>1 DEF Safe, OneOwner, Claims
    <3>3. [torrent |-> t, path |-> p] \in TorrentRef
      BY <3>1, ReclaimAssumption DEF TorrentRef
    <3> QED BY <2>3, <3>2, <3>3 DEF Adopt, Typed, DiskOK, ClaimsOK
  <2>4. CASE Withhold
    <3>1. live'.media = live.media /\ live'.torrents = live.torrents /\ disk' = disk
      BY <2>4 DEF Withhold, Safe, OneOwner, Claims
    <3> QED BY <3>1 DEF Typed, DiskOK, ClaimsOK
  <2> QED BY <2>1, <2>2, <2>3, <2>4 DEF Environment
<1> QED BY <1>3, <1>4 DEF Typed

-----------------------------------------------------------------------------
(* Publishing.                                                             *)

LEMMA RefreshKeepsTypes ==
  ASSUME Typed, Refresh
  PROVE  Typed'
<1>1. /\ UNCHANGED <<world, topology, queue, runner>> /\ view' = RefreshedView(topology)
      /\ reliable' \in BOOLEAN /\ due' \in {due, "files"}
  BY DEF Refresh
<1>2. ViewFollows(topology', view')
  BY <1>1, RefreshedFollows DEF Typed, TopologyOK
<1>3. DiskOK' /\ ClaimsOK(live') /\ TopologyOK(topology') /\ QueueOK' /\ RunnerOK' /\ FlagsOK'
  BY <1>1 DEF Typed, DiskOK, QueueOK, RunnerOK, FlagsOK, world
<1> QED BY <1>2, <1>3 DEF Typed

LEMMA FilesKeepTypes ==
  ASSUME Safe, Typed, Files
  PROVE  Typed'
<1>1. /\ UNCHANGED <<world, queue, runner>> /\ topology' = Scan(DOMAIN view.torrents)
      /\ view' = ReconciledView(topology') /\ reliable' = TRUE /\ due' \in {due, "none"}
  BY DEF Files
<1>2. TopologyOK(topology')
  BY <1>1, ScanIsOK DEF Safe, OneOwner, Typed
<1>3. ViewFollows(topology', view')
  BY <1>1, <1>2, ReconciledFollows DEF Typed, TopologyOK
<1>4. DiskOK' /\ ClaimsOK(live') /\ QueueOK' /\ RunnerOK' /\ FlagsOK'
  BY <1>1 DEF Typed, DiskOK, QueueOK, RunnerOK, FlagsOK, world
<1> QED BY <1>2, <1>3, <1>4 DEF Typed

-----------------------------------------------------------------------------
(* Planning and confirming.                                                *)

LEMMA NeedIsNat ==
  ASSUME Typed
  PROVE  NeedBytes \in Nat
<1> DEFINE used == UsedBytes
           accounted == Bytes(Range(topology.inode))
           other == IF OtherBytes < Capacity THEN OtherBytes ELSE Capacity
           ours == IF other > used THEN 0 ELSE used - other
           allowed == ((Capacity - other) * Target) \div 100
<1>1. used \in Nat /\ accounted \in Nat
  BY BytesAreNat DEF Typed, DiskOK, TopologyOK, UsedBytes
<1>2. OtherBytes \in Nat
  <2>1. OtherBytes = IF used > accounted THEN used - accounted ELSE 0
    BY DEF OtherBytes
  <2> HIDE DEF used, accounted
  <2> QED BY <1>1, <2>1
<1>3. Capacity \in Nat /\ Target \in Nat
  BY ReclaimAssumption
<1>4. other \in Nat
  BY <1>2, <1>3
<1> HIDE DEF used, other
<1>5. ours \in Nat
  BY <1>1, <1>4
<1>6. allowed \in Int
  <2>1. (Capacity - other) \in Int
    BY <1>3, <1>4
  <2>2. (Capacity - other) * Target \in Int
    BY <1>3, <2>1
  <2> QED BY <2>2
<1>7. NeedBytes = IF ours > allowed THEN ours - allowed ELSE 0
  BY DEF NeedBytes, used, other
<1> HIDE DEF ours, allowed
<1> QED BY <1>5, <1>6, <1>7

\* Whatever the plan is drawn from, it is made of the candidates in order.
LEMMA PlanHolds ==
  ASSUME Typed
  PROVE  LET plan == Plan
             planned == Range(plan)
         IN /\ plan \in [1 .. Cardinality(planned) -> planned] /\ IsFiniteSet(planned)
            /\ planned \subseteq Tiers(view)
            /\ NeedBytes > 0 => planned = Tiers(view) \/ BytesOf(planned) >= NeedBytes
            /\ \A j, k \in DOMAIN plan :
                 /\ j < k
                 /\ plan[j].unit.media = plan[k].unit.media
                 /\ plan[j].unit.season # 0
                 => plan[j].unit.season < plan[k].unit.season
<1>1. ViewOK(view) /\ NeedBytes \in Nat
  BY ViewIsOK, NeedIsNat DEF Typed, TopologyOK
<1>2. CASE NeedBytes = 0
  <2>1. Plan = <<>>
    BY <1>2 DEF Plan
  <2>2. Range(Plan) = {} /\ DOMAIN Plan = {} /\ Plan \in [{} -> {}]
    BY <2>1 DEF Range
  <2>3. IsFiniteSet({}) /\ Cardinality({}) = 0 /\ 1 .. 0 = {}
    BY FS_EmptySet
  <2> DEFINE plan == Plan
  <2> HIDE DEF plan
  <2> QED BY <1>2, <2>2, <2>3
<1>3. CASE NeedBytes # 0
  <2>1. Plan = BuildPlan(view, Footprint, NeedBytes)
    BY <1>3 DEF Plan
  <2> QED BY <1>1, <2>1, PlanIsRight
<1> QED BY <1>2, <1>3

\* A candidate becomes an operation on what is known of it.
LEMMA FormsAreWanted ==
  ASSUME Typed, NEW a \in Tiers(view)
  PROVE  Wanted(FormForAction(a))
<1>1. ViewOK(view) /\ DOMAIN view.torrents \subseteq Torrent
  BY ViewIsOK DEF Typed, TopologyOK, ViewFollows
<1>2. CASE a \in TorrentTier(view)
  <2>1. PICK t \in DOMAIN view.torrents : a.kind = "torrent" /\ a.torrents = {t}
    BY <1>1, <1>2, TorrentCandidate
  <2> QED BY <1>1, <2>1 DEF FormForAction, Operation, Operations, Wanted
<1>3. CASE a \in MediaTier(view)
  <2>1. a.unit \in Unit /\ a = MediaAction(view, a.unit) /\ a.kind # "torrent"
    BY <1>1, <1>3, MediaCandidate DEF ViewOK
  <2>2. a.torrents \subseteq Torrent
    BY <1>1, <2>1 DEF MediaAction, HardlinkedTorrents
  <2>3. a.unit.media \in Media
    BY <2>1, TopologyAssumption DEF Unit
  <2>4. {r.file : r \in UnitRefs(topology, a.unit)} \subseteq STRING
    BY DEF UnitRefs, Typed, TopologyOK, ClaimsOK, MediaRef
  <2> QED BY <2>1, <2>2, <2>3, <2>4 DEF FormForAction, Operation, Operations, Wanted
<1> QED BY <1>2, <1>3 DEF Tiers

LEMMA SubmissionsAreWanted ==
  ASSUME Typed
  PROVE  Submissions \in Seq({op \in Operations : Wanted(op)})
<1> DEFINE ops == {op \in Operations : Wanted(op)}
           plan == Plan
           forms == [k \in DOMAIN plan |-> FormForAction(plan[k])]
           accepted == {k \in DOMAIN plan :
                          /\ ~LeftOut(plan[k])
                          /\ forms[k].kind = "media" => forms[k].files # {}
                          /\ Admitted(topology, view, forms[k])}
           Nth(n) == CHOOSE k \in accepted : Cardinality({j \in accepted : j < k}) = n - 1
           m == Cardinality(accepted)
<1>1. Submissions = [n \in 1 .. m |-> forms[Nth(n)]]
  BY DEF Submissions
<1>2. DOMAIN plan = 1 .. Cardinality(Range(plan)) /\ IsFiniteSet(Range(plan)) /\ Range(plan) \subseteq Tiers(view)
  BY PlanHolds
<1>3. \A k \in DOMAIN plan : forms[k] \in ops
  <2>1. \A k \in DOMAIN plan : plan[k] \in Tiers(view)
    BY <1>2 DEF Range
  <2> HIDE DEF plan
  <2> QED BY <2>1, FormsAreWanted DEF Wanted
<1>4. accepted \subseteq DOMAIN plan
  OBVIOUS
<1> HIDE DEF accepted, plan, forms, ops
<1>5. IsFiniteSet(DOMAIN plan)
  <2>1. 1 \in Int /\ Cardinality(Range(plan)) \in Int
    BY <1>2, FS_CardinalityType
  <2> QED BY <1>2, <2>1, FS_Interval
<1>6. IsFiniteSet(accepted) /\ m \in Nat
  BY <1>4, <1>5, FS_Subset, FS_CardinalityType
<1>7. ASSUME NEW n \in 1 .. m
      PROVE  Nth(n) \in accepted
  <2>1. accepted \subseteq Int
    BY <1>2, <1>4
  <2>2. \A j, k \in accepted : <<j, k>> \in ByPlace(accepted) <=> j < k
    BY OrdersOfPlaces
  <2>3. Orders(ByPlace(accepted), accepted)
    BY <2>1, <2>2 DEF Orders
  <2>4. PICK k \in accepted : PlaceIn(ByPlace(accepted), accepted, k) = n - 1
    BY <1>6, <2>3, EveryPlaceIsTaken
  <2>5. {j \in accepted : j < k} = Below(ByPlace(accepted), accepted, k)
    BY <2>2 DEF Below
  <2> QED BY <2>4, <2>5 DEF PlaceIn
<1> HIDE DEF Nth, m
<1>8. Submissions \in [1 .. m -> ops]
  BY <1>1, <1>3, <1>4, <1>7
<1>9. Submissions \in Seq(ops)
  BY <1>6, <1>8
<1> QED BY <1>9 DEF ops

LEMMA EvaluateKeepsTypes ==
  ASSUME Typed, Evaluate
  PROVE  Typed'
<1> DEFINE ops == {op \in Operations : Wanted(op)}
           forms == Submissions
<1>1. /\ UNCHANGED <<world, published, due, runner>> /\ queue' = queue \o forms
      /\ Len(queue) + Len(forms) <= MaxQueue
  BY DEF Evaluate, CanSubmit
<1>2. forms \in Seq(ops) /\ queue \in Seq(ops)
  BY SubmissionsAreWanted DEF Typed, QueueOK
<1>3. queue' \in Seq(ops) /\ Len(queue') <= MaxQueue
  <2> HIDE DEF ops, forms
  <2>1. queue \o forms \in Seq(ops) /\ Len(queue \o forms) = Len(queue) + Len(forms)
    BY <1>2
  <2> QED BY <1>1, <2>1
<1>4. /\ DiskOK' /\ ClaimsOK(live') /\ TopologyOK(topology') /\ ViewFollows(topology', view')
      /\ RunnerOK' /\ FlagsOK'
  BY <1>1 DEF Typed, DiskOK, RunnerOK, FlagsOK, world, published
<1> QED BY <1>3, <1>4 DEF Typed, QueueOK

LEMMA SubmitKeepsTypes ==
  ASSUME Typed, Submit
  PROVE  Typed'
<1> DEFINE ops == {op \in Operations : Wanted(op)}
<1>1. PICK op \in Forms : queue' = Append(queue, op)
  BY DEF Submit
<1>2. DOMAIN view.torrents \subseteq Torrent /\ KnownPaths(topology) \subseteq Path
  BY ReclaimAssumption DEF Typed, ViewFollows, TopologyOK
<1>3. op \in ops
  <2>1. ASSUME NEW t \in DOMAIN view.torrents, op = Operation("torrent", "none", {}, {t}, {})
        PROVE  op \in ops
    BY <1>2, <2>1 DEF Operation, Operations, Wanted
  <2>2. ASSUME NEW p \in KnownPaths(topology), op = Operation("unmanaged", "none", {}, {}, {p})
        PROVE  op \in ops
    BY <1>2, <2>2 DEF Operation, Operations, Wanted
  <2>3. ASSUME NEW u \in UnitsOf(topology), NEW torrents \in SUBSET DOMAIN view.torrents,
               op = Operation("media", u.media, {r.file : r \in UnitRefs(topology, u)}, torrents, {})
        PROVE  op \in ops
    <3>1. u.media \in Media
      BY TopologyAssumption DEF UnitsOf, Unit
    <3>2. {r.file : r \in UnitRefs(topology, u)} \subseteq STRING
      BY DEF UnitRefs, Typed, TopologyOK, ClaimsOK, MediaRef
    <3>3. torrents \subseteq Torrent
      BY <1>2
    <3> QED BY <2>3, <3>1, <3>2, <3>3 DEF Operation, Operations, Wanted
  <2> QED BY <2>1, <2>2, <2>3 DEF Forms
<1>4. UNCHANGED <<world, published, due, runner>> /\ Len(queue) < MaxQueue
  BY DEF Submit
<1>5. queue \in Seq(ops) /\ MaxQueue \in Nat
  BY ReclaimAssumption DEF Typed, QueueOK
<1>6. queue' \in Seq(ops) /\ Len(queue') <= MaxQueue
  <2> HIDE DEF ops
  <2>1. Append(queue, op) \in Seq(ops) /\ Len(Append(queue, op)) = Len(queue) + 1 /\ Len(queue) \in Nat
    BY <1>3, <1>5
  <2> QED BY <1>1, <1>4, <1>5, <2>1
<1>7. /\ DiskOK' /\ ClaimsOK(live') /\ TopologyOK(topology') /\ ViewFollows(topology', view')
      /\ RunnerOK' /\ FlagsOK'
  BY <1>4 DEF Typed, DiskOK, RunnerOK, FlagsOK, world, published
<1> QED BY <1>6, <1>7 DEF Typed, QueueOK

-----------------------------------------------------------------------------
LEMMA InitIsTyped ==
  Init => Typed
<1> SUFFICES ASSUME Init PROVE Typed
  OBVIOUS
<1>1. PICK l \in Layout : disk = l.disk /\ live = l.live
  BY DEF Init
<1>2. DiskOK /\ ClaimsOK(live)
  BY <1>1, LayoutAssumption DEF DiskOK
<1>3. TopologyOK(topology) /\ Range(topology.inode) = {}
  BY DEF Init, NoTopology, TopologyOK, KnownPaths, Range, ClaimsOK, ExclusiveClaims
<1>4. ViewFollows(topology, view)
  BY <1>2, <1>3, RefreshedFollows DEF Init
<1>5. QueueOK
  BY ReclaimAssumption DEF Init, QueueOK
<1>6. RunnerOK /\ FlagsOK
  BY DEF Init, Idle, NoOperation, Operation, RunnerOK, FlagsOK
<1> QED BY <1>2, <1>3, <1>4, <1>5, <1>6 DEF Typed

LEMMA StepKeepsTypes ==
  ASSUME Safe, Typed, [Next]_vars
  PROVE  Typed'
<1>1. CASE UNCHANGED vars
  BY <1>1 DEF vars, Typed, DiskOK, QueueOK, RunnerOK, FlagsOK
<1> QED
  BY <1>1, RefreshKeepsTypes, FilesKeepTypes, EvaluateKeepsTypes, SubmitKeepsTypes, BeginKeepsTypes,
     ExecuteKeepsTypes, OwnerCallFailsKeepsTypes, EnvironmentKeepsTypes DEF Next

(* The view follows the topology, the topology the disk as it was walked,  *)
(* and every operation what both hold, always.                             *)
THEOREM AlwaysTyped == Spec => [](Safe /\ Typed)
<1>1. Safe /\ Typed /\ [Next]_vars => (Safe /\ Typed)'
  BY StepIsSafe, StepKeepsTypes
<1> QED BY InitIsSafe, InitIsTyped, <1>1, PTL DEF Spec

LEMMA TypedIsTypeOK ==
  Safe /\ Typed => ReclaimTypeOK
<1> SUFFICES ASSUME Safe, Typed PROVE ReclaimTypeOK
  OBVIOUS
<1>1. /\ DOMAIN disk \subseteq Path /\ Range(disk) \subseteq Inode
      /\ ClaimsOK(live) /\ ClaimsOK(topology) /\ KnownPaths(topology) \subseteq Scanned
      /\ \A i \in DOMAIN topology.links :
           topology.links[i] >= Cardinality({p \in KnownPaths(topology) : topology.inode[p] = i})
  BY DEF Typed, DiskOK, TopologyOK
<1>2. {r.torrent : r \in topology.torrents} \subseteq Torrent
  BY <1>1 DEF ClaimsOK, TorrentRef
<1>3. /\ DOMAIN view.units \subseteq Unit /\ DOMAIN view.torrents \subseteq Torrent
      /\ DOMAIN view.units = UnitsOf(topology)
  BY DEF Typed, ViewFollows, UnitsOf
<1>4. \A op : Wanted(op) \/ op = NoOperation => OperationOK(op)
  BY DEF Wanted, Operations, NoOperation, Operation, OperationOK
<1>5. Len(queue) <= MaxQueue /\ \A k \in DOMAIN queue : OperationOK(queue[k])
  BY <1>4 DEF Typed, QueueOK
<1>6. /\ OperationOK(runner.op) /\ runner.paths \subseteq runner.op.paths
      /\ runner.files \subseteq runner.op.files /\ runner.torrents \subseteq runner.op.torrents
  BY <1>4 DEF Typed, RunnerOK, Safe, StaysInOrder
<1> QED BY <1>1, <1>2, <1>3, <1>5, <1>6 DEF ReclaimTypeOK, Typed, FlagsOK

(* Types, link counts, and what the view, the queue and the runner hold.   *)
THEOREM ReclaimTypesOK == Spec => []ReclaimTypeOK
BY AlwaysTyped, TypedIsTypeOK, PTL
=============================================================================
