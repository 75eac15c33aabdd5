-------------------------- MODULE ReclaimPlanProofs --------------------------
(***************************************************************************)
(* What a removal plan is worth, and what a removal that follows it frees. *)
(*                                                                         *)
(* The plan: the theorem about Build, on the view that is published.  That *)
(* view follows the topology (module ReclaimProofs), so that the bytes     *)
(* of a candidate and the entries it takes are those of the topology, and  *)
(* the topology has one owner for an entry, so that nothing withheld goes. *)
(*                                                                         *)
(* The removal: an inode whose every entry was chosen loses its last link. *)
(* The invariant follows the entries: each that such an inode still has is *)
(* one the operation will come to.                                         *)
(***************************************************************************)
EXTENDS ReclaimProofs

LEMMA PlanReaches ==
  Safe /\ Typed => PlanReachesTarget
BY PlanHolds DEF PlanReachesTarget, PlannedActions, Candidacies, Tiers

LEMMA SeasonsInOrder ==
  Safe /\ Typed => SeasonsGoInOrder
<1> SUFFICES ASSUME Typed PROVE SeasonsGoInOrder
  OBVIOUS
<1> DEFINE plan == Plan
           n == Cardinality(Range(plan))
<1>1. /\ plan \in [1 .. n -> Range(plan)] /\ IsFiniteSet(Range(plan))
      /\ \A j, k \in DOMAIN plan :
           /\ j < k
           /\ plan[j].unit.media = plan[k].unit.media
           /\ plan[j].unit.season # 0
           => plan[j].unit.season < plan[k].unit.season
  BY PlanHolds
<1>2. n \in Nat
  BY <1>1, FS_CardinalityType
<1>3. Len(plan) = n
  <2> HIDE DEF plan, n
  <2> QED BY <1>1, <1>2
<1> QED BY <1>1, <1>3 DEF SeasonsGoInOrder

\* Outside of bundles a candidate frees what its estimate says.
LEMMA BytesAreCurrent ==
  Safe /\ Typed => UnbundledBytesAreCurrent
<1> SUFFICES ASSUME Typed, NEW a \in Tiers(view), a.kind # "bundle"
             PROVE  a.bytes = Estimate(topology, IF a.kind = "media" THEN UnitPaths(topology, a.unit)
                                       ELSE UNION {TorrentPaths(topology, t) : t \in a.torrents}).bytes
  BY DEF UnbundledBytesAreCurrent, Candidacies, Tiers
<1>1. ViewOK(view)
  BY ViewIsOK DEF Typed, TopologyOK
<1>2. CASE a \in TorrentTier(view)
  <2>1. PICK t \in DOMAIN view.torrents : a = TorrentAction(view, t) /\ a.kind = "torrent" /\ a.torrents = {t}
    BY <1>1, <1>2, TorrentCandidate
  <2>2. a.bytes = Estimate(topology, TorrentPaths(topology, t)).bytes
    BY <2>1 DEF TorrentAction, Typed, ViewFollows
  <2>3. UNION {TorrentPaths(topology, s) : s \in a.torrents} = TorrentPaths(topology, t)
    BY <2>1
  <2> QED BY <2>1, <2>2, <2>3
<1>3. CASE a \in MediaTier(view)
  <2>1. a.unit \in DOMAIN view.units /\ a = MediaAction(view, a.unit)
    BY <1>1, <1>3, MediaCandidate
  <2>2. a.kind = "media" /\ HardlinkedTorrents(view, a.unit) = {}
    BY <2>1 DEF MediaAction
  <2>3. a.bytes = view.units[a.unit].alone.bytes
    BY <2>1, <2>2 DEF MediaAction, UnitEstimate
  <2> QED BY <2>1, <2>2, <2>3 DEF Typed, ViewFollows
<1> QED BY <1>2, <1>3 DEF Tiers

\* What a candidate takes belongs to nothing that is withheld.
LEMMA NothingWithheldGoes ==
  Safe /\ Typed => WithheldKeepsItsData
<1> SUFFICES ASSUME Typed, NEW o \in view.withheld
             PROVE  Doomed \cap (MediaPaths(topology, o) \cup TorrentPaths(topology, o)) = {}
  BY DEF WithheldKeepsItsData
<1>1. ViewOK(view) /\ ExclusiveClaims(topology)
  BY ViewIsOK DEF Typed, TopologyOK
<1>2. PlannedActions \subseteq Tiers(view)
  BY PlanHolds DEF PlannedActions
<1>3. ASSUME NEW a \in Tiers(view)
      PROVE  /\ \A r \in UnitRefs(topology, a.unit) : r.media # o
             /\ o \notin a.torrents
  <2>1. CASE a \in TorrentTier(view)
    <3>1. PICK t \in DOMAIN view.torrents : RemovableAlone(view, t) /\ a.torrents = {t} /\ a.unit = NoUnit
      BY <1>1, <2>1, TorrentCandidate
    <3>2. \A r \in UnitRefs(topology, a.unit) : FALSE
      BY <3>1, PlanAssumption DEF NoUnit, UnitRefs, Typed, TopologyOK, ClaimsOK, MediaRef
    <3> QED BY <3>1, <3>2 DEF RemovableAlone
  <2>2. CASE a \in MediaTier(view)
    <3>1. a = MediaAction(view, a.unit) /\ Removable(view, a.unit)
      BY <1>1, <2>2, MediaCandidate
    <3>2. a.torrents = HardlinkedTorrents(view, a.unit)
      BY <3>1 DEF MediaAction
    <3>3. o # a.unit.media /\ o \notin a.torrents
      BY <3>1, <3>2 DEF Removable
    <3> QED BY <3>3 DEF UnitRefs
  <2> QED BY <2>1, <2>2 DEF Tiers
<1>4. ASSUME NEW p \in Doomed
      PROVE  p \notin MediaPaths(topology, o) /\ p \notin TorrentPaths(topology, o)
  <2>1. PICK a \in Tiers(view) :
          p \in UnitPaths(topology, a.unit) \cup UNION {TorrentPaths(topology, t) : t \in a.torrents}
    BY <1>2 DEF Doomed
  <2>2. CASE p \in UnitPaths(topology, a.unit)
    <3>1. PICK r \in UnitRefs(topology, a.unit) : r.path = p
      BY <2>2 DEF UnitPaths
    <3>2. r \in topology.media /\ r.media # o
      BY <1>3, <3>1 DEF UnitRefs
    <3> QED BY <1>1, <3>1, <3>2 DEF ExclusiveClaims, MediaPaths, TorrentPaths
  <2>3. CASE \E t \in a.torrents : p \in TorrentPaths(topology, t)
    <3>1. PICK r \in topology.torrents : r.path = p /\ r.torrent \in a.torrents
      BY <2>3 DEF TorrentPaths
    <3>2. r.torrent # o
      BY <1>3, <3>1
    <3> QED BY <1>1, <3>1, <3>2 DEF ExclusiveClaims, MediaPaths, TorrentPaths
  <2> QED BY <2>1, <2>2, <2>3
<1> QED BY <1>4

(* The plan reaches the target or takes every candidate there is.          *)
THEOREM TargetIsReached == Spec => []PlanReachesTarget
BY AlwaysTyped, PlanReaches, PTL

(* Of two seasons of a show in one plan the earlier goes first, and the    *)
(* plan has lost no action by it.                                          *)
THEOREM EarlierSeasonsGoFirst == Spec => []SeasonsGoInOrder
BY AlwaysTyped, SeasonsInOrder, PTL

(* Outside of bundles, an action promises what its removal frees on the    *)
(* topology that is published.                                             *)
THEOREM EstimatesAreCurrent == Spec => []UnbundledBytesAreCurrent
BY AlwaysTyped, BytesAreCurrent, PTL

(* No automatic removal takes an entry of what is withheld.                *)
THEOREM WithheldIsKept == Spec => []WithheldKeepsItsData
BY AlwaysTyped, NothingWithheldGoes, PTL

-----------------------------------------------------------------------------
(* What an operation looks at.                                             *)

\* A candidate is a claim of its owner, or the entry itself.
Backed(x, c) ==
  /\ c.owner = "media" => \E r \in x.media : r.path = c.path /\ r.file = c.key
  /\ c.owner = "torrent" => \E r \in x.torrents : r.path = c.path /\ r.torrent = c.key
  /\ c.owner = "unmanaged" => c.key = c.path

LEMMA PhysicalAreBacked ==
  ASSUME NEW x, NEW initial, \A c \in initial : Backed(x, c),
         NEW c \in PhysicalCandidates(x, initial)
  PROVE  Backed(x, c)
<1>1. ASSUME NEW p, c \in Owners(x, p)
      PROVE  Backed(x, c)
  <2>1. CASE \E r \in x.media : r.path = p /\ c = Candidate(p, "media", r.file)
    BY <2>1 DEF Candidate, Backed
  <2>2. CASE \E r \in x.torrents : r.path = p /\ c = Candidate(p, "torrent", r.torrent)
    BY <2>2 DEF Candidate, Backed
  <2>3. CASE c = Candidate(p, "unmanaged", p)
    BY <2>3 DEF Candidate, Backed
  <2> QED BY <1>1, <2>1, <2>2, <2>3 DEF Owners
<1>2. c \in initial \/ \E p : c \in Owners(x, p)
  BY DEF PhysicalCandidates
<1> QED BY <1>1, <1>2

LEMMA TorrentCandidatesAreBacked ==
  ASSUME NEW x, NEW torrents, NEW c \in TorrentCandidates(x, torrents)
  PROVE  Backed(x, c)
<1>1. PICK t \in torrents : \E p \in TorrentPaths(x, t) : c = Candidate(p, "torrent", t)
  BY DEF TorrentCandidates
<1> QED BY <1>1 DEF TorrentPaths, Candidate, Backed

LEMMA CandidatesAreBacked ==
  ASSUME NEW x, NEW v, NEW op, op.kind \in {"media", "torrent", "unmanaged"},
         NEW c \in Candidates(x, v, op)
  PROVE  Backed(x, c)
<1>1. CASE op.kind = "media"
  <2> DEFINE refs == {r \in x.media : r.media = op.media /\ r.path \in KnownPaths(x)}
             ours == {Candidate(r.path, "media", r.file) : r \in refs}
             theirs == TorrentCandidates(x, RelatedTorrents(x, v, op.media))
  <2>1. \A d \in ours : Backed(x, d)
    BY DEF Candidate, Backed
  <2>2. c \in PhysicalCandidates(x, ours \cup theirs)
    BY <1>1 DEF Candidates, MediaCandidates
  <2> HIDE DEF ours, theirs
  <2>3. \A d \in theirs : Backed(x, d)
    BY TorrentCandidatesAreBacked DEF theirs
  <2> QED BY <2>1, <2>2, <2>3, PhysicalAreBacked
<1>2. CASE op.kind = "torrent"
  <2>1. c \in PhysicalCandidates(x, TorrentCandidates(x, op.torrents))
    BY <1>2 DEF Candidates
  <2> QED BY <2>1, TorrentCandidatesAreBacked, PhysicalAreBacked
<1>3. CASE op.kind = "unmanaged"
  <2> DEFINE named == {Candidate(p, "unmanaged", p) : p \in op.paths}
             siblings == PhysicalCandidates(x, named)
             reached == {d.key : d \in {d \in siblings : d.owner = "torrent"}}
             theirs == TorrentCandidates(x, reached)
  <2>1. \A d \in named : Backed(x, d)
    BY DEF Candidate, Backed
  <2>2. c \in PhysicalCandidates(x, siblings \cup theirs)
    BY <1>3 DEF Candidates, UnmanagedCandidates
  <2> HIDE DEF named, reached
  <2>3. \A d \in siblings : Backed(x, d)
    BY <2>1, PhysicalAreBacked
  <2>4. \A d \in theirs : Backed(x, d)
    BY TorrentCandidatesAreBacked
  <2> HIDE DEF siblings, theirs
  <2> QED BY <2>2, <2>3, <2>4, PhysicalAreBacked
<1> QED BY <1>1, <1>2, <1>3

\* An inode whose last link goes has no entry that was not chosen.
LEMMA FinalLinksAreChosen ==
  ASSUME DiskOK, NEW op, NEW C, NEW p \in DOMAIN disk, disk[p] \in FinalLinks(disk, op, C)
  PROVE  \E c \in C : Selected(op, c) /\ c.path = p
<1> DEFINE chosen == {c.path : c \in {c \in C : Selected(op, c)}} \cap DOMAIN disk
           i == disk[p]
           mine == {q \in chosen : disk[q] = i}
           all == {q \in DOMAIN disk : disk[q] = i}
<1>1. Cardinality(mine) >= Cardinality(all)
  BY DEF FinalLinks, LinksOf
<1>2. mine \subseteq all
  OBVIOUS
<1>3. IsFiniteSet(all)
  BY TopologyAssumption, FS_Subset DEF DiskOK
<1> HIDE DEF mine, all
<1>4. mine = all
  <2>1. Cardinality(mine) <= Cardinality(all) /\ IsFiniteSet(mine)
        /\ (Cardinality(mine) = Cardinality(all) => mine = all)
    BY <1>2, <1>3, FS_Subset
  <2>2. Cardinality(mine) \in Nat /\ Cardinality(all) \in Nat
    BY <1>3, <2>1, FS_CardinalityType
  <2> QED BY <1>1, <2>1, <2>2
<1>5. p \in mine
  BY <1>4 DEF all
<1> QED BY <1>5 DEF mine

-----------------------------------------------------------------------------
(* Keeping the promise.                                                    *)

\* The operation will come to the entry, and remove it when it does.
Pending(p) ==
  \/ \E r \in live.media : r.path = p /\ r.file \in runner.files
  \/ \E r \in live.torrents : r.path = p /\ r.torrent \in runner.torrents
  \/ /\ p \in runner.paths \ Claimed(live)
     /\ p \in DOMAIN runner.confirmed /\ disk[p] = runner.confirmed[p]

Undisturbed == runner.running /\ runner.undisturbed /\ ~runner.failed

Follows(began, final) ==
  /\ runner.before = Bytes(began) /\ runner.promised = Bytes(final)
  /\ Range(disk) \subseteq began
  /\ \A p \in DOMAIN disk : disk[p] \in final => Pending(p)

\* What was on the device when the operation began, and what it is to free.
PromiseStands ==
  Undisturbed => \E began \in SUBSET Inode : \E final \in SUBSET began : Follows(began, final)

\* With nothing left to do, what was to go is gone.
LEMMA PromiseIsKept ==
  DiskOK /\ PromiseStands => FreesWhatItPromised
<1> SUFFICES ASSUME DiskOK, PromiseStands, Undisturbed,
                    runner.files \cup runner.torrents \cup runner.paths = {}
             PROVE  runner.before - UsedBytes >= runner.promised
  BY DEF FreesWhatItPromised, Undisturbed
<1>1. PICK began \in SUBSET Inode : \E final \in SUBSET began : Follows(began, final)
  BY DEF PromiseStands
<1>2. PICK final \in SUBSET began : Follows(began, final)
  BY <1>1
<1>3. Range(disk) \subseteq began \ final
  BY <1>2 DEF Follows, Pending, Range
<1> DEFINE kept == Total(SizeOf, began \ final)
           freed == Total(SizeOf, final)
           used == Total(SizeOf, Range(disk))
<1>4. Weighs(SizeOf, began) /\ Weighs(SizeOf, began \ final)
  BY BytesAreNat
<1>5. freed \in Nat /\ kept \in Nat /\ Total(SizeOf, began) = freed + kept
  BY <1>4, TotalOfRest
<1>6. used <= kept
  BY <1>3, <1>4, TotalGrows
<1>7. used \in Nat
  BY BytesAreNat DEF DiskOK, Bytes
<1>8. runner.before = freed + kept /\ runner.promised = freed /\ UsedBytes = used
  BY <1>2, <1>5 DEF Follows, Bytes, UsedBytes
<1> HIDE DEF kept, freed, used
<1> QED BY <1>5, <1>6, <1>7, <1>8

LEMMA BeginPromises ==
  ASSUME Safe, Typed, Begin, Authorized(topology, view, live, Head(queue))
  PROVE  PromiseStands'
<1> DEFINE op == Head(queue)
           C == Candidates(topology, view, op)
           final == FinalLinks(disk, op, C)
<1>1. /\ runner' = [running |-> TRUE, op |-> op,
                    files |-> op.files, torrents |-> op.torrents, paths |-> op.paths,
                    confirmed |-> Restrict(disk, op.paths \cap DOMAIN disk),
                    promised |-> ReclaimableBytes(disk, op, C),
                    before |-> UsedBytes,
                    mutated |-> FALSE, failed |-> FALSE, undisturbed |-> ClaimsStand]
      /\ disk' = disk /\ live' = live
  BY DEF Begin, world
<1>2. Wanted(op)
  <2>1. queue \in Seq({o \in Operations : Wanted(o)}) /\ queue # <<>>
    BY DEF Begin, Typed, QueueOK
  <2> DEFINE ops == {o \in Operations : Wanted(o)}
  <2>2. op \in ops
    <3> HIDE DEF ops
    <3>1. queue \in Seq(ops) /\ queue # <<>>
      BY <2>1 DEF ops
    <3> QED BY <3>1
  <2> QED BY <2>2
<1>3. ASSUME ClaimsStand, NEW p \in DOMAIN disk, disk[p] \in final
      PROVE  Pending(p)'
  <2>1. DiskOK
    BY DEF Typed
  <2>2. PICK c \in C : Selected(op, c) /\ c.path = p
    BY <1>3, <2>1, FinalLinksAreChosen
  <2>3. Backed(topology, c)
    BY <1>2, CandidatesAreBacked DEF Wanted, Operations
  <2>4. CASE c.owner = "media" /\ c.key \in op.files
    <3>1. PICK r \in topology.media : r.path = p /\ r.file \in op.files
      BY <2>2, <2>3, <2>4 DEF Backed
    <3>2. r \in live.media
      BY <1>3, <3>1 DEF ClaimsStand
    <3> QED BY <1>1, <3>1, <3>2 DEF Pending
  <2>5. CASE c.owner = "torrent" /\ c.key \in op.torrents
    <3>1. PICK r \in topology.torrents : r.path = p /\ r.torrent \in op.torrents
      BY <2>2, <2>3, <2>5 DEF Backed
    <3>2. r \in live.torrents
      BY <1>3, <3>1 DEF ClaimsStand
    <3> QED BY <1>1, <3>1, <3>2 DEF Pending
  <2>6. CASE c.owner = "unmanaged" /\ c.key \in op.paths
    <3>1. p \in op.paths
      BY <2>2, <2>3, <2>6 DEF Backed
    <3>2. op.kind = "unmanaged"
      BY <1>2, <3>1 DEF Wanted
    <3>3. p \notin Claimed(live)
      BY <3>1, <3>2 DEF Authorized
    <3>4. p \in DOMAIN runner'.confirmed /\ runner'.confirmed[p] = disk[p]
      BY <1>1, <1>3, <3>1 DEF Restrict
    <3>5. p \in runner'.paths \ Claimed(live')
      BY <1>1, <3>1, <3>3
    <3> QED BY <1>1, <3>4, <3>5 DEF Pending
  <2> QED BY <2>2, <2>4, <2>5, <2>6 DEF Selected
<1>4. final \subseteq Range(disk) /\ Range(disk) \subseteq Inode
  BY DEF FinalLinks, Range, Typed, DiskOK
<1>5. PICK began \in SUBSET Inode : began = Range(disk)
  BY <1>4
<1>6. PICK freed \in SUBSET began : freed = final
  BY <1>4, <1>5
<1>7. ASSUME Undisturbed'
      PROVE  Follows(began, freed)'
  <2>1. ClaimsStand
    BY <1>1, <1>7 DEF Undisturbed
  <2>2. runner'.before = Bytes(began) /\ runner'.promised = Bytes(freed)
    BY <1>1, <1>5, <1>6 DEF UsedBytes, ReclaimableBytes
  <2> HIDE DEF final
  <2>3. \A p \in DOMAIN disk' : disk'[p] \in freed => Pending(p)'
    BY <1>1, <1>3, <1>6, <2>1
  <2> QED BY <1>1, <1>5, <2>2, <2>3 DEF Follows
<1> QED BY <1>7 DEF PromiseStands

\* Entries only go, and one that stays is still to be come to.
LEMMA PromiseIsFollowed ==
  ASSUME PromiseStands,
         Undisturbed' =>
           /\ Undisturbed /\ runner'.before = runner.before /\ runner'.promised = runner.promised
           /\ \A p \in DOMAIN disk' : p \in DOMAIN disk /\ disk'[p] = disk[p] /\ (Pending(p) => Pending(p)')
  PROVE  PromiseStands'
<1> SUFFICES ASSUME Undisturbed'
             PROVE  \E began \in SUBSET Inode : \E final \in SUBSET began : Follows(began, final)'
  BY DEF PromiseStands
<1>1. PICK began \in SUBSET Inode : \E final \in SUBSET began : Follows(began, final)
  BY DEF PromiseStands
<1>2. PICK final \in SUBSET began : Follows(began, final)
  BY <1>1
<1>3. Follows(began, final)'
  <2>1. Range(disk') \subseteq Range(disk)
    BY DEF Range
  <2> QED BY <1>2, <2>1 DEF Follows
<1> QED BY <1>3

\* What the deletion of a file or torrent leaves of the world.
LEMMA LeftByFile ==
  ASSUME OneOwner, NEW f, DeleteFile(f)
  PROVE  /\ \A p \in DOMAIN disk' :
              /\ p \in DOMAIN disk /\ disk'[p] = disk[p]
              /\ \A r \in live.media : r.path = p => r.file # f /\ r \in live'.media
         /\ live'.torrents = live.torrents /\ Claimed(live') \subseteq Claimed(live)
<1> DEFINE refs == {r \in live.media : r.file = f}
<1>1. disk' = Restrict(disk, DOMAIN disk \ {r.path : r \in refs})
  BY DEF DeleteFile, Unlinked
<1>2. live'.media = live.media \ refs /\ live'.torrents = live.torrents
  BY DEF DeleteFile, OneOwner, Claims
<1>3. \A p \in DOMAIN disk' : p \in DOMAIN disk /\ disk'[p] = disk[p] /\ \A r \in refs : r.path # p
  BY <1>1 DEF Restrict
<1> QED BY <1>2, <1>3 DEF Claimed

LEMMA LeftByTorrent ==
  ASSUME OneOwner, NEW t, DeleteTorrent(t)
  PROVE  /\ \A p \in DOMAIN disk' :
              /\ p \in DOMAIN disk /\ disk'[p] = disk[p]
              /\ \A r \in live.torrents : r.path = p => r.torrent # t /\ r \in live'.torrents
         /\ live'.media = live.media /\ Claimed(live') \subseteq Claimed(live)
<1> DEFINE refs == {r \in live.torrents : r.torrent = t}
<1>1. disk' = Restrict(disk, DOMAIN disk \ {r.path : r \in refs})
  BY DEF DeleteTorrent, Unlinked
<1>2. live'.torrents = live.torrents \ refs /\ live'.media = live.media
  BY DEF DeleteTorrent, OneOwner, Claims
<1>3. \A p \in DOMAIN disk' : p \in DOMAIN disk /\ disk'[p] = disk[p] /\ \A r \in refs : r.path # p
  BY <1>1 DEF Restrict
<1> QED BY <1>2, <1>3 DEF Claimed

LEMMA ExecuteFollows ==
  ASSUME Safe, PromiseStands, Execute
  PROVE  PromiseStands'
<1>1. DOMAIN runner = RunnerFields /\ OneOwner
  BY DEF Safe, StaysInOrder
<1>2. ASSUME NEW f \in runner.files, RemoveManagedFile(f)
      PROVE  PromiseStands'
  <2>1. /\ DeleteFile(f) /\ runner'.files = runner.files \ {f}
        /\ runner'.torrents = runner.torrents /\ runner'.paths = runner.paths
        /\ runner'.running = runner.running /\ runner'.undisturbed = runner.undisturbed
        /\ runner'.before = runner.before /\ runner'.promised = runner.promised
        /\ runner'.confirmed = runner.confirmed
        /\ ~runner'.failed => ~runner.failed
    BY <1>1, <1>2 DEF RemoveManagedFile, RunnerFields
  <2>2. \A p \in DOMAIN disk' : p \in DOMAIN disk /\ disk'[p] = disk[p] /\ (Pending(p) => Pending(p)')
    BY <1>1, <2>1, LeftByFile DEF Pending
  <2> QED BY <2>1, <2>2, PromiseIsFollowed DEF Undisturbed
<1>3. ASSUME NEW t \in runner.torrents, RemoveTorrent(t)
      PROVE  PromiseStands'
  <2>1. /\ DeleteTorrent(t) /\ runner'.files = runner.files
        /\ runner'.torrents = runner.torrents \ {t} /\ runner'.paths = runner.paths
        /\ runner'.running = runner.running /\ runner'.undisturbed = runner.undisturbed
        /\ runner'.before = runner.before /\ runner'.promised = runner.promised
        /\ runner'.confirmed = runner.confirmed
        /\ ~runner'.failed => ~runner.failed
    BY <1>1, <1>3 DEF RemoveTorrent, RunnerFields
  <2>2. \A p \in DOMAIN disk' : p \in DOMAIN disk /\ disk'[p] = disk[p] /\ (Pending(p) => Pending(p)')
    BY <1>1, <2>1, LeftByTorrent DEF Pending
  <2> QED BY <2>1, <2>2, PromiseIsFollowed DEF Undisturbed
<1>4. ASSUME NEW q \in runner.paths, Unlink(q)
      PROVE  PromiseStands'
  <2>1. /\ disk' = IF Verified(q) THEN Unlinked({q}) ELSE disk
        /\ live' = live /\ runner'.files = runner.files
        /\ runner'.torrents = runner.torrents /\ runner'.paths = runner.paths \ {q}
        /\ runner'.running = runner.running /\ runner'.undisturbed = runner.undisturbed
        /\ runner'.before = runner.before /\ runner'.promised = runner.promised
        /\ runner'.confirmed = runner.confirmed
        /\ ~runner'.failed => ~runner.failed
    BY <1>1, <1>4 DEF Unlink, RunnerFields
  <2>2. \A p \in DOMAIN disk' : p \in DOMAIN disk /\ disk'[p] = disk[p] /\ (Verified(q) => p # q)
    BY <2>1 DEF Unlinked, Restrict
  <2>3. runner.files = {} /\ runner.torrents = {}
    BY <1>4 DEF Unlink
  <2>4. q \in DOMAIN disk /\ Pending(q) => Verified(q)
    BY <2>3 DEF Pending, Claimed, Verified, VerifyUnmanaged, VerifyPathsUnmanaged, ClaimedFiles
  <2>5. \A p \in DOMAIN disk' : p \in DOMAIN disk /\ disk'[p] = disk[p] /\ (Pending(p) => Pending(p)')
    BY <2>1, <2>2, <2>3, <2>4 DEF Pending
  <2> QED BY <2>1, <2>5, PromiseIsFollowed DEF Undisturbed
<1>5. CASE Finish
  BY <1>5 DEF Finish, Idle, PromiseStands, Undisturbed
<1> QED BY <1>2, <1>3, <1>4, <1>5 DEF Execute

\* Steps of others either leave the world and the runner, or disturb it.
LEMMA OthersFollow ==
  ASSUME Safe, PromiseStands,
         Refresh \/ Files \/ Evaluate \/ Submit \/ OwnerCallFails \/ Environment \/ UNCHANGED vars
  PROVE  PromiseStands'
<1>1. CASE UNCHANGED <<disk, live, runner>>
  BY <1>1, PromiseIsFollowed DEF Undisturbed, Pending
<1>2. CASE OwnerCallFails
  <2>1. runner'.failed
    BY <1>2 DEF OwnerCallFails, Safe, StaysInOrder, RunnerFields
  <2> QED BY <2>1 DEF PromiseStands, Undisturbed
<1>3. CASE Environment
  <2>1. Drifts
    BY <1>3 DEF Environment, Link, Vanish, Adopt, Withhold
  <2>2. ~Undisturbed'
    BY <2>1 DEF Drifts, Undisturbed, Safe, StaysInOrder, RunnerFields
  <2> QED BY <2>2 DEF PromiseStands
<1>4. CASE Refresh \/ Files \/ Evaluate \/ Submit \/ UNCHANGED vars
  <2>1. UNCHANGED <<disk, live, runner>>
    BY <1>4 DEF Refresh, Files, Evaluate, Submit, vars, world
  <2> QED BY <1>1, <2>1
<1> QED BY <1>2, <1>3, <1>4

LEMMA StepKeepsPromise ==
  ASSUME Safe, Typed, PromiseStands, [Next]_vars
  PROVE  PromiseStands'
<1>1. CASE Begin
  <2>1. CASE Authorized(topology, view, live, Head(queue))
    BY <1>1, <2>1, BeginPromises
  <2>2. CASE ~Authorized(topology, view, live, Head(queue))
    <3>1. UNCHANGED <<disk, live, runner>>
      BY <1>1, <2>2 DEF Begin, world
    <3> QED BY <3>1, PromiseIsFollowed DEF Undisturbed, Pending
  <2> QED BY <2>1, <2>2
<1> QED BY <1>1, ExecuteFollows, OthersFollow DEF Next

(* An operation that nothing disturbed and that saw no error frees at      *)
(* least what its plan recorded, however its calls were interleaved with   *)
(* refreshes, confirmations and new plans.                                 *)
THEOREM PromisesAreKept == Spec => []FreesWhatItPromised
<1>1. Init => PromiseStands
  BY DEF Init, Idle, PromiseStands, Undisturbed
<1>2. Safe /\ Typed /\ PromiseStands /\ [Next]_vars => PromiseStands'
  BY StepKeepsPromise
<1>3. Safe /\ Typed /\ PromiseStands => FreesWhatItPromised
  BY PromiseIsKept DEF Typed
<1> QED BY AlwaysTyped, <1>1, <1>2, <1>3, PTL DEF Spec
=============================================================================
