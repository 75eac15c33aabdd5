----------------------------- MODULE CleanupPlan -----------------------------
(***************************************************************************)
(* The cleanup planner (internal/cleanup): which removals bring a device   *)
(* back to its target.  Pure operators on the published view:              *)
(*   units     per unit of the library: alone and bundle, its estimates    *)
(*   torrents  per torrent: status, items, former, linked, seasons,        *)
(*             reclaim, hardlinkKnown, hardlinked                          *)
(*   withheld  the media and torrents that are protected, or whose service *)
(*             does not allow automatic removal                            *)
(*                                                                         *)
(* Values are integers of which only the order matters.  Candidates of     *)
(* equal value keep the order of the published lists; where Go leaves such *)
(* a tie to the iteration order of a map the same order is taken.          *)
(***************************************************************************)
EXTENDS FileTopology, Sequences, Functions

CONSTANTS
  ServiceOf,  \* ServiceOf[m]: name of the media service that owns m
  Value,      \* Value[o]: Retention Value of a unit, Torrent Value of a torrent
  Care,       \* removal.torrentCarePercent
  Position    \* Position[o]: place of a unit or torrent in the published lists

ASSUME PlanAssumption ==
  /\ DOMAIN ServiceOf = Media
  /\ Value \in [Unit \cup Torrent -> Nat]
  /\ Position \in [Unit \cup Torrent -> Nat]
  /\ \A o, p \in Unit : Position[o] = Position[p] => o = p
  /\ \A o, p \in Torrent : Position[o] = Position[p] => o = p
  /\ Care \in Nat
  /\ "none" \notin Media

NoUnit == [media |-> "none", season |-> 0]

\* Media.CurrentHardlinkedTorrents and CurrentHardlinkedTorrentsForSeason, on
\* the torrents that projectTorrentRelations attaches to the media.
HardlinkedTorrents(view, u) ==
  {t \in DOMAIN view.torrents :
     LET torrent == view.torrents[t] IN
     /\ torrent.status = "current"
     /\ u.media \in torrent.items \cap torrent.linked
     /\ u.media \notin Films => u.season \in torrent.seasons}

Bundled(view) == UNION {HardlinkedTorrents(view, u) : u \in DOMAIN view.units}

UnitEstimate(view, u) ==
  IF HardlinkedTorrents(view, u) = {} THEN view.units[u].alone ELSE view.units[u].bundle

\* Mutant: only what holds the media is asked.
RemovableByMedia(view, u) ==
  LET estimate == UnitEstimate(view, u) IN
  u.media \notin view.withheld /\ estimate.known /\ estimate.bytes > 0

\* A unit alone, or with every torrent hardlinked to it.  What is withheld on
\* either side withholds the bundle.
Removable(view, u) ==
  LET torrents == HardlinkedTorrents(view, u)
      estimate == UnitEstimate(view, u)
  IN /\ ({u.media} \cup torrents) \cap view.withheld = {}
     /\ estimate.known /\ estimate.bytes > 0

MediaAction(view, u) ==
  LET torrents == HardlinkedTorrents(view, u) IN
  [kind |-> IF torrents = {} THEN "media" ELSE "bundle",
   unit |-> u, torrents |-> torrents,
   value |-> 50 * (Value[u] + Total(Value, torrents)),
   bytes |-> UnitEstimate(view, u).bytes]

TorrentAction(view, t) ==
  [kind |-> "torrent", unit |-> NoUnit, torrents |-> {t},
   value |-> Care * Value[t], bytes |-> view.torrents[t].reclaim.bytes]

\* A torrent is removed alone unless it backs the library: a current one only
\* when it is proven not to be hardlinked.
RemovableAlone(view, t) ==
  LET torrent == view.torrents[t] IN
  /\ t \notin view.withheld
  /\ torrent.status = "current" =>
       t \notin Bundled(view) /\ torrent.hardlinkKnown /\ ~torrent.hardlinked
  /\ torrent.reclaim.known /\ torrent.reclaim.bytes > 0

MediaTier(view) == {MediaAction(view, u) : u \in {u \in DOMAIN view.units : Removable(view, u)}}

TorrentTier(view) ==
  {TorrentAction(view, t) : t \in {t \in DOMAIN view.torrents : RemovableAlone(view, t)}}

PlaceOf(a) ==
  IF a.kind = "torrent" THEN Position[CHOOSE t \in a.torrents : TRUE] ELSE Position[a.unit]

\* The stable sort by ascending comparable value of torrents, then media.
Earlier(a, b) ==
  \/ a.value < b.value
  \/ a.value = b.value /\ a.kind = "torrent" /\ b.kind # "torrent"
  \/ a.value = b.value /\ (a.kind = "torrent" <=> b.kind = "torrent") /\ PlaceOf(a) < PlaceOf(b)

Rank(actions) ==
  LET Before(a) == Cardinality({b \in actions : Earlier(b, a)})
  IN [k \in 1..Cardinality(actions) |-> CHOOSE a \in actions : Before(a) = k - 1]

BytesOf(actions) == Total([a \in actions |-> a.bytes], actions)

\* The least valuable actions until the target is reached, or all of them.
UpTo(actions, target) ==
  {a \in actions : BytesOf({b \in actions : Earlier(b, a)}) < target}

\* Mutant: every service gives its share and nobody makes up for a shortfall.
FairMediaShareAlone(tier, footprint, target) ==
  LET services == {ServiceOf[a.unit.media] : a \in tier}
      Of(s) == {a \in tier : ServiceOf[a.unit.media] = s}
      total == Total(footprint, services)
  IN IF target = 0 \/ total = 0 THEN {}
     ELSE UNION {UpTo(Of(s), (target * footprint[s]) \div total) : s \in services}

\* Spread what the media must give over the services by their footprint, and
\* make up for what a service lacks from the least valuable of the rest.
FairMediaShare(tier, footprint, target) ==
  LET services == {ServiceOf[a.unit.media] : a \in tier}
      Of(s) == {a \in tier : ServiceOf[a.unit.media] = s}
      total == Total(footprint, services)
      fair == UNION {UpTo(Of(s), (target * footprint[s]) \div total) : s \in services}
  IN CASE target = 0 -> {}
       [] target > 0 /\ total = 0 -> UpTo(tier, target)
       [] OTHER -> fair \cup UpTo(tier \ fair, target - BytesOf(fair))

\* Mutant: seasons go by their values.
KeepOrder(plan) == plan

\* The places one show has in the plan are filled in the order of its seasons.
EnforceSeasonOrder(plan) ==
  LET Show(i) == {j \in DOMAIN plan : plan[j].unit.media = plan[i].unit.media}
      Nth(i) == Cardinality({j \in Show(i) : j < i})
      Before(i, j) == Cardinality({k \in Show(i) : plan[k].unit.season < plan[j].unit.season})
  IN [i \in DOMAIN plan |->
        IF plan[i].unit.season = 0 THEN plan[i]
        ELSE plan[CHOOSE j \in Show(i) : Before(i, j) = Nth(i)]]

\* Build, once the bytes needed are known and the snapshot is reliable.
BuildPlan(view, footprint, need) ==
  LET media == MediaTier(view)
      torrents == TorrentTier(view)
      baseline == UpTo(media \cup torrents, need)
      share == FairMediaShare(media, footprint, BytesOf(baseline \cap media))
  IN EnforceSeasonOrder(Rank((baseline \cap torrents) \cup share))
=============================================================================
