---------------------------- MODULE FileTopology ----------------------------
(***************************************************************************)
(* The physical file index (internal/filetopology): which paths are links  *)
(* of one inode, who claims them, and what unlinking a set of paths frees. *)
(*                                                                         *)
(* A topology is what one file reconciliation has published:               *)
(*   inode     the inode of every path that was found on disk              *)
(*   links     the link count of every inode                               *)
(*   media     the MediaFileRefs: [media, season, path, file]              *)
(*   torrents  the TorrentFileRefs: [torrent, path]                        *)
(* A claim may name a path that was not found.  Every path that was found  *)
(* has a known identity, as on any Linux filesystem.  All paths are on one *)
(* device.                                                                 *)
(***************************************************************************)
EXTENDS Integers, FiniteSets

CONSTANTS
  Path,     \* directory entries that may exist
  Inode,    \* physical files
  Media,    \* movies and series known to the media services
  Torrent,  \* torrents, by hash
  Films,    \* the media that are movies
  Seasons,  \* season numbers
  SizeOf    \* SizeOf[i]: bytes of inode i

ASSUME TopologyAssumption ==
  /\ IsFiniteSet(Path) /\ IsFiniteSet(Inode)
  /\ IsFiniteSet(Media) /\ IsFiniteSet(Torrent) /\ IsFiniteSet(Seasons)
  /\ Films \subseteq Media
  /\ Seasons \subseteq Nat \ {0}
  /\ SizeOf \in [Inode -> Nat]

\* A part of the library that is valued and removed as a whole: a movie, or
\* one season of a series.
Unit == [media : Films, season : {0}] \cup [media : Media \ Films, season : Seasons]

KnownPaths(x) == DOMAIN x.inode

\* The sum of the numbers w[x] over S, by counting: w[x] pairs for every x.
Total(w, S) == Cardinality(UNION {{x} \X (1 .. w[x]) : x \in S})

Bytes(inodes) == Total(SizeOf, inodes)

MediaPaths(x, m) == {r.path : r \in {r \in x.media : r.media = m}}

UnitRefs(x, u) == {r \in x.media : r.media = u.media /\ r.season = u.season}

UnitPaths(x, u) == {r.path : r \in UnitRefs(x, u)}

TorrentPaths(x, t) == {r.path : r \in {r \in x.torrents : r.torrent = t}}

Claimed(x) == {r.path : r \in x.media \cup x.torrents}

SamePhysicalPaths(x, p) ==
  IF p \in KnownPaths(x)
  THEN {q \in KnownPaths(x) \ {p} : x.inode[q] = x.inode[p]}
  ELSE {}

\* Two distinct directory entries, one in each set, for one inode.
PathsHardlinked(x, A, B) ==
  \E a \in A \cap KnownPaths(x), b \in B :
    b \in SamePhysicalPaths(x, a) /\ x.links[x.inode[a]] > 1

\* The answer of PathsHardlinked is proven: by a link that was found, or
\* because no path of either set is unknown.
HardlinkKnown(x, A, B) ==
  /\ A # {} /\ B # {}
  /\ PathsHardlinked(x, A, B) \/ A \cup B \subseteq KnownPaths(x)

\* The torrent and the media claim one inode, under one path or two.
TorrentMediaPhysicalMatch(x, t, m) ==
  \E p \in TorrentPaths(x, t) \cap KnownPaths(x) :
    (SamePhysicalPaths(x, p) \cup {p}) \cap MediaPaths(x, m) # {}

\* The inodes every link of which is among the paths.
Unreferenced(x, paths) ==
  {i \in {x.inode[p] : p \in paths \cap KnownPaths(x)} :
     Cardinality({p \in paths \cap KnownPaths(x) : x.inode[p] = i}) >= x.links[i]}

\* What unlinking the paths frees.  An unknown path makes the answer unknown.
Estimate(x, paths) ==
  [known |-> paths # {} /\ paths \subseteq KnownPaths(x),
   bytes |-> Bytes(Unreferenced(x, paths))]
=============================================================================
