---------------------------- MODULE RemovalPlan ----------------------------
(***************************************************************************)
(* What a removal will touch (internal/httpui/removal_plan.go,             *)
(* internal/removal): the directory entries an operation must look at, who *)
(* owns them, which are selected, and the bytes their removal frees.       *)
(*                                                                         *)
(* An operation is                                                         *)
(*   kind      "media", "torrent" or "unmanaged"                           *)
(*   media     the movie or series of a media operation                    *)
(*   files     the managed files selected, by key                          *)
(*   torrents  the torrents selected                                       *)
(*   paths     the unmanaged paths selected                                *)
(* x is the published topology, view the published inventory.              *)
(***************************************************************************)
EXTENDS FileTopology

Selected(op, c) ==
  \/ c.owner = "media" /\ c.key \in op.files
  \/ c.owner = "torrent" /\ c.key \in op.torrents
  \/ c.owner = "unmanaged" /\ c.key \in op.paths

Candidate(p, owner, key) == [path |-> p, owner |-> owner, key |-> key]

\* One candidate for each owner of an entry, or one for the entry itself.
Owners(x, p) ==
  LET media == {Candidate(p, "media", r.file) : r \in {r \in x.media : r.path = p}}
      torrents == {Candidate(p, "torrent", r.torrent) : r \in {r \in x.torrents : r.path = p}}
  IN IF p \in Claimed(x) THEN media \cup torrents ELSE {Candidate(p, "unmanaged", p)}

\* Physical identity discovers the siblings: every known entry of every inode
\* the candidates touch, for every owner it has.
PhysicalCandidates(x, initial) ==
  LET touched == {x.inode[c.path] : c \in {c \in initial : c.path \in KnownPaths(x)}}
  IN initial \cup UNION {Owners(x, p) : p \in {p \in KnownPaths(x) : x.inode[p] \in touched}}

TorrentCandidates(x, torrents) ==
  UNION {{Candidate(p, "torrent", t) : p \in TorrentPaths(x, t) \cap KnownPaths(x)} : t \in torrents}

\* The torrents with an entry for an inode of one of the references.
PhysicallyBacking(x, refs) ==
  LET inodes == {x.inode[p] : p \in {r.path : r \in refs} \cap KnownPaths(x)}
  IN {r.torrent : r \in {r \in x.torrents : r.path \in KnownPaths(x) /\ x.inode[r.path] \in inodes}}

\* The torrents a media operation may select: those the media ever had a
\* relationship with, and those that back its files now.
RelatedTorrents(x, view, m) ==
  {t \in DOMAIN view.torrents :
     LET torrent == view.torrents[t] IN
     \/ torrent.status # "unassociated" /\ m \in torrent.items \cup torrent.former
     \/ t \in PhysicallyBacking(x, {r \in x.media : r.media = m})}

MediaCandidates(x, view, op) ==
  LET refs == {r \in x.media : r.media = op.media /\ r.path \in KnownPaths(x)}
  IN PhysicalCandidates(x, {Candidate(r.path, "media", r.file) : r \in refs}
                             \cup TorrentCandidates(x, RelatedTorrents(x, view, op.media)))

UnmanagedCandidates(x, op) ==
  LET siblings == PhysicalCandidates(x, {Candidate(p, "unmanaged", p) : p \in op.paths})
      reached == {c.key : c \in {c \in siblings : c.owner = "torrent"}}
  IN PhysicalCandidates(x, siblings \cup TorrentCandidates(x, reached))

Candidates(x, view, op) ==
  CASE op.kind = "media" -> MediaCandidates(x, view, op)
    [] op.kind = "torrent" -> PhysicalCandidates(x, TorrentCandidates(x, op.torrents))
    [] op.kind = "unmanaged" -> UnmanagedCandidates(x, op)

\* What a media operation may name belongs to that media, what the others name
\* is still published; live are the claims the services answer with.
Authorized(x, view, live, op) ==
  CASE op.kind = "media" ->
         /\ op.files \subseteq {r.file : r \in {r \in x.media : r.media = op.media}}
         /\ op.torrents \subseteq RelatedTorrents(x, view, op.media)
         /\ op.files \cup op.torrents # {}
    [] op.kind = "torrent" -> op.torrents \subseteq DOMAIN view.torrents
    [] op.kind = "unmanaged" ->
         /\ op.paths \subseteq KnownPaths(x) \ Claimed(x)
         /\ op.paths \cap Claimed(live) = {}

\* admitRemoval checks identifiers alone, against what is published.
Admitted(x, view, op) ==
  /\ op.kind # "unmanaged" => op.torrents \subseteq DOMAIN view.torrents
  /\ op.kind = "unmanaged" => op.paths \subseteq KnownPaths(x) \ Claimed(x)

LinksOf(disk, i) == Cardinality({p \in DOMAIN disk : disk[p] = i})

\* Mutant: the links that were found are taken for all the links there are.
FinalLinksFound(disk, op, candidates) ==
  LET found == {c.path : c \in candidates} \cap DOMAIN disk
      chosen == {c.path : c \in {c \in candidates : Selected(op, c)}} \cap DOMAIN disk
  IN {disk[p] : p \in chosen} \ {disk[p] : p \in found \ chosen}

\* removal.Build: by the identities and link counts the entries have now, the
\* inodes that lose their last link when the selected entries go.
FinalLinks(disk, op, candidates) ==
  LET chosen == {c.path : c \in {c \in candidates : Selected(op, c)}} \cap DOMAIN disk
  IN {i \in {disk[p] : p \in chosen} :
        Cardinality({p \in chosen : disk[p] = i}) >= LinksOf(disk, i)}

ReclaimableBytes(disk, op, candidates) == Bytes(FinalLinks(disk, op, candidates))
=============================================================================
