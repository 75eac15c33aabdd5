------------------------------ MODULE MCReclaim ------------------------------
(* A film, a show of two seasons and two torrents on one device.           *)
EXTENDS Reclaim

CONSTANTS A, B  \* the torrents

FilmRef == [media |-> "film", season |-> 0, path |-> "f", file |-> "radarr:1"]
SeasonRef(n, p) == [media |-> "show", season |-> n, path |-> p,
                    file |-> IF n = 1 THEN "sonarr:1" ELSE "sonarr:2"]
Library == {FilmRef, SeasonRef(1, "s1"), SeasonRef(2, "s2")}

Of(t, paths) == {[torrent |-> t, path |-> p] : p \in paths}

Never == [current |-> {}, former |-> {}, superseded |-> FALSE]
For(m) == [Never EXCEPT !.current = {m}]
Replaced(m) == [Never EXCEPT !.former = {m}, !.superseded = TRUE]

World(d, a, b, originA, originB, withheld) ==
  [disk |-> d,
   live |-> [media |-> Library, torrents |-> Of(A, a) \cup Of(B, b),
             origin |-> [t \in Torrent |-> IF t = A THEN originA ELSE originB],
             withheld |-> withheld]]

\* f and a are links of one inode, b is a torrent nobody imported.
Linked(withheld) ==
  World([f |-> 1, a |-> 1, s1 |-> 2, s2 |-> 3, b |-> 4], {"a"}, {"b"}, For("film"), Never, withheld)

\* A season pack linked to both seasons, and a link of the film elsewhere.
Pack(withheld) ==
  World([f |-> 1, o |-> 1, s1 |-> 2, s2 |-> 3, a |-> 2, b |-> 3], {"a", "b"}, {}, For("show"), Never, withheld)

\* The torrents are copies: one current, one of a release since replaced.
Copies(withheld) ==
  World([f |-> 1, s1 |-> 2, s2 |-> 3, a |-> 4, b |-> 2], {"a"}, {}, For("film"), Replaced("show"), withheld)

Worlds == {Linked({}), Linked({A}), Pack({}), Copies({B})}

Sizes == <<1, 3, 3, 5>>
Services == [m \in Media |-> IF m = "film" THEN "radarr" ELSE "sonarr"]
AllOwners == Unit \cup Torrent
Values == [o \in AllOwners |->
             IF o \in Torrent THEN (IF o = A THEN 1 ELSE 2)
             ELSE IF o.media = "film" THEN 3 ELSE 3 - o.season]
Places == [o \in AllOwners |->
             IF o \in Torrent THEN (IF o = A THEN 1 ELSE 2) ELSE o.season]
=============================================================================
