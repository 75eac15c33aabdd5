-------------------------- MODULE CleanupPlanProofs --------------------------
(***************************************************************************)
(* What Build promises of a plan, for every inventory, every choice of     *)
(* values and sizes and every footprint: it holds candidates only, each    *)
(* once; it reaches the target or takes all there is; and of two seasons   *)
(* of a show the earlier goes first.                                       *)
(*                                                                         *)
(* It begins with facts about what the planner and the removal plans are   *)
(* built from: sums of sizes, places in an order, and estimates of a       *)
(* topology.  Two facts then carry it.  The candidates are totally ordered by value, so    *)
(* that sorting them is well defined.  And a selection that stops short of *)
(* a candidate has reached what was asked for with those before it.        *)
(***************************************************************************)
EXTENDS CleanupPlan, FiniteSetTheorems, FunctionTheorems, TLAPS

-----------------------------------------------------------------------------
(* Sums.                                                                   *)

\* The pairs Total counts.
Pairs(w, S) == UNION {{x} \X (1 .. w[x]) : x \in S}

Weighs(w, S) == IsFiniteSet(S) /\ \A x \in S : w[x] \in Nat

LEMMA PairsMembers ==
  ASSUME NEW w, NEW S, NEW z
  PROVE  z \in Pairs(w, S) <=> \E x \in S : \E n \in 1 .. w[x] : z = <<x, n>>
BY DEF Pairs

\* A sum over finitely many numbers is a number.
LEMMA TotalIsNat ==
  ASSUME NEW w, NEW S, Weighs(w, S)
  PROVE  IsFiniteSet(Pairs(w, S)) /\ Total(w, S) \in Nat
<1> DEFINE part(x) == {x} \X (1 .. w[x])
           parts == {part(x) : x \in S}
           f == [x \in S |-> part(x)]
<1>1. f \in Surjection(S, parts)
  <2> HIDE DEF part
  <2>1. f \in [S -> parts] /\ \A t \in parts : \E x \in S : f[x] = t
    OBVIOUS
  <2> QED BY <2>1 DEF Surjection
<1>2. IsFiniteSet(parts)
  BY <1>1, FS_Surjection DEF Weighs
<1>3. ASSUME NEW x \in S
      PROVE  IsFiniteSet(part(x))
  <2>1. IsFiniteSet({x})
    BY FS_Singleton
  <2>2. w[x] \in Int /\ 1 \in Int
    BY DEF Weighs
  <2>3. IsFiniteSet(1 .. w[x])
    BY <2>2, FS_Interval
  <2> QED BY <2>1, <2>3, FS_Product
<1>4. IsFiniteSet(UNION parts)
  BY <1>2, <1>3, FS_UNION
<1> QED BY <1>4, FS_CardinalityType DEF Pairs, Total

LEMMA FewerWeigh ==
  ASSUME NEW w, NEW S, Weighs(w, S), NEW T, T \subseteq S
  PROVE  Weighs(w, T)
BY FS_Subset DEF Weighs

\* Sums over disjoint sets add up.
LEMMA TotalAdds ==
  ASSUME NEW w, NEW S, Weighs(w, S), NEW T, Weighs(w, T), S \cap T = {}
  PROVE  Total(w, S \cup T) = Total(w, S) + Total(w, T)
<1>1. Pairs(w, S \cup T) = Pairs(w, S) \cup Pairs(w, T)
  BY DEF Pairs
<1>2. Pairs(w, S) \cap Pairs(w, T) = {}
  BY PairsMembers
<1>3. IsFiniteSet(Pairs(w, S)) /\ IsFiniteSet(Pairs(w, T))
  BY TotalIsNat
<1>4. Cardinality(Pairs(w, S) \cap Pairs(w, T)) = 0
  BY <1>2, FS_EmptySet
<1>5. Cardinality(Pairs(w, S) \cup Pairs(w, T))
        = Cardinality(Pairs(w, S)) + Cardinality(Pairs(w, T)) - 0
  BY <1>3, <1>4, FS_Union
<1>6. /\ Total(w, S) = Cardinality(Pairs(w, S))
      /\ Total(w, T) = Cardinality(Pairs(w, T))
      /\ Total(w, S \cup T) = Cardinality(Pairs(w, S \cup T))
  BY Zenon DEF Pairs, Total
<1>7. Total(w, S) \in Nat /\ Total(w, T) \in Nat
  BY TotalIsNat, SMT
<1>8. Total(w, S \cup T) = Total(w, S) + Total(w, T) - 0
  BY <1>1, <1>5, <1>6, Zenon
<1> QED BY <1>7, <1>8

\* What a part does not account for, the rest does.
LEMMA TotalOfRest ==
  ASSUME NEW w, NEW S, Weighs(w, S), NEW T, T \subseteq S
  PROVE  /\ Total(w, T) \in Nat /\ Total(w, S \ T) \in Nat
         /\ Total(w, S) = Total(w, T) + Total(w, S \ T)
<1>1. Weighs(w, T) /\ Weighs(w, S \ T)
  BY FewerWeigh
<1>2. T \cup (S \ T) = S /\ T \cap (S \ T) = {}
  OBVIOUS
<1>3. Total(w, T \cup (S \ T)) = Total(w, T) + Total(w, S \ T)
  BY <1>1, <1>2, TotalAdds
<1>4. Total(w, T) \in Nat /\ Total(w, S \ T) \in Nat
  BY <1>1, TotalIsNat
<1> QED BY <1>2, <1>3, <1>4

\* More weighs no less.
LEMMA TotalGrows ==
  ASSUME NEW w, NEW S, Weighs(w, S), NEW T, T \subseteq S
  PROVE  Total(w, T) <= Total(w, S)
<1> DEFINE rest == Total(w, S \ T)
<1>1. Total(w, T) \in Nat /\ rest \in Nat /\ Total(w, S) = Total(w, T) + rest
  BY TotalOfRest, SMT
<1> HIDE DEF rest
<1> QED BY <1>1

\* More of what weighs something weighs more.
LEMMA TotalOfAll ==
  ASSUME NEW w, NEW S, Weighs(w, S), NEW T, T \subseteq S
  PROVE  (\A x \in S : w[x] > 0) /\ Total(w, T) >= Total(w, S) => T = S
<1> DEFINE part == Total(w, T)
           rest == Total(w, S \ T)
           all == Total(w, S)
<1>1. all = part + rest /\ part \in Nat /\ rest \in Nat
  BY TotalOfRest, SMT
<1>2. IsFiniteSet(Pairs(w, S \ T)) /\ rest = Cardinality(Pairs(w, S \ T))
  BY FewerWeigh, TotalIsNat DEF Total, Pairs
<1>3. ASSUME NEW x \in S \ T, w[x] > 0
      PROVE  rest # 0
  <2>1. <<x, 1>> \in Pairs(w, S \ T)
    BY <1>3, PairsMembers DEF Weighs
  <2> HIDE DEF rest
  <2> QED BY <1>2, <2>1, FS_EmptySet
<1>4. part >= all => rest = 0
  <2> HIDE DEF part, rest, all
  <2> QED BY <1>1
<1> QED BY <1>3, <1>4

-----------------------------------------------------------------------------
(* Places in an order.                                                     *)

\* The pairs in R order S from first to last.
Orders(R, S) ==
  /\ \A a, b \in S : <<a, b>> \in R => <<b, a>> \notin R
  /\ \A a, b, c \in S : <<a, b>> \in R /\ <<b, c>> \in R => <<a, c>> \in R
  /\ \A a, b \in S : a # b => <<a, b>> \in R \/ <<b, a>> \in R

Below(R, S, a) == {b \in S : <<b, a>> \in R}
PlaceIn(R, S, a) == Cardinality(Below(R, S, a))

LEMMA BelowIsLess ==
  ASSUME NEW S, IsFiniteSet(S), NEW R, Orders(R, S), NEW a \in S
  PROVE  /\ IsFiniteSet(Below(R, S, a)) /\ Below(R, S, a) \subseteq S \ {a}
         /\ PlaceIn(R, S, a) \in 0 .. Cardinality(S) - 1
<1>1. Below(R, S, a) \subseteq S \ {a}
  BY DEF Below, Orders
<1>2. IsFiniteSet(S \ {a}) /\ Cardinality(S \ {a}) = Cardinality(S) - 1
  BY FS_RemoveElement
<1>3. /\ IsFiniteSet(Below(R, S, a))
      /\ Cardinality(Below(R, S, a)) <= Cardinality(S \ {a})
  BY <1>1, <1>2, FS_Subset
<1>4. Cardinality(Below(R, S, a)) \in Nat /\ Cardinality(S) \in Nat
  BY <1>3, FS_CardinalityType
<1> QED BY <1>1, <1>2, <1>3, <1>4 DEF PlaceIn

LEMMA PlacesAscend ==
  ASSUME NEW S, IsFiniteSet(S), NEW R, Orders(R, S),
         NEW a \in S, NEW b \in S, <<a, b>> \in R
  PROVE  PlaceIn(R, S, a) < PlaceIn(R, S, b)
<1>1. Below(R, S, a) \subseteq Below(R, S, b) /\ Below(R, S, a) # Below(R, S, b)
  <2>1. a \in Below(R, S, b) /\ a \notin Below(R, S, a)
    BY DEF Below, Orders
  <2>2. ASSUME NEW c \in Below(R, S, a) PROVE c \in Below(R, S, b)
    BY DEF Below, Orders
  <2> QED BY <2>1, <2>2
<1>2. IsFiniteSet(Below(R, S, b)) /\ IsFiniteSet(Below(R, S, a))
  BY BelowIsLess
<1>3. /\ Cardinality(Below(R, S, a)) <= Cardinality(Below(R, S, b))
      /\ Cardinality(Below(R, S, a)) # Cardinality(Below(R, S, b))
  BY <1>1, <1>2, FS_Subset
<1>4. Cardinality(Below(R, S, a)) \in Nat /\ Cardinality(Below(R, S, b)) \in Nat
  BY <1>2, FS_CardinalityType
<1> QED BY <1>3, <1>4 DEF PlaceIn

\* Every place is taken, by one element.
LEMMA EveryPlaceIsTaken ==
  ASSUME NEW S, IsFiniteSet(S), NEW R, Orders(R, S)
  PROVE  /\ \A n \in 1 .. Cardinality(S) : \E a \in S : PlaceIn(R, S, a) = n - 1
         /\ \A a, b \in S : PlaceIn(R, S, a) = PlaceIn(R, S, b) => a = b
<1> DEFINE places == 0 .. Cardinality(S) - 1
           place == [a \in S |-> PlaceIn(R, S, a)]
<1>1. Cardinality(S) \in Nat
  BY FS_CardinalityType
<1>2. IsFiniteSet(places) /\ Cardinality(places) = Cardinality(S)
  <2>1. 0 \in Int /\ Cardinality(S) - 1 \in Int
    BY <1>1
  <2>2. /\ IsFiniteSet(places)
        /\ Cardinality(places) = IF 0 > Cardinality(S) - 1 THEN 0 ELSE Cardinality(S) - 1 - 0 + 1
    BY <2>1, FS_Interval
  <2> QED BY <1>1, <2>2
<1>3. place \in [S -> places]
  BY BelowIsLess
<1>4. \A a, b \in S : PlaceIn(R, S, a) = PlaceIn(R, S, b) => a = b
  <2> SUFFICES ASSUME NEW a \in S, NEW b \in S, a # b
               PROVE  PlaceIn(R, S, a) # PlaceIn(R, S, b)
    OBVIOUS
  <2>1. <<a, b>> \in R \/ <<b, a>> \in R
    BY DEF Orders
  <2>2. PlaceIn(R, S, a) \in Int /\ PlaceIn(R, S, b) \in Int
    BY BelowIsLess
  <2>3. PlaceIn(R, S, a) < PlaceIn(R, S, b) \/ PlaceIn(R, S, b) < PlaceIn(R, S, a)
    BY <2>1, PlacesAscend
  <2> QED BY <2>2, <2>3
<1>5. place \in Injection(S, places)
  BY <1>3, <1>4, Fun_IsInj
<1>6. place \in Surjection(S, places)
  BY <1>2, <1>5, FS_Injection
<1>7. \A n \in places : \E a \in S : place[a] = n
  BY <1>6 DEF Surjection
<1>8. ASSUME NEW n \in 1 .. Cardinality(S)
      PROVE  \E a \in S : PlaceIn(R, S, a) = n - 1
  <2>1. n - 1 \in places
    BY <1>1
  <2> QED BY <1>7, <2>1
<1> QED BY <1>4, <1>8

-----------------------------------------------------------------------------
(* The view the planner reads.                                             *)

\* What is needed of a published view.
ViewOK(view) ==
  /\ DOMAIN view.units \subseteq Unit /\ DOMAIN view.torrents \subseteq Torrent
  /\ \A u \in DOMAIN view.units :
       view.units[u].alone.bytes \in Nat /\ view.units[u].bundle.bytes \in Nat
  /\ \A t \in DOMAIN view.torrents : view.torrents[t].reclaim.bytes \in Nat

Tiers(view) == MediaTier(view) \cup TorrentTier(view)

Precedence(view) == {p \in Tiers(view) \X Tiers(view) : Earlier(p[1], p[2])}

-----------------------------------------------------------------------------
(* The candidates.                                                         *)

LEMMA UnitIsFinite == IsFiniteSet(Unit)
<1> DEFINE pair(P, Q) == [media : P, season : Q]
<1>1. ASSUME NEW P, IsFiniteSet(P), NEW Q, IsFiniteSet(Q)
      PROVE  IsFiniteSet(pair(P, Q))
  <2> DEFINE f == [z \in P \X Q |-> [media |-> z[1], season |-> z[2]]]
  <2>1. IsFiniteSet(P \X Q)
    BY <1>1, FS_Product
  <2>2. f \in [P \X Q -> pair(P, Q)]
    OBVIOUS
  <2>3. ASSUME NEW r \in pair(P, Q) PROVE \E z \in P \X Q : f[z] = r
    <3>1. <<r.media, r.season>> \in P \X Q /\ f[<<r.media, r.season>>] = r
      OBVIOUS
    <3> QED BY <3>1
  <2>4. f \in Surjection(P \X Q, pair(P, Q))
    BY <2>2, <2>3, Fun_IsSurj
  <2> QED BY <2>1, <2>4, FS_Surjection
<1>2. IsFiniteSet(Films) /\ IsFiniteSet(Media \ Films) /\ IsFiniteSet({0}) /\ IsFiniteSet(Seasons)
  BY TopologyAssumption, FS_Subset, FS_Singleton
<1>3. IsFiniteSet(pair(Films, {0})) /\ IsFiniteSet(pair(Media \ Films, Seasons))
  BY <1>1, <1>2
<1> QED BY <1>3, FS_Union DEF Unit

LEMMA TiersAreFinite ==
  ASSUME NEW view, ViewOK(view)
  PROVE  IsFiniteSet(Tiers(view))
<1> DEFINE units == {u \in DOMAIN view.units : Removable(view, u)}
           torrents == {t \in DOMAIN view.torrents : RemovableAlone(view, t)}
           f == [u \in units |-> MediaAction(view, u)]
           g == [t \in torrents |-> TorrentAction(view, t)]
<1>1. IsFiniteSet(units) /\ IsFiniteSet(torrents)
  BY UnitIsFinite, TopologyAssumption, FS_Subset DEF ViewOK
<1>2. f \in Surjection(units, MediaTier(view))
  <2>1. f \in [units -> MediaTier(view)] /\ \A a \in MediaTier(view) : \E u \in units : f[u] = a
    BY DEF MediaTier
  <2> QED BY <2>1, Fun_IsSurj
<1>3. g \in Surjection(torrents, TorrentTier(view))
  <2>1. g \in [torrents -> TorrentTier(view)] /\ \A a \in TorrentTier(view) : \E t \in torrents : g[t] = a
    BY DEF TorrentTier
  <2> QED BY <2>1, Fun_IsSurj
<1>4. IsFiniteSet(MediaTier(view)) /\ IsFiniteSet(TorrentTier(view))
  BY <1>1, <1>2, <1>3, FS_Surjection
<1> QED BY <1>4, FS_Union DEF Tiers

\* A candidate frees something, has a value, and is told by what it removes.
LEMMA MediaCandidate ==
  ASSUME NEW view, ViewOK(view), NEW a \in MediaTier(view)
  PROVE  /\ a.unit \in DOMAIN view.units /\ a = MediaAction(view, a.unit)
         /\ Removable(view, a.unit)
         /\ a.kind # "torrent" /\ a.value \in Nat /\ a.bytes \in Nat \ {0}
         /\ PlaceOf(a) = Position[a.unit]
<1>1. PICK u \in DOMAIN view.units : Removable(view, u) /\ a = MediaAction(view, u)
  BY DEF MediaTier
<1>2. a.unit = u /\ a.kind \in {"media", "bundle"} /\ a.bytes = UnitEstimate(view, u).bytes
      /\ a.value = 50 * (Value[u] + Total(Value, HardlinkedTorrents(view, u)))
  BY <1>1 DEF MediaAction
<1>3. a.bytes \in Nat \ {0}
  <2>1. UnitEstimate(view, u).bytes \in Nat /\ UnitEstimate(view, u).bytes > 0
    BY <1>1 DEF UnitEstimate, ViewOK, Removable
  <2> QED BY <1>2, <2>1
<1>4. a.value \in Nat
  <2>1. HardlinkedTorrents(view, u) \subseteq Torrent
    BY DEF HardlinkedTorrents, ViewOK
  <2>2. Weighs(Value, HardlinkedTorrents(view, u))
    BY <2>1, TopologyAssumption, PlanAssumption, FS_Subset DEF Weighs
  <2>3. Total(Value, HardlinkedTorrents(view, u)) \in Nat
    BY <2>2, TotalIsNat
  <2>4. Value[u] \in Nat
    BY PlanAssumption DEF ViewOK
  <2>5. 50 * (Value[u] + Total(Value, HardlinkedTorrents(view, u))) \in Nat
    BY <2>3, <2>4
  <2> QED BY <1>2, <2>5
<1> QED BY <1>1, <1>2, <1>3, <1>4 DEF PlaceOf

LEMMA TorrentCandidate ==
  ASSUME NEW view, ViewOK(view), NEW a \in TorrentTier(view)
  PROVE  \E t \in DOMAIN view.torrents :
           /\ a = TorrentAction(view, t) /\ RemovableAlone(view, t)
           /\ a.kind = "torrent" /\ a.unit = NoUnit /\ a.torrents = {t}
           /\ a.value \in Nat /\ a.bytes \in Nat \ {0}
           /\ PlaceOf(a) = Position[t]
<1>1. PICK t \in DOMAIN view.torrents : RemovableAlone(view, t) /\ a = TorrentAction(view, t)
  BY DEF TorrentTier
<1>2. /\ a.kind = "torrent" /\ a.unit = NoUnit /\ a.torrents = {t}
      /\ a.value = Care * Value[t] /\ a.bytes = view.torrents[t].reclaim.bytes
  BY <1>1 DEF TorrentAction
<1>3. a.bytes \in Nat \ {0}
  BY <1>1, <1>2 DEF RemovableAlone, ViewOK
<1>4. a.value \in Nat
  <2>1. Value[t] \in Nat /\ Care \in Nat
    BY PlanAssumption DEF ViewOK
  <2>2. Care * Value[t] \in Nat
    BY <2>1
  <2> QED BY <1>2, <2>2
<1>5. PlaceOf(a) = Position[t]
  <2>1. (CHOOSE s \in {t} : TRUE) = t
    OBVIOUS
  <2> QED BY <1>2, <2>1 DEF PlaceOf
<1> QED BY <1>1, <1>2, <1>3, <1>4, <1>5

LEMMA AnyCandidate ==
  ASSUME NEW view, ViewOK(view), NEW a \in Tiers(view)
  PROVE  /\ a.value \in Nat /\ PlaceOf(a) \in Nat /\ a.bytes \in Nat \ {0}
         /\ a.kind = "torrent" => a \in TorrentTier(view)
         /\ a.kind # "torrent" => a \in MediaTier(view)
<1>1. CASE a \in MediaTier(view)
  <2>1. a.unit \in Unit
    BY <1>1, MediaCandidate DEF ViewOK
  <2>2. Position[a.unit] \in Nat
    BY <2>1, PlanAssumption
  <2> QED BY <1>1, <2>2, MediaCandidate
<1>2. CASE a \in TorrentTier(view)
  <2>1. PICK t \in DOMAIN view.torrents :
           a.kind = "torrent" /\ a.value \in Nat /\ a.bytes \in Nat \ {0} /\ PlaceOf(a) = Position[t]
    BY <1>2, TorrentCandidate
  <2>2. Position[t] \in Nat
    BY PlanAssumption DEF ViewOK
  <2> QED BY <1>2, <2>1, <2>2
<1> QED BY <1>1, <1>2 DEF Tiers

\* Among torrents, and among media, no two candidates share a place.
LEMMA OnePlaceEach ==
  ASSUME NEW view, ViewOK(view), NEW a \in Tiers(view), NEW b \in Tiers(view),
         a.kind = "torrent" <=> b.kind = "torrent", PlaceOf(a) = PlaceOf(b)
  PROVE  a = b
<1>1. CASE a.kind = "torrent"
  <2>1. a \in TorrentTier(view) /\ b \in TorrentTier(view)
    BY <1>1, AnyCandidate
  <2>2. PICK t \in DOMAIN view.torrents : a = TorrentAction(view, t) /\ PlaceOf(a) = Position[t]
    BY <2>1, TorrentCandidate
  <2>3. PICK s \in DOMAIN view.torrents : b = TorrentAction(view, s) /\ PlaceOf(b) = Position[s]
    BY <2>1, TorrentCandidate
  <2>4. t \in Torrent /\ s \in Torrent
    BY DEF ViewOK
  <2>5. t = s
    BY <2>2, <2>3, <2>4, PlanAssumption
  <2> QED BY <2>2, <2>3, <2>5
<1>2. CASE a.kind # "torrent"
  <2>1. a \in MediaTier(view) /\ b \in MediaTier(view)
    BY <1>2, AnyCandidate
  <2>2. /\ a.unit \in Unit /\ a = MediaAction(view, a.unit) /\ PlaceOf(a) = Position[a.unit]
        /\ b.unit \in Unit /\ b = MediaAction(view, b.unit) /\ PlaceOf(b) = Position[b.unit]
    BY <2>1, MediaCandidate DEF ViewOK
  <2>3. a.unit = b.unit
    BY <2>2, PlanAssumption
  <2> QED BY <2>2, <2>3
<1> QED BY <1>1, <1>2

\* The comparison the planner sorts by is a total order of the candidates.
LEMMA TiersAreOrdered ==
  ASSUME NEW view, ViewOK(view), NEW S \in SUBSET Tiers(view)
  PROVE  Orders(Precedence(view), S)
<1>1. \A a, b \in S : <<a, b>> \in Precedence(view) <=> Earlier(a, b)
  BY DEF Precedence
<1>2. \A a \in S : a.value \in Nat /\ PlaceOf(a) \in Nat
  BY AnyCandidate
<1>3. \A a, b \in S : Earlier(a, b) => ~Earlier(b, a)
  BY <1>2 DEF Earlier
<1>4. \A a, b, c \in S : Earlier(a, b) /\ Earlier(b, c) => Earlier(a, c)
  BY <1>2 DEF Earlier
<1>5. \A a, b \in S : a # b => Earlier(a, b) \/ Earlier(b, a)
  <2> SUFFICES ASSUME NEW a \in S, NEW b \in S, a # b
               PROVE  Earlier(a, b) \/ Earlier(b, a)
    OBVIOUS
  <2>1. a.kind = "torrent" <=> b.kind = "torrent" => PlaceOf(a) # PlaceOf(b)
    BY OnePlaceEach
  <2> QED BY <1>2, <2>1 DEF Earlier
<1> QED BY <1>1, <1>3, <1>4, <1>5 DEF Orders

LEMMA PlaceIsRank ==
  ASSUME NEW view, NEW S \in SUBSET Tiers(view), NEW a \in S
  PROVE  {b \in S : Earlier(b, a)} = Below(Precedence(view), S, a)
BY DEF Precedence, Below

-----------------------------------------------------------------------------
(* Sorting and selecting.                                                  *)

Sorted(f, S) ==
  /\ f \in [1 .. Cardinality(S) -> S]
  /\ Range(f) = S
  /\ \A j, k \in 1 .. Cardinality(S) : f[j] = f[k] => j = k

\* Sorting candidates loses none and repeats none.
LEMMA RankSorts ==
  ASSUME NEW view, ViewOK(view), NEW S \in SUBSET Tiers(view)
  PROVE  Sorted(Rank(S), S)
<1> DEFINE R == Precedence(view)
           n == Cardinality(S)
           f == Rank(S)
           At(k) == CHOOSE a \in S : Cardinality({b \in S : Earlier(b, a)}) = k - 1
<1>1. IsFiniteSet(S) /\ Orders(R, S)
  BY TiersAreFinite, TiersAreOrdered, FS_Subset
<1>2. n \in Nat
  BY <1>1, FS_CardinalityType
<1>3. f = [k \in 1 .. n |-> At(k)]
  BY DEF Rank
<1>4. ASSUME NEW k \in 1 .. n
      PROVE  At(k) \in S /\ PlaceIn(R, S, At(k)) = k - 1
  <2>1. \E a \in S : PlaceIn(R, S, a) = k - 1
    BY <1>1, EveryPlaceIsTaken
  <2>2. \A a \in S : Cardinality({b \in S : Earlier(b, a)}) = PlaceIn(R, S, a)
    BY PlaceIsRank DEF PlaceIn
  <2>3. \E a \in S : Cardinality({b \in S : Earlier(b, a)}) = k - 1
    BY <2>1, <2>2
  <2>4. At(k) \in S /\ Cardinality({b \in S : Earlier(b, At(k))}) = k - 1
    BY <2>3
  <2> QED BY <2>2, <2>4
<1>5. f \in [1 .. n -> S]
  BY <1>3, <1>4
<1>6. ASSUME NEW j \in 1 .. n, NEW k \in 1 .. n, f[j] = f[k]
      PROVE  j = k
  <2>1. At(j) = At(k)
    BY <1>3, <1>6
  <2>2. j - 1 = k - 1
    BY <1>4, <2>1
  <2> QED BY <2>2
<1>7. ASSUME NEW a \in S
      PROVE  \E k \in 1 .. n : f[k] = a
  <2> DEFINE k == PlaceIn(R, S, a) + 1
  <2>1. PlaceIn(R, S, a) \in 0 .. n - 1
    BY <1>1, BelowIsLess
  <2>2. k \in 1 .. n /\ k - 1 = PlaceIn(R, S, a)
    BY <1>2, <2>1
  <2> HIDE DEF k
  <2>3. At(k) \in S /\ PlaceIn(R, S, At(k)) = PlaceIn(R, S, a)
    BY <1>4, <2>2
  <2>4. At(k) = a
    BY <1>1, <2>3, EveryPlaceIsTaken
  <2> QED BY <1>3, <2>2, <2>4
<1>8. Range(f) = S
  BY <1>5, <1>7 DEF Range
<1> QED BY <1>5, <1>6, <1>8 DEF Sorted

\* What every candidate frees.
Frees(view) == [a \in Tiers(view) |-> a.bytes]

LEMMA BytesAreTotals ==
  ASSUME NEW view, ViewOK(view), NEW S \in SUBSET Tiers(view)
  PROVE  /\ Weighs(Frees(view), S) /\ IsFiniteSet(S)
         /\ BytesOf(S) = Total(Frees(view), S) /\ BytesOf(S) \in Nat
         /\ \A a \in S : Frees(view)[a] > 0
<1>1. \A a \in S : Frees(view)[a] = a.bytes /\ a.bytes \in Nat \ {0}
  BY AnyCandidate DEF Frees
<1>2. IsFiniteSet(S)
  BY TiersAreFinite, FS_Subset
<1>3. Weighs(Frees(view), S)
  BY <1>1, <1>2 DEF Weighs
<1> DEFINE w == [a \in S |-> a.bytes]
<1>4. \A a \in S : w[a] = Frees(view)[a]
  BY <1>1
<1>5. Total(w, S) = Total(Frees(view), S)
  <2> HIDE DEF w
  <2>1. {{x} \X (1 .. w[x]) : x \in S} = {{x} \X (1 .. Frees(view)[x]) : x \in S}
    BY <1>4
  <2> QED BY <2>1 DEF Total
<1>6. Total(Frees(view), S) \in Nat
  BY <1>3, TotalIsNat
<1>7. \A a \in S : Frees(view)[a] > 0
  BY <1>1
<1> QED BY <1>2, <1>3, <1>5, <1>6, <1>7 DEF BytesOf

\* A selection in the order of value stops short of nothing before the target
\* is reached.
LEMMA UpToReaches ==
  ASSUME NEW view, ViewOK(view), NEW S \in SUBSET Tiers(view), NEW target \in Int
  PROVE  /\ UpTo(S, target) \subseteq S
         /\ UpTo(S, target) = S \/ BytesOf(UpTo(S, target)) >= target
<1> DEFINE R == Precedence(view)
           taken == UpTo(S, target)
           rest == S \ taken
<1>1. taken \subseteq S
  BY DEF UpTo
<1>2. CASE rest = {}
  BY <1>1, <1>2
<1>3. CASE rest # {}
  <2>1. IsFiniteSet(rest) /\ Orders(R, rest)
    BY BytesAreTotals, FS_Subset, TiersAreOrdered
  <2>2. Cardinality(rest) \in Nat /\ Cardinality(rest) # 0
    BY <1>3, <2>1, FS_CardinalityType, FS_EmptySet
  <2>3. PICK a \in rest : PlaceIn(R, rest, a) = 1 - 1
    BY <2>1, <2>2, EveryPlaceIsTaken
  <2>4. Below(R, rest, a) = {}
    <3>1. IsFiniteSet(Below(R, rest, a)) /\ Cardinality(Below(R, rest, a)) = 0
      BY <2>1, <2>3, BelowIsLess DEF PlaceIn
    <3> QED BY <3>1, FS_EmptySet
  <2> DEFINE before == {b \in S : Earlier(b, a)}
  <2>5. before \subseteq taken
    BY <2>4, PlaceIsRank
  <2>6. ~(BytesOf(before) < target)
    BY DEF UpTo
  <2>7. BytesOf(before) <= BytesOf(taken)
    <3>1. before \subseteq Tiers(view) /\ taken \subseteq Tiers(view)
      BY <1>1
    <3>2. /\ Weighs(Frees(view), taken)
          /\ BytesOf(before) = Total(Frees(view), before)
          /\ BytesOf(taken) = Total(Frees(view), taken)
      BY <3>1, BytesAreTotals
    <3>3. Total(Frees(view), before) <= Total(Frees(view), taken)
      BY <2>5, <3>2, TotalGrows
    <3> QED BY <3>2, <3>3
  <2>8. BytesOf(before) \in Nat /\ BytesOf(taken) \in Nat
    BY <1>1, BytesAreTotals
  <2> QED BY <1>1, <2>6, <2>7, <2>8
<1> QED BY <1>2, <1>3

\* The share of the services makes up for what the baseline took of the media.
LEMMA ShareReaches ==
  ASSUME NEW view, ViewOK(view), NEW tier \in SUBSET Tiers(view), NEW footprint, NEW target \in Nat
  PROVE  LET share == FairMediaShare(tier, footprint, target)
         IN share \subseteq tier /\ (share = tier \/ BytesOf(share) >= target)
<1> DEFINE services == {ServiceOf[a.unit.media] : a \in tier}
           Of(s) == {a \in tier : ServiceOf[a.unit.media] = s}
           total == Total(footprint, services)
           fair == UNION {UpTo(Of(s), (target * footprint[s]) \div total) : s \in services}
           more == UpTo(tier \ fair, target - BytesOf(fair))
           share == FairMediaShare(tier, footprint, target)
<1>1. CASE target = 0
  <2>1. share = {}
    BY <1>1 DEF FairMediaShare
  <2>2. BytesOf({}) \in Nat
    BY BytesAreTotals
  <2> QED BY <1>1, <2>1, <2>2
<1>2. CASE target > 0 /\ total = 0
  <2>1. share = UpTo(tier, target)
    BY <1>2 DEF FairMediaShare
  <2> QED BY <2>1, UpToReaches
<1>3. CASE target > 0 /\ total # 0
  <2>1. share = fair \cup more
    <3> HIDE DEF fair
    <3>1. share = fair \cup UpTo(tier \ fair, target - BytesOf(fair))
      BY <1>3 DEF FairMediaShare, fair
    <3> QED BY <3>1
  <2>2. fair \subseteq tier
    BY DEF UpTo
  <2> HIDE DEF fair
  <2>3. fair \subseteq Tiers(view) /\ tier \ fair \subseteq Tiers(view)
    BY <2>2
  <2>4. BytesOf(fair) \in Nat
    BY <2>3, BytesAreTotals
  <2>5. more \subseteq tier \ fair /\ (more = tier \ fair \/ BytesOf(more) >= target - BytesOf(fair))
    <3>1. target - BytesOf(fair) \in Int
      BY <2>4
    <3> QED BY <2>3, <3>1, UpToReaches
  <2> HIDE DEF more
  <2>6. BytesOf(fair \cup more) = BytesOf(fair) + BytesOf(more) /\ BytesOf(more) \in Nat
    <3>1. more \subseteq Tiers(view) /\ fair \cup more \subseteq Tiers(view) /\ fair \cap more = {}
      BY <2>3, <2>5
    <3>2. /\ Weighs(Frees(view), fair) /\ Weighs(Frees(view), more)
          /\ BytesOf(fair) = Total(Frees(view), fair)
          /\ BytesOf(more) = Total(Frees(view), more)
          /\ BytesOf(fair \cup more) = Total(Frees(view), fair \cup more)
          /\ BytesOf(more) \in Nat
      BY <2>3, <3>1, BytesAreTotals
    <3>3. Total(Frees(view), fair \cup more) = Total(Frees(view), fair) + Total(Frees(view), more)
      BY <3>1, <3>2, TotalAdds
    <3> QED BY <3>2, <3>3
  <2>7. CASE more = tier \ fair
    BY <2>1, <2>2, <2>7
  <2>8. CASE BytesOf(more) >= target - BytesOf(fair)
    BY <2>1, <2>2, <2>4, <2>5, <2>6, <2>8
  <2> QED BY <2>5, <2>7, <2>8
<1> QED BY <1>1, <1>2, <1>3

-----------------------------------------------------------------------------
(* Seasons in order.                                                       *)

Show(f, i) == {j \in DOMAIN f : f[j].unit.media = f[i].unit.media}
Sooner(j, k) == j < k
EarlierSeason(f, j, k) == f[j].unit.season < f[k].unit.season
ByPlace(D) == {p \in D \X D : Sooner(p[1], p[2])}
BySeason(f, D) == {p \in D \X D : EarlierSeason(f, p[1], p[2])}

\* The place whose candidate comes to place i.
Moved(f, i) ==
  IF f[i].unit.season = 0 THEN i
  ELSE CHOOSE j \in Show(f, i) :
         PlaceIn(BySeason(f, DOMAIN f), Show(f, i), j) = PlaceIn(ByPlace(DOMAIN f), Show(f, i), i)

LEMMA OrdersOfPlaces ==
  ASSUME NEW f, NEW D, NEW j \in D, NEW k \in D
  PROVE  /\ <<j, k>> \in ByPlace(D) <=> j < k
         /\ <<j, k>> \in BySeason(f, D) <=> f[j].unit.season < f[k].unit.season
<1>1. <<j, k>> \in ByPlace(D) <=> Sooner(j, k)
  BY DEF ByPlace
<1>2. <<j, k>> \in BySeason(f, D) <=> EarlierSeason(f, j, k)
  BY DEF BySeason
<1> QED BY <1>1, <1>2 DEF Sooner, EarlierSeason

\* A season belongs to a show, and is one candidate.
LEMMA SeasonsOfAShow ==
  ASSUME NEW view, ViewOK(view), NEW a \in Tiers(view), NEW b \in Tiers(view),
         a.unit.season # 0, b.unit.media = a.unit.media
  PROVE  /\ a.unit.season \in Nat /\ b.unit.season \in Nat \ {0}
         /\ a.unit.season = b.unit.season => a = b
<1>1. a.kind # "torrent" /\ a \in MediaTier(view)
  <2>1. a \notin TorrentTier(view)
    BY TorrentCandidate DEF NoUnit
  <2> QED BY <2>1, AnyCandidate
<1>2. a.unit \in Unit /\ a = MediaAction(view, a.unit)
  BY <1>1, MediaCandidate DEF ViewOK
<1>3. a.unit.media \in Media \ Films /\ a.unit.season \in Nat
  BY <1>2, TopologyAssumption DEF Unit
<1>4. b \in MediaTier(view)
  <2>1. b \notin TorrentTier(view)
    BY <1>3, TorrentCandidate, PlanAssumption DEF NoUnit
  <2> QED BY <2>1 DEF Tiers
<1>5. b.unit \in Unit /\ b = MediaAction(view, b.unit)
  BY <1>4, MediaCandidate DEF ViewOK
<1>6. b.unit.season \in Nat \ {0}
  BY <1>3, <1>5, TopologyAssumption DEF Unit
<1>7. a.unit.season = b.unit.season => a.unit = b.unit
  BY <1>2, <1>5 DEF Unit
<1> QED BY <1>2, <1>3, <1>5, <1>6, <1>7

\* What one season of a show says of all the places of the show.
LEMMA PlacesOfAShow ==
  ASSUME NEW view, ViewOK(view), NEW S \in SUBSET Tiers(view), NEW f, Sorted(f, S),
         NEW i \in DOMAIN f, f[i].unit.season # 0
  PROVE  /\ DOMAIN f = 1 .. Cardinality(S) /\ i \in Show(f, i)
         /\ IsFiniteSet(Show(f, i))
         /\ Orders(ByPlace(DOMAIN f), Show(f, i)) /\ Orders(BySeason(f, DOMAIN f), Show(f, i))
         /\ Moved(f, i) \in Show(f, i)
         /\ PlaceIn(BySeason(f, DOMAIN f), Show(f, i), Moved(f, i)) = PlaceIn(ByPlace(DOMAIN f), Show(f, i), i)
         /\ \A j \in Show(f, i) : Show(f, j) = Show(f, i) /\ f[j].unit.season \in Nat \ {0}
<1> DEFINE show == Show(f, i)
           n == Cardinality(S)
<1>1. DOMAIN f = 1 .. n /\ \A j \in DOMAIN f : f[j] \in Tiers(view)
  BY DEF Sorted
<1>2. n \in Nat
  BY BytesAreTotals, FS_CardinalityType
<1>3. show \subseteq 1 .. n /\ i \in show
  BY <1>1 DEF Show
<1>4. IsFiniteSet(show)
  <2>1. 1 \in Int /\ n \in Int
    BY <1>2
  <2>2. IsFiniteSet(1 .. n)
    BY <2>1, FS_Interval
  <2> QED BY <1>3, <2>2, FS_Subset
<1>5. \A j \in show : Show(f, j) = show
  BY DEF Show
<1>6. \A j \in show : f[j].unit.season \in Nat \ {0}
  BY <1>1, <1>3, SeasonsOfAShow DEF Show
<1>7. \A j, k \in show : f[j].unit.season = f[k].unit.season => j = k
  <2> SUFFICES ASSUME NEW j \in show, NEW k \in show, f[j].unit.season = f[k].unit.season
               PROVE  j = k
    OBVIOUS
  <2>1. f[j].unit.season # 0 /\ f[k].unit.media = f[j].unit.media
    BY <1>6 DEF Show
  <2>2. f[j] = f[k]
    BY <1>1, <1>3, <2>1, SeasonsOfAShow
  <2> QED BY <1>1, <1>3, <2>2 DEF Sorted
<1>8. Orders(ByPlace(DOMAIN f), show)
  <2>1. \A j, k \in show : <<j, k>> \in ByPlace(DOMAIN f) <=> j < k
    BY OrdersOfPlaces DEF Show
  <2>2. \A j \in show : j \in Int
    BY <1>3
  <2> QED BY <2>1, <2>2 DEF Orders
<1>9. Orders(BySeason(f, DOMAIN f), show)
  <2>1. \A j, k \in show : <<j, k>> \in BySeason(f, DOMAIN f) <=> f[j].unit.season < f[k].unit.season
    BY OrdersOfPlaces DEF Show
  <2> DEFINE season(j) == f[j].unit.season
  <2>2. \A j \in show : season(j) \in Int
    BY <1>6
  <2>3. \A j, k \in show : j # k => season(j) # season(k)
    BY <1>7
  <2>4. \A j, k \in show : <<j, k>> \in BySeason(f, DOMAIN f) <=> season(j) < season(k)
    BY <2>1
  <2> HIDE DEF season
  <2> QED BY <2>2, <2>3, <2>4 DEF Orders
<1>10. \E j \in show : PlaceIn(BySeason(f, DOMAIN f), show, j) = PlaceIn(ByPlace(DOMAIN f), show, i)
  <2> DEFINE m == PlaceIn(ByPlace(DOMAIN f), show, i) + 1
  <2>1. PlaceIn(ByPlace(DOMAIN f), show, i) \in 0 .. Cardinality(show) - 1 /\ Cardinality(show) \in Nat
    BY <1>3, <1>4, <1>8, BelowIsLess, FS_CardinalityType
  <2>2. m \in 1 .. Cardinality(show) /\ m - 1 = PlaceIn(ByPlace(DOMAIN f), show, i)
    BY <2>1
  <2> HIDE DEF m
  <2>3. \E j \in show : PlaceIn(BySeason(f, DOMAIN f), show, j) = m - 1
    BY <1>4, <1>9, <2>2, EveryPlaceIsTaken
  <2> QED BY <2>2, <2>3
<1>11. /\ Moved(f, i) \in show
       /\ PlaceIn(BySeason(f, DOMAIN f), show, Moved(f, i)) = PlaceIn(ByPlace(DOMAIN f), show, i)
  BY <1>10 DEF Moved
<1> QED BY <1>1, <1>3, <1>4, <1>5, <1>6, <1>8, <1>9, <1>11

LEMMA Swap ==
  ASSUME NEW view, ViewOK(view), NEW S \in SUBSET Tiers(view), NEW f, Sorted(f, S)
  PROVE  EnforceSeasonOrder(f) = [i \in DOMAIN f |-> f[Moved(f, i)]]
<1> DEFINE Nth(i) == Cardinality({j \in Show(f, i) : j < i})
           Before(i, j) == Cardinality({k \in Show(f, i) : f[k].unit.season < f[j].unit.season})
           To(i) == CHOOSE j \in Show(f, i) : Before(i, j) = Nth(i)
<1>1. EnforceSeasonOrder(f) =
        [i \in DOMAIN f |-> IF f[i].unit.season = 0 THEN f[i] ELSE f[To(i)]]
  BY DEF EnforceSeasonOrder, Show
<1>2. ASSUME NEW i \in DOMAIN f, f[i].unit.season # 0
      PROVE  To(i) = Moved(f, i)
  <2> DEFINE show == Show(f, i)
  <2>1. /\ i \in show /\ Moved(f, i) \in show
        /\ PlaceIn(BySeason(f, DOMAIN f), show, Moved(f, i)) = PlaceIn(ByPlace(DOMAIN f), show, i)
        /\ IsFiniteSet(show) /\ Orders(BySeason(f, DOMAIN f), show)
    BY <1>2, PlacesOfAShow, ZenonT(60)
  <2>2. \A j, k \in show :
           /\ <<j, k>> \in ByPlace(DOMAIN f) <=> j < k
           /\ <<j, k>> \in BySeason(f, DOMAIN f) <=> f[j].unit.season < f[k].unit.season
    BY OrdersOfPlaces DEF Show
  <2>3. Nth(i) = PlaceIn(ByPlace(DOMAIN f), Show(f, i), i)
    <3> HIDE DEF show
    <3>1. {j \in show : j < i} = Below(ByPlace(DOMAIN f), show, i)
      BY <2>1, <2>2 DEF Below
    <3> QED BY <3>1 DEF PlaceIn, show
  <2>4. ASSUME NEW j \in show
        PROVE  Before(i, j) = PlaceIn(BySeason(f, DOMAIN f), Show(f, i), j)
    <3> HIDE DEF show
    <3>1. {k \in show : f[k].unit.season < f[j].unit.season} = Below(BySeason(f, DOMAIN f), show, j)
      BY <2>2 DEF Below
    <3> QED BY <3>1 DEF PlaceIn, show
  <2> HIDE DEF Nth, Before
  <2>5. To(i) \in Show(f, i) /\ Before(i, To(i)) = Nth(i)
    <3>1. \E j \in Show(f, i) : Before(i, j) = Nth(i)
      BY <2>1, <2>3, <2>4
    <3> QED BY <3>1
  <2> HIDE DEF To
  <2>6. PlaceIn(BySeason(f, DOMAIN f), show, Moved(f, i)) = PlaceIn(BySeason(f, DOMAIN f), show, To(i))
    BY <2>1, <2>3, <2>4, <2>5
  <2> QED BY <2>1, <2>5, <2>6, EveryPlaceIsTaken
<1> HIDE DEF To
<1> QED BY <1>1, <1>2 DEF Moved

\* Two places of which one belongs to a show and that get the same show.
LEMMA MovedWithinShow ==
  ASSUME NEW view, ViewOK(view), NEW S \in SUBSET Tiers(view), NEW f, Sorted(f, S), NEW i \in DOMAIN f
  PROVE  /\ Moved(f, i) \in Show(f, i) /\ Moved(f, i) \in DOMAIN f
         /\ f[Moved(f, i)].unit.media = f[i].unit.media
         /\ f[i].unit.season = 0 <=> f[Moved(f, i)].unit.season = 0
<1>1. CASE f[i].unit.season = 0
  BY <1>1 DEF Moved, Show
<1>2. CASE f[i].unit.season # 0
  <2>1. Moved(f, i) \in Show(f, i) /\ \A j \in Show(f, i) : f[j].unit.season \in Nat \ {0}
    BY <1>2, PlacesOfAShow
  <2> QED BY <1>2, <2>1 DEF Show
<1> QED BY <1>1, <1>2

\* Two places of one show: the earlier gets the earlier season.
LEMMA SeasonsAscend ==
  ASSUME NEW view, ViewOK(view), NEW S \in SUBSET Tiers(view), NEW f, Sorted(f, S),
         NEW i \in DOMAIN f, NEW k \in Show(f, i), f[i].unit.season # 0
  PROVE  /\ i < k => f[Moved(f, i)].unit.season < f[Moved(f, k)].unit.season
         /\ Moved(f, i) = Moved(f, k) => i = k
<1> DEFINE show == Show(f, i)
           P == ByPlace(DOMAIN f)
           Q == BySeason(f, DOMAIN f)
           a == Moved(f, i)
           b == Moved(f, k)
<1>1. /\ i \in show /\ IsFiniteSet(show) /\ Orders(P, show) /\ Orders(Q, show)
      /\ a \in show /\ PlaceIn(Q, show, a) = PlaceIn(P, show, i)
      /\ \A j \in show : Show(f, j) = show /\ f[j].unit.season \in Nat \ {0}
  BY PlacesOfAShow, ZenonT(60)
<1>2. k \in DOMAIN f /\ f[k].unit.season # 0 /\ Show(f, k) = show
  BY <1>1 DEF Show
<1>3. b \in show /\ PlaceIn(Q, show, b) = PlaceIn(P, show, k)
  <2>1. Moved(f, k) \in Show(f, k) /\ PlaceIn(Q, Show(f, k), Moved(f, k)) = PlaceIn(P, Show(f, k), k)
    BY <1>2, PlacesOfAShow, ZenonT(60)
  <2> QED BY <1>2, <2>1
<1>4. /\ <<i, k>> \in P <=> i < k
      /\ <<b, a>> \in Q <=> f[b].unit.season < f[a].unit.season
      /\ <<a, b>> \in Q <=> f[a].unit.season < f[b].unit.season
  <2>1. a \in DOMAIN f /\ b \in DOMAIN f
    BY <1>1, <1>3 DEF Show
  <2> HIDE DEF a, b
  <2> QED BY <1>2, <2>1, OrdersOfPlaces
<1> HIDE DEF show, P, Q, a, b
<1>5. ASSUME a = b
      PROVE  i = k
  <2>1. PlaceIn(P, show, i) = PlaceIn(P, show, k) /\ k \in show
    BY <1>1, <1>3, <1>5 DEF show
  <2> QED BY <1>1, <2>1, EveryPlaceIsTaken
<1>6. ASSUME i < k
      PROVE  f[a].unit.season < f[b].unit.season
  <2>1. PlaceIn(P, show, i) < PlaceIn(P, show, k)
    BY <1>1, <1>4, <1>6, PlacesAscend DEF show
  <2>2. a # b /\ ~(PlaceIn(Q, show, b) < PlaceIn(Q, show, a))
    <3>1. PlaceIn(P, show, i) \in Int /\ PlaceIn(P, show, k) \in Int
      BY <1>1, BelowIsLess DEF show
    <3> QED BY <1>1, <1>3, <2>1, <3>1
  <2>3. <<b, a>> \notin Q
    BY <1>1, <1>3, <2>2, PlacesAscend
  <2>4. <<a, b>> \in Q
    BY <1>1, <1>3, <2>2, <2>3 DEF Orders
  <2> QED BY <1>4, <2>4
<1> QED BY <1>5, <1>6 DEF a, b

\* Putting the seasons in order moves candidates and changes nothing else.
LEMMA EnforcedStaysSorted ==
  ASSUME NEW view, ViewOK(view), NEW S \in SUBSET Tiers(view), NEW f, Sorted(f, S)
  PROVE  Sorted(EnforceSeasonOrder(f), S)
<1> DEFINE n == Cardinality(S)
           g == EnforceSeasonOrder(f)
           to == [i \in 1 .. n |-> Moved(f, i)]
<1>1. DOMAIN f = 1 .. n /\ g = [i \in 1 .. n |-> f[Moved(f, i)]]
  <2>1. DOMAIN f = 1 .. n
    BY DEF Sorted
  <2>2. g = [i \in DOMAIN f |-> f[Moved(f, i)]]
    BY Swap
  <2> QED BY <2>1, <2>2, Zenon
<1>2. n \in Nat
  BY BytesAreTotals, FS_CardinalityType
<1>3. IsFiniteSet(1 .. n)
  <2>1. 1 \in Int /\ n \in Int
    BY <1>2
  <2> QED BY <2>1, FS_Interval
<1>4. \A i \in 1 .. n : Moved(f, i) \in 1 .. n
  BY <1>1, MovedWithinShow
<1>5. ASSUME NEW i \in 1 .. n, NEW k \in 1 .. n, Moved(f, i) = Moved(f, k)
      PROVE  i = k
  <2>1. /\ f[i].unit.season = 0 <=> f[k].unit.season = 0
        /\ f[k].unit.media = f[i].unit.media
    <3>1. i \in DOMAIN f /\ k \in DOMAIN f
      BY <1>1
    <3>2. /\ f[Moved(f, i)].unit.media = f[i].unit.media
          /\ f[i].unit.season = 0 <=> f[Moved(f, i)].unit.season = 0
      BY <3>1, MovedWithinShow
    <3>3. /\ f[Moved(f, k)].unit.media = f[k].unit.media
          /\ f[k].unit.season = 0 <=> f[Moved(f, k)].unit.season = 0
      BY <3>1, MovedWithinShow
    <3> QED BY <1>5, <3>2, <3>3, Zenon
  <2>2. CASE f[i].unit.season = 0
    BY <1>5, <2>1, <2>2 DEF Moved
  <2>3. CASE f[i].unit.season # 0
    <3>1. i \in DOMAIN f /\ k \in Show(f, i)
      BY <1>1, <2>1 DEF Show
    <3> QED BY <1>5, <2>3, <3>1, SeasonsAscend
  <2> QED BY <2>2, <2>3
<1> HIDE DEF n
<1>6. to \in Injection(1 .. n, 1 .. n)
  <2>1. to \in [1 .. n -> 1 .. n] /\ \A i, k \in 1 .. n : to[i] = to[k] => i = k
    BY <1>4, <1>5
  <2> HIDE DEF to
  <2> QED BY <2>1, Fun_IsInj
<1>7. to \in Surjection(1 .. n, 1 .. n)
  BY <1>3, <1>6, FS_Injection
<1>8. \A k \in 1 .. n : \E i \in 1 .. n : to[i] = k
  BY <1>7 DEF Surjection
<1>9. /\ f \in [1 .. n -> S] /\ Range(f) = S
      /\ \A j, k \in 1 .. n : f[j] = f[k] => j = k
  BY DEF Sorted, n
<1>10. g \in [1 .. n -> S]
  BY <1>1, <1>4, <1>9
<1>11. \A j, k \in 1 .. n : g[j] = g[k] => j = k
  BY <1>1, <1>4, <1>5, <1>9
<1>12. Range(g) = S
  <2>1. \A i \in 1 .. n : g[i] = f[to[i]]
    BY <1>1
  <2>2. DOMAIN g = 1 .. n
    BY <1>1
  <2> HIDE DEF g, to
  <2>3. ASSUME NEW a \in S
        PROVE  a \in Range(g)
    <3>1. PICK k \in 1 .. n : f[k] = a
      BY <1>9 DEF Range
    <3>2. PICK i \in 1 .. n : to[i] = k
      BY <1>8
    <3> QED BY <2>1, <2>2, <3>1, <3>2 DEF Range
  <2> QED BY <1>10, <2>2, <2>3 DEF Range
<1> QED BY <1>10, <1>11, <1>12 DEF Sorted, n

\* In an enforced plan a later place of a show has a later season.
LEMMA EnforcedAscends ==
  ASSUME NEW view, ViewOK(view), NEW S \in SUBSET Tiers(view), NEW f, Sorted(f, S),
         NEW j \in DOMAIN f, NEW k \in DOMAIN f, j < k
  PROVE  LET g == EnforceSeasonOrder(f)
         IN g[j].unit.media = g[k].unit.media /\ g[j].unit.season # 0
            => g[j].unit.season < g[k].unit.season
<1> DEFINE g == EnforceSeasonOrder(f)
<1>1. g[j] = f[Moved(f, j)] /\ g[k] = f[Moved(f, k)]
  BY Swap
<1> SUFFICES ASSUME g[j].unit.media = g[k].unit.media, g[j].unit.season # 0
             PROVE  f[Moved(f, j)].unit.season < f[Moved(f, k)].unit.season
  BY <1>1
<1>2. f[j].unit.season # 0 /\ f[k].unit.media = f[j].unit.media
  BY <1>1, MovedWithinShow
<1>3. k \in Show(f, j)
  BY <1>2 DEF Show
<1> QED BY <1>2, <1>3, SeasonsAscend

-----------------------------------------------------------------------------
(* The plan.                                                               *)

\* What Build chooses, before it is sorted.
Chosen(view, footprint, need) ==
  LET baseline == UpTo(Tiers(view), need)
  IN (baseline \cap TorrentTier(view))
     \cup FairMediaShare(MediaTier(view), footprint, BytesOf(baseline \cap MediaTier(view)))

\* The media and the torrents of the baseline, and what the share makes of the
\* media, weigh no less than the baseline.
LEMMA ChosenReaches ==
  ASSUME NEW view, ViewOK(view), NEW footprint, NEW need \in Nat
  PROVE  LET chosen == Chosen(view, footprint, need)
         IN chosen \subseteq Tiers(view) /\ (chosen = Tiers(view) \/ BytesOf(chosen) >= need)
<1> DEFINE all == Tiers(view)
           media == MediaTier(view)
           torrents == TorrentTier(view)
           baseline == UpTo(all, need)
           ours == baseline \cap media
           theirs == baseline \cap torrents
           target == BytesOf(ours)
           share == FairMediaShare(media, footprint, target)
           w == Frees(view)
<1>1. all = media \cup torrents /\ media \cap torrents = {}
  <2>1. media \cap torrents = {}
    BY MediaCandidate, TorrentCandidate
  <2> QED BY <2>1 DEF Tiers
<1>2. baseline \subseteq all /\ (baseline = all \/ BytesOf(baseline) >= need)
  BY UpToReaches
<1> HIDE DEF all, media, torrents, baseline
<1>3. /\ ours \in SUBSET Tiers(view) /\ theirs \in SUBSET Tiers(view) /\ media \in SUBSET Tiers(view)
      /\ baseline \in SUBSET Tiers(view)
  BY <1>1, <1>2 DEF all
<1>4. target \in Nat
  BY <1>3, BytesAreTotals
<1>5. share \subseteq media /\ (share = media \/ BytesOf(share) >= target)
  BY <1>3, <1>4, ShareReaches
<1>6. Chosen(view, footprint, need) = theirs \cup share
  BY DEF Chosen, all, media, torrents, baseline
<1> HIDE DEF share
<1>7. /\ share \in SUBSET Tiers(view) /\ theirs \cup share \in SUBSET Tiers(view)
      /\ theirs \cap share = {} /\ theirs \cap ours = {} /\ theirs \cup ours = baseline
  BY <1>1, <1>2, <1>3, <1>5
<1> HIDE DEF ours, theirs, target
<1>8. /\ BytesOf(baseline) = BytesOf(theirs) + BytesOf(ours)
      /\ BytesOf(theirs \cup share) = BytesOf(theirs) + BytesOf(share)
      /\ {BytesOf(theirs), BytesOf(ours), BytesOf(share), BytesOf(baseline)} \subseteq Nat
  <2>1. /\ Weighs(w, theirs) /\ BytesOf(theirs) = Total(w, theirs) /\ BytesOf(theirs) \in Nat
        /\ Weighs(w, ours) /\ BytesOf(ours) = Total(w, ours) /\ BytesOf(ours) \in Nat
        /\ Weighs(w, share) /\ BytesOf(share) = Total(w, share) /\ BytesOf(share) \in Nat
        /\ BytesOf(baseline) = Total(w, baseline) /\ BytesOf(baseline) \in Nat
        /\ BytesOf(theirs \cup share) = Total(w, theirs \cup share)
    BY <1>3, <1>7, BytesAreTotals
  <2>2. /\ Total(w, theirs \cup ours) = Total(w, theirs) + Total(w, ours)
        /\ Total(w, theirs \cup share) = Total(w, theirs) + Total(w, share)
    BY <1>7, <2>1, TotalAdds
  <2> QED BY <1>7, <2>1, <2>2
<1>9. CASE baseline # all
  <2>1. BytesOf(share) >= BytesOf(ours)
    <3>1. CASE share = media
      <4>1. ours \subseteq share
        BY <3>1 DEF ours
      <4>2. /\ Weighs(w, share) /\ BytesOf(share) = Total(w, share)
            /\ BytesOf(ours) = Total(w, ours)
        BY <1>3, <1>7, BytesAreTotals
      <4>3. Total(w, ours) <= Total(w, share)
        BY <4>1, <4>2, TotalGrows
      <4> QED BY <1>8, <4>2, <4>3
    <3>2. CASE share # media
      BY <1>5, <3>2 DEF target
    <3> QED BY <3>1, <3>2
  <2>2. BytesOf(baseline) >= need
    BY <1>2, <1>9
  <2> QED BY <1>6, <1>7, <1>8, <2>1, <2>2
<1>10. CASE baseline = all
  <2>1. ours = media /\ theirs = torrents
    BY <1>1, <1>10 DEF ours, theirs
  <2>2. share = media
    <3>1. /\ Weighs(w, media) /\ \A a \in media : w[a] > 0
          /\ BytesOf(media) = Total(w, media) /\ BytesOf(share) = Total(w, share)
      BY <1>3, <1>7, BytesAreTotals
    <3>2. BytesOf(share) >= BytesOf(media) => share = media
      BY <1>5, <3>1, TotalOfAll
    <3> QED BY <1>5, <2>1, <3>2 DEF target
  <2> QED BY <1>1, <1>6, <2>1, <2>2 DEF all
<1> QED BY <1>9, <1>10

LEMMA PlanIsChosen ==
  ASSUME NEW view, NEW footprint, NEW need
  PROVE  BuildPlan(view, footprint, need) = EnforceSeasonOrder(Rank(Chosen(view, footprint, need)))
BY DEF BuildPlan, Chosen, Tiers

(* A plan holds candidates only, each once; it reaches what is needed or   *)
(* takes every candidate there is; of two seasons of a show the earlier    *)
(* goes first.  This is Build of internal/cleanup: candidates, fair share  *)
(* and season order together.                                              *)
THEOREM PlanIsRight ==
  ASSUME NEW view, ViewOK(view), NEW footprint, NEW need \in Nat
  PROVE  LET plan == BuildPlan(view, footprint, need)
             planned == Range(plan)
         IN /\ plan \in [1 .. Cardinality(planned) -> planned] /\ IsFiniteSet(planned)
            /\ planned \subseteq Tiers(view)
            /\ planned = Tiers(view) \/ BytesOf(planned) >= need
            /\ \A j, k \in DOMAIN plan :
                 /\ j < k
                 /\ plan[j].unit.media = plan[k].unit.media
                 /\ plan[j].unit.season # 0
                 => plan[j].unit.season < plan[k].unit.season
<1> DEFINE S == Chosen(view, footprint, need)
           f == Rank(S)
           plan == BuildPlan(view, footprint, need)
<1>1. S \in SUBSET Tiers(view) /\ (S = Tiers(view) \/ BytesOf(S) >= need)
  BY ChosenReaches
<1>2. plan = EnforceSeasonOrder(f)
  BY PlanIsChosen
<1> HIDE DEF S, plan
<1>3. Sorted(f, S)
  BY <1>1, RankSorts
<1> HIDE DEF f
<1>4. Sorted(plan, S)
  BY <1>1, <1>2, <1>3, EnforcedStaysSorted
<1>5. /\ plan \in [1 .. Cardinality(S) -> S] /\ Range(plan) = S /\ DOMAIN f = DOMAIN plan
  BY <1>3, <1>4 DEF Sorted
<1>6. IsFiniteSet(S)
  BY <1>1, BytesAreTotals
<1>7. \A j, k \in DOMAIN plan :
        j < k /\ plan[j].unit.media = plan[k].unit.media /\ plan[j].unit.season # 0
        => plan[j].unit.season < plan[k].unit.season
  BY <1>1, <1>2, <1>3, <1>5, EnforcedAscends
<1> QED BY <1>1, <1>5, <1>6, <1>7 DEF plan
=============================================================================
