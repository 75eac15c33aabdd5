------------------------- MODULE PublicationProofs -------------------------
(***************************************************************************)
(* Type correctness of the publication protocol, and its three promises: a *)
(* topology called reliable belongs to the published generation, a         *)
(* valuation that is offered is sound, and a published topology never goes *)
(* back.  For any number of entities and sources, and any number of        *)
(* changes, failures and restarts.  The first two hold for any generation  *)
(* bound, also where generation numbers come round again; the third is     *)
(* about histories in which they do not.                                   *)
(***************************************************************************)
EXTENDS Publication, TLAPS

Facts == [present : BOOLEAN, at : Clock, id : Clock]
Outside == [facts : [Entities -> Facts], views : Clock, clock : Clock]
Verdicts == {"pending", "stale", "reliable"}
Reliability == [inventory : BOOLEAN, valuation : BOOLEAN, fileModel : FileModels,
                enrichment : [Sources -> Verdicts]]
Database == [catalogue : Catalogue, topology : Topology, rid : Clock,
             saved : BOOLEAN, filesKnown : BOOLEAN]
RefreshLocals ==
  [pc : {"idle", "snapshot", "compare", "delta", "advance", "persistDelta", "publish", "value",
         "history", "relate", "persist", "finish"},
   all : Catalogue, rid : Clock, delta : Topology \cup {None},
   affected : SUBSET Entities, failed : BOOLEAN]
FilesLocals ==
  [pc : {"idle", "capture", "walk", "compare", "lock", "persist", "publish"},
   mode : {"full", "targeted"}, scope : SUBSET Entities, generation : Nat,
   captured : Catalogue, topology : Topology, result : Catalogue]
EnrichLocals == [pc : {"idle", "publish"}, source : Sources \cup {None}, captured : Catalogue]
CatchUpLocals == [pc : Sources \cup {"idle"}, generation : Nat, pending : SUBSET Media,
                  captured : Catalogue]

ServiceTyped ==
  /\ world \in Outside
  /\ catalogue \in Catalogue /\ generation \in Nat
  /\ topology \in Topology /\ fileGeneration \in Nat
  /\ topologyMoved \in BOOLEAN /\ filesKnown \in BOOLEAN
  /\ reliability \in Reliability
  /\ disk \in Database

RefreshTyped ==
  /\ refresh \in RefreshLocals
  /\ refresh.pc = "persistDelta" => refresh.delta # None

FilesTyped ==
  /\ files \in FilesLocals
  /\ publishMu \in {None, "files"}
  /\ (publishMu = "files") <=> (files.pc \in {"persist", "publish"})

EnrichTyped ==
  /\ enrich \in EnrichLocals
  /\ enrich.pc = "publish" => enrich.source \in Sources
  /\ catchUp \in CatchUpLocals

Typed == ServiceTyped /\ RefreshTyped /\ FilesTyped /\ EnrichTyped

-----------------------------------------------------------------------------
(* The operators.                                                          *)

LEMMA ClockBase == 0 \in Clock /\ 1 \in Clock
BY PublicationAssumption DEF Clock

LEMMA NothingIsTyped ==
  /\ Never \in FactType /\ Absent \in ItemType
  /\ NoItems \in Catalogue /\ NoTopology \in Topology
BY ClockBase DEF Never, Absent, NoItems, NoTopology, FactType, ItemType, Catalogue, TopologyType, Topology

LEMMA ReadIsTyped ==
  ASSUME world \in Outside, NEW e \in Entities
  PROVE  Read(e) \in ItemType
BY NothingIsTyped, ClockBase DEF Read, Outside, Facts, Absent, ItemType, FactType

LEMMA ObserveIsTyped ==
  ASSUME world \in Outside, NEW e \in Entities, NEW items
  PROVE  Observe(e, items) \in TopologyType
BY DEF Observe, Outside, Facts, TopologyType

LEMMA ProjectIsTyped ==
  ASSUME NEW items \in Catalogue, NEW topo \in Topology
  PROVE  Project(items, topo) \in Catalogue
<1>1. ASSUME NEW e \in Entities
      PROVE  [items[e] EXCEPT !.top = topo[e].at] \in ItemType /\ items[e] \in ItemType
  BY DEF Catalogue, Topology, ItemType, TopologyType
<1> QED BY <1>1 DEF Project, Catalogue

LEMMA MergeFactsIsTyped ==
  ASSUME NEW items \in Catalogue, NEW from \in Catalogue, NEW s \in Sources, NEW which
  PROVE  MergeFacts(items, from, s, which) \in Catalogue
<1>1. ASSUME NEW e \in Entities
      PROVE  /\ [items[e] EXCEPT !.enr[s] = from[e].enr[s]] \in ItemType
             /\ items[e] \in ItemType
  BY DEF Catalogue, ItemType
<1> QED BY <1>1 DEF MergeFacts, Catalogue

LEMMA FetchedIsTyped ==
  ASSUME world \in Outside, NEW items \in Catalogue, NEW s \in Sources
  PROVE  Fetched(items, s) \in Catalogue
<1>1. ASSUME NEW e \in Entities
      PROVE  /\ [items[e] EXCEPT !.enr[s] = [at |-> world.views, id |-> items[e].id]] \in ItemType
             /\ items[e] \in ItemType
  BY DEF Catalogue, ItemType, FactType, Outside
<1> QED BY <1>1 DEF Fetched, Catalogue

LEMMA TransactionsAreTyped ==
  ASSUME NEW d \in Database, NEW items \in Catalogue, NEW topo \in Topology, NEW which
  PROVE  /\ SaveMedia(d, items) \in Database
         /\ SaveTorrents(d, items) \in Database
         /\ ReplaceFiles(d, topo, which) \in Database
BY DEF SaveMedia, SaveTorrents, ReplaceFiles, Database, Catalogue, Topology

LEMMA PublicationsAreTyped ==
  ASSUME disk \in Database, NEW items \in Catalogue, NEW topo \in Topology, NEW which
  PROVE  /\ PublishReconciliation(topo, items) \in Database
         /\ PublishReconciliationDelta(topo, which, items) \in Database
         /\ PublishEnrichment(items) \in Database
         /\ \A rid \in Clock : PublishInventory(rid, items) \in Database
<1>1. ASSUME NEW rid \in Clock
      PROVE  [SaveTorrents(disk, items) EXCEPT !.rid = IF rid = 0 THEN @ ELSE rid] \in Database
  BY TransactionsAreTyped DEF Database
<1> QED BY <1>1, TransactionsAreTyped
    DEF PublishReconciliation, PublishReconciliationDelta, PublishEnrichment, PublishInventory

-----------------------------------------------------------------------------
(* Types.  One lemma per step of a goroutine.                              *)

LEMMA OthersStay ==
  /\ RefreshTyped /\ UNCHANGED refresh => RefreshTyped'
  /\ FilesTyped /\ UNCHANGED <<files, publishMu>> => FilesTyped'
  /\ EnrichTyped /\ UNCHANGED <<enrich, catchUp>> => EnrichTyped'
BY DEF RefreshTyped, FilesTyped, EnrichTyped

LEMMA IdleRefreshTypes ==
  IdleRefresh \in RefreshLocals /\ IdleRefresh.pc = "idle"
BY NothingIsTyped, ClockBase DEF IdleRefresh, RefreshLocals

LEMMA WorldTypes ==
  ASSUME Typed, World
  PROVE  Typed'
<1>1. /\ UNCHANGED <<service, disk, publishMu, actors>>
      /\ world' \in Outside
  <2> USE ClockBase, PublicationAssumption DEF Typed, ServiceTyped
  <2>1. ASSUME NEW e \in Entities, WorldChange(e)
        PROVE  UNCHANGED <<service, disk, publishMu, actors>> /\ world' \in Outside
    <3>1. world.clock + 1 \in Clock
      BY <2>1 DEF WorldChange, Tick, Outside, Clock
    <3>2. PICK new \in Facts : world' = [world EXCEPT !.clock = world.clock + 1, !.facts[e] = new]
      BY <2>1, <3>1 DEF WorldChange, Facts, Outside
    <3> QED BY <2>1, <3>1, <3>2 DEF WorldChange, Outside
  <2>2. ASSUME NEW m \in Media, WorldRematch(m)
        PROVE  UNCHANGED <<service, disk, publishMu, actors>> /\ world' \in Outside
    <3>1. world.clock + 1 \in Clock
      BY <2>2 DEF WorldRematch, Tick, Outside, Clock
    <3>2. m \in Entities
      BY DEF Entities
    <3> QED BY <2>2, <3>1, <3>2 DEF WorldRematch, Outside, Facts
  <2>3. CASE WorldWatch
    <3>1. world.clock + 1 \in Clock
      BY <2>3 DEF WorldWatch, Tick, Outside, Clock
    <3> QED BY <2>3, <3>1 DEF WorldWatch, Outside
  <2> QED BY <2>1, <2>2, <2>3 DEF World
<1> QED BY <1>1, OthersStay DEF Typed, ServiceTyped, service, base, fileVars, actors

LEMMA RefreshFetchTypes ==
  ASSUME Typed, RefreshFetch
  PROVE  Typed'
<1>1. \A e \in Entities :
        (IF e \in Media THEN Read(e) ELSE SyncTorrents[e]) \in ItemType
  BY ReadIsTyped DEF SyncTorrents, Sync, Entities, Typed, ServiceTyped, Database, Catalogue
<1>2. refresh' \in RefreshLocals /\ refresh'.pc = "snapshot"
  BY <1>1, ClockBase DEF RefreshFetch, Typed, ServiceTyped, RefreshTyped, RefreshLocals, Catalogue, Outside
<1> QED BY <1>2, OthersStay DEF RefreshFetch, RefreshOnly, Typed, ServiceTyped, RefreshTyped,
                                service, base, fileVars

LEMMA RefreshSnapshotTypes ==
  ASSUME Typed, RefreshSnapshot
  PROVE  Typed'
<1>1. \A e \in Entities : Preserve(refresh.all[e], catalogue[e]) \in ItemType
  BY DEF Preserve, Typed, ServiceTyped, RefreshTyped, RefreshLocals, Catalogue, ItemType
<1>2. InventoryDelta(catalogue, refresh.all) \cap Media \in SUBSET Entities
  BY DEF InventoryDelta
<1>3. refresh' \in RefreshLocals /\ refresh'.pc = "compare"
  BY <1>1, <1>2 DEF RefreshSnapshot, Typed, RefreshTyped, RefreshLocals, Catalogue
<1> QED BY <1>3, OthersStay DEF RefreshSnapshot, RefreshOnly, Typed, ServiceTyped, RefreshTyped,
                                service, base, fileVars

LEMMA RefreshCompareTypes ==
  ASSUME Typed, RefreshCompare
  PROVE  Typed'
<1> DEFINE affected == refresh.affected \cup (InventoryDelta(catalogue, refresh.all) \cap Torrents)
<1>1. affected \in SUBSET Entities
  BY DEF InventoryDelta, Typed, RefreshTyped, RefreshLocals
<1>2. \E pc \in {"delta", "advance"} : refresh' = [refresh EXCEPT !.pc = pc, !.affected = affected]
  BY DEF RefreshCompare
<1>3. refresh' \in RefreshLocals /\ refresh'.pc # "persistDelta"
  BY <1>1, <1>2 DEF Typed, RefreshTyped, RefreshLocals
<1> QED BY <1>3, OthersStay DEF RefreshCompare, RefreshOnly, Typed, ServiceTyped, RefreshTyped, base

LEMMA RefreshDeltaTypes ==
  ASSUME Typed, RefreshDelta
  PROVE  Typed'
<1>1. DeltaTopology \in Topology
  BY ObserveIsTyped DEF DeltaTopology, Typed, ServiceTyped, Topology
<1>2. refresh' \in RefreshLocals /\ refresh'.pc = "advance"
  BY <1>1 DEF RefreshDelta, Typed, RefreshTyped, RefreshLocals
<1> QED BY <1>2, OthersStay DEF RefreshDelta, RefreshOnly, Typed, ServiceTyped, RefreshTyped,
                                service, base, fileVars

LEMMA RefreshAdvanceTypes ==
  ASSUME Typed, RefreshAdvance
  PROVE  Typed'
<1>1. RefreshTyped'
  BY DEF RefreshAdvance, Typed, RefreshTyped, RefreshLocals
<1>2. generation' \in Nat /\ topologyMoved' \in BOOLEAN
  <2>1. generation' \in {generation, Successor} /\ topologyMoved' = FALSE
    BY DEF RefreshAdvance
  <2>2. Successor \in Nat
    BY DEF Successor, Typed, ServiceTyped
  <2> QED BY <2>1, <2>2 DEF Typed, ServiceTyped
<1>3. reliability' \in Reliability
  <2>1. reliability' \in {reliability, [reliability EXCEPT !.fileModel = "stale"]}
    BY DEF RefreshAdvance
  <2> QED BY <2>1 DEF Typed, ServiceTyped, Reliability, FileModels
<1> QED BY <1>1, <1>2, <1>3, OthersStay DEF RefreshAdvance, RefreshOnly, Typed, ServiceTyped

LEMMA RefreshPersistDeltaTypes ==
  ASSUME Typed, RefreshPersistDelta
  PROVE  Typed'
<1>1. refresh' \in RefreshLocals /\ refresh'.pc = "publish"
  BY DEF RefreshPersistDelta, Typed, RefreshTyped, RefreshLocals
<1>2. disk' \in Database
  <2>1. refresh.delta \in Topology /\ refresh.all \in Catalogue
    BY DEF RefreshPersistDelta, Typed, RefreshTyped, RefreshLocals
  <2> QED BY <2>1, PublicationsAreTyped DEF RefreshPersistDelta, Typed, ServiceTyped
<1> QED BY <1>1, <1>2, OthersStay DEF RefreshPersistDelta, RefreshOnly, Typed, ServiceTyped,
                                      RefreshTyped, service, base, fileVars

LEMMA RefreshPublishBaseTypes ==
  ASSUME Typed, RefreshPublishBase
  PROVE  Typed'
<1>1. refresh' \in RefreshLocals /\ refresh'.pc = "value"
  BY DEF RefreshPublishBase, Typed, RefreshTyped, RefreshLocals
<1>2. /\ topology' \in Topology /\ fileGeneration' \in Nat
      /\ filesKnown' \in BOOLEAN /\ topologyMoved' \in BOOLEAN
  BY DEF RefreshPublishBase, fileVars, Typed, ServiceTyped, RefreshTyped, RefreshLocals
<1>3. reliability' \in Reliability /\ catalogue' \in Catalogue
  BY DEF RefreshPublishBase, Typed, ServiceTyped, RefreshTyped, RefreshLocals, Reliability, FileModels
<1> QED BY <1>1, <1>2, <1>3, OthersStay DEF RefreshPublishBase, RefreshOnly, Typed, ServiceTyped, RefreshTyped

LEMMA RefreshValueTypes ==
  ASSUME Typed, RefreshValue \/ RefreshHistory \/ RefreshRelate \/ RefreshFinish
  PROVE  Typed'
<1>1. CASE RefreshValue
  <2>1. catalogue' \in Catalogue
    BY <1>1 DEF RefreshValue, Typed, ServiceTyped, RefreshTyped, RefreshLocals, Catalogue
  <2>2. refresh' \in RefreshLocals /\ refresh'.pc = "history"
    BY <1>1 DEF RefreshValue, Typed, RefreshTyped, RefreshLocals
  <2> QED BY <1>1, <2>1, <2>2, OthersStay DEF RefreshValue, RefreshOnly, Typed, ServiceTyped,
                                              RefreshTyped, fileVars
<1>2. CASE RefreshHistory
  <2>1. refresh' \in RefreshLocals /\ refresh'.pc \in {"relate", "idle"}
    <3>1. [refresh EXCEPT !.pc = "relate"] \in RefreshLocals
      BY DEF Typed, RefreshTyped, RefreshLocals
    <3>2. [refresh EXCEPT !.pc = "relate"].pc = "relate"
      BY DEF Typed, RefreshTyped, RefreshLocals
    <3> QED BY <1>2, <3>1, <3>2, IdleRefreshTypes DEF RefreshHistory
  <2> QED BY <1>2, <2>1, OthersStay DEF RefreshHistory, RefreshOnly, Typed, ServiceTyped,
                                        RefreshTyped, service, base, fileVars
<1>3. CASE RefreshRelate
  <2>1. Project(refresh.all, topology) \in Catalogue
    BY ProjectIsTyped DEF Typed, ServiceTyped, RefreshTyped, RefreshLocals
  <2>2. refresh' \in RefreshLocals /\ refresh'.pc = "persist"
    BY <1>3, <2>1 DEF RefreshRelate, Typed, RefreshTyped, RefreshLocals
  <2> QED BY <1>3, <2>2, OthersStay DEF RefreshRelate, RefreshOnly, Typed, ServiceTyped,
                                        RefreshTyped, service, base, fileVars
<1>4. CASE RefreshFinish
  <2>1. refresh' = IdleRefresh /\ RefreshTyped'
    BY <1>4, IdleRefreshTypes DEF RefreshFinish, RefreshTyped
  <2>2. catalogue' \in Catalogue /\ reliability' \in Reliability
    BY <1>4 DEF RefreshFinish, AllReliable, Typed, ServiceTyped, RefreshTyped, RefreshLocals, Reliability
  <2> QED BY <1>4, <2>1, <2>2, OthersStay DEF RefreshFinish, RefreshOnly, Typed, ServiceTyped, fileVars
<1> QED BY <1>1, <1>2, <1>3, <1>4

LEMMA RefreshPersistTypes ==
  ASSUME Typed, RefreshPersist
  PROVE  Typed'
<1>1. RefreshTyped'
  <2>1. CASE refresh' = [refresh EXCEPT !.pc = "finish"]
    BY <2>1 DEF Typed, RefreshTyped, RefreshLocals
  <2>2. CASE refresh' = IdleRefresh
    BY <2>2, IdleRefreshTypes DEF RefreshTyped
  <2> QED BY <2>1, <2>2 DEF RefreshPersist
<1>2. disk' \in Database
  <2>1. refresh.rid \in Clock /\ refresh.all \in Catalogue /\ topology \in Topology
    BY DEF Typed, ServiceTyped, RefreshTyped, RefreshLocals
  <2> QED BY <2>1, PublicationsAreTyped DEF RefreshPersist, Typed, ServiceTyped
<1>3. reliability' \in Reliability
  BY DEF RefreshPersist, NotDurable, Typed, ServiceTyped, Reliability
<1> QED BY <1>1, <1>2, <1>3, OthersStay DEF RefreshPersist, RefreshOnly, Typed, ServiceTyped,
                                            base, fileVars

LEMMA RefreshStepTypes ==
  ASSUME Typed, RefreshStep
  PROVE  Typed'
BY RefreshSnapshotTypes, RefreshCompareTypes, RefreshDeltaTypes, RefreshAdvanceTypes, RefreshPersistDeltaTypes,
   RefreshPublishBaseTypes, RefreshValueTypes, RefreshPersistTypes DEF RefreshStep

\* The ways a reconciliation starts, gives up or starts over.
LEMMA FilesRestartTypes ==
  ASSUME Typed
  PROVE  /\ IdleFiles \in FilesLocals /\ StartFull \in FilesLocals
         /\ IdleFiles.pc = "idle" /\ StartFull.pc = "capture"
         /\ \A m \in FileModels : FileModel(m) \in Reliability
BY NothingIsTyped DEF IdleFiles, StartFull, FilesLocals, FileModel, Typed, ServiceTyped, Reliability

LEMMA SupersededTypes ==
  ASSUME Typed, Superseded
  PROVE  files' \in FilesLocals /\ files'.pc \in {"idle", "capture"} /\ reliability' \in Reliability
BY FilesRestartTypes DEF Superseded, DiscardFiles, PromoteFiles, FileModels

LEMMA FilesBeginTypes ==
  ASSUME Typed, FilesBeginFull \/ FilesBeginTargeted \/ FilesPromote \/ FilesFail
  PROVE  Typed'
<1>1. /\ files' \in FilesLocals /\ files'.pc \in {"idle", "capture"} /\ files.pc \notin {"persist", "publish"}
      /\ publishMu' = publishMu /\ reliability' \in Reliability
  <2>1. CASE FilesBeginFull
    BY <2>1, FilesRestartTypes DEF FilesBeginFull, FileModels
  <2>2. CASE FilesBeginTargeted
    <3>1. PICK scope \in SUBSET Entities :
            files' = [StartFull EXCEPT !.mode = "targeted", !.scope = scope]
      BY <2>2 DEF FilesBeginTargeted
    <3>2. files' \in FilesLocals /\ files'.pc = "capture"
      BY <3>1, FilesRestartTypes DEF FilesLocals
    <3> QED BY <2>2, <3>2 DEF FilesBeginTargeted, service, Typed, ServiceTyped
  <2>3. CASE FilesPromote
    BY <2>3, FilesRestartTypes DEF FilesPromote, PromoteFiles, FileModels
  <2>4. CASE FilesFail
    BY <2>4, SupersededTypes DEF FilesFail
  <2> QED BY <2>1, <2>2, <2>3, <2>4
<1>2. FilesTyped'
  BY <1>1 DEF Typed, FilesTyped
<1>3. UNCHANGED <<world, base, fileVars, disk, refresh, enrich, catchUp>>
  BY DEF FilesBeginFull, FilesBeginTargeted, FilesPromote, FilesFail, FilesOnly, service
<1> QED BY <1>1, <1>2, <1>3, OthersStay DEF Typed, ServiceTyped, base, fileVars

LEMMA FilesStaysTyped ==
  ASSUME Typed, FilesTyped', reliability' \in Reliability, disk' \in Database,
         FilesOnly, UNCHANGED <<base, fileVars>>
  PROVE  Typed'
BY OthersStay DEF FilesOnly, Typed, ServiceTyped, base, fileVars

LEMMA FilesReadTypes ==
  ASSUME Typed, FilesCapture \/ FilesWalk \/ FilesCompare
  PROVE  Typed'
<1>1. CASE FilesCapture
  <2>1. FilesTyped'
    BY <1>1 DEF FilesCapture, Typed, ServiceTyped, FilesTyped, FilesLocals
  <2> QED BY <1>1, <2>1, FilesStaysTyped DEF FilesCapture, service, Typed, ServiceTyped
<1>2. CASE FilesWalk
  <2> DEFINE known == [e \in Entities |-> IF files.mode = "targeted" /\ e \in files.scope \cap Torrents
                                         THEN Absent ELSE files.captured[e]]
             walked == [e \in Entities |-> IF files.mode = "full" \/ e \in files.scope
                                          THEN Observe(e, known) ELSE files.topology[e]]
  <2>1. walked \in Topology
    BY ObserveIsTyped DEF Typed, ServiceTyped, FilesTyped, FilesLocals, Topology
  <2>2. files' = [files EXCEPT !.pc = "compare", !.captured = NoItems, !.topology = walked]
    BY <1>2 DEF FilesWalk
  <2>3. FilesTyped'
    BY <1>2, <2>1, <2>2, NothingIsTyped DEF FilesWalk, Typed, FilesTyped, FilesLocals
  <2> QED BY <1>2, <2>3, FilesStaysTyped DEF FilesWalk, service, Typed, ServiceTyped
<1>3. CASE FilesCompare
  <2>1. ScopedItems \in Catalogue
    <3>1. \A e \in Entities : [catalogue[e] EXCEPT !.at = files.topology[e].at] \in ItemType
      <4>1. ASSUME NEW e \in Entities
            PROVE  catalogue[e] \in ItemType /\ files.topology[e].at \in Clock
        BY DEF Typed, ServiceTyped, FilesTyped, FilesLocals, Catalogue, Topology, TopologyType
      <4> QED BY <4>1 DEF ItemType
    <3> QED BY <3>1, NothingIsTyped DEF ScopedItems, Typed, ServiceTyped, Catalogue
  <2>2. Project(ScopedItems, files.topology) \in Catalogue
    BY <2>1, ProjectIsTyped DEF Typed, FilesTyped, FilesLocals
  <2>3. FilesTyped' /\ reliability' \in Reliability
    <3>1. CASE generation = files.generation
      BY <1>3, <2>2, <3>1 DEF FilesCompare, Typed, ServiceTyped, FilesTyped, FilesLocals
    <3>2. CASE generation # files.generation
      BY <1>3, <3>2, SupersededTypes DEF FilesCompare, Typed, FilesTyped
    <3> QED BY <3>1, <3>2
  <2> QED BY <1>3, <2>3, FilesStaysTyped DEF FilesCompare, Typed, ServiceTyped
<1> QED BY <1>1, <1>2, <1>3

LEMMA FilesWriteTypes ==
  ASSUME Typed, FilesLock \/ FilesPersist
  PROVE  Typed'
<1>1. CASE FilesLock
  <2>1. FilesTyped' /\ reliability' \in Reliability
    <3>1. CASE generation = files.generation
      BY <1>1, <3>1 DEF FilesLock, Typed, ServiceTyped, FilesTyped, FilesLocals
    <3>2. CASE generation # files.generation
      BY <1>1, <3>2, SupersededTypes DEF FilesLock, Typed, FilesTyped
    <3> QED BY <3>1, <3>2
  <2> QED BY <1>1, <2>1, FilesStaysTyped DEF FilesLock, Typed, ServiceTyped
<1>2. CASE FilesPersist
  <2>1. Reconciled \in Database
    BY PublicationsAreTyped DEF Reconciled, Typed, ServiceTyped, FilesTyped, FilesLocals
  <2>2. CASE /\ disk' = Reconciled
             /\ files' = [files EXCEPT !.pc = "publish"]
             /\ UNCHANGED <<reliability, publishMu, faults>>
    <3>1. FilesTyped'
      BY <1>2, <2>2 DEF FilesPersist, Typed, FilesTyped, FilesLocals
    <3> QED BY <1>2, <2>1, <2>2, <3>1, FilesStaysTyped DEF FilesPersist, Typed, ServiceTyped
  <2>3. CASE DiscardFiles /\ publishMu' = None /\ UNCHANGED disk
    <3>1. FilesTyped' /\ reliability' \in Reliability
      BY <2>3, FilesRestartTypes, PublicationAssumption DEF DiscardFiles, FileModels, FilesTyped
    <3> QED BY <1>2, <2>3, <3>1, FilesStaysTyped DEF FilesPersist, Typed, ServiceTyped
  <2> QED BY <1>2, <2>2, <2>3 DEF FilesPersist
<1> QED BY <1>1, <1>2

LEMMA FilesPublishTypes ==
  ASSUME Typed, FilesPublish
  PROVE  Typed'
<1>1. CASE generation # files.generation
  <2>1. FilesTyped' /\ reliability' \in Reliability
    BY <1>1, SupersededTypes, PublicationAssumption DEF FilesPublish, FilesTyped
  <2> QED BY <1>1, <2>1, FilesStaysTyped DEF FilesPublish, Typed, ServiceTyped
<1>2. CASE generation = files.generation
  <2>1. FilesTyped' /\ reliability' \in Reliability
    BY <1>2, FilesRestartTypes, PublicationAssumption DEF FilesPublish, FileModels, FilesTyped
  <2>2. /\ topology' \in Topology /\ fileGeneration' \in Nat /\ catalogue' \in Catalogue
        /\ topologyMoved' = TRUE /\ filesKnown' = TRUE /\ UNCHANGED <<generation, disk>>
    BY <1>2 DEF FilesPublish, Typed, FilesTyped, FilesLocals
  <2> QED BY <1>2, <2>1, <2>2, OthersStay DEF FilesPublish, FilesOnly, Typed, ServiceTyped
<1> QED BY <1>1, <1>2

LEMMA FilesStepTypes ==
  ASSUME Typed, FilesStep
  PROVE  Typed'
BY FilesReadTypes, FilesBeginTypes, FilesWriteTypes, FilesPublishTypes DEF FilesStep

LEMMA IdleEnrichTypes ==
  /\ IdleEnrich \in EnrichLocals /\ IdleEnrich.pc = "idle"
  /\ IdleCatchUp \in CatchUpLocals
BY NothingIsTyped DEF IdleEnrich, IdleCatchUp, EnrichLocals, CatchUpLocals

LEMMA EnrichTypes ==
  ASSUME Typed, (\E s \in Sources : EnrichStart(s)) \/ EnrichFail \/ EnrichPublish
  PROVE  Typed'
<1>1. ASSUME NEW s \in Sources, EnrichStart(s)
      PROVE  Typed'
  <2>1. enrich' \in EnrichLocals /\ enrich'.source \in Sources
    BY <1>1, FetchedIsTyped DEF EnrichStart, EnrichLocals, Typed, ServiceTyped
  <2>2. reliability' \in Reliability
    BY <1>1 DEF EnrichStart, Typed, ServiceTyped, Reliability, Verdicts
  <2>3. EnrichTyped'
    BY <1>1, <2>1 DEF EnrichStart, EnrichOnly, Typed, EnrichTyped
  <2> QED BY <1>1, <2>2, <2>3, OthersStay DEF EnrichStart, EnrichOnly, Typed, ServiceTyped, base, fileVars
<1>2. CASE EnrichFail
  <2>1. reliability' \in Reliability
    BY <1>2 DEF EnrichFail, Typed, ServiceTyped, EnrichTyped, Reliability, Verdicts
  <2>2. EnrichTyped'
    BY <1>2, IdleEnrichTypes DEF EnrichFail, EnrichOnly, Typed, EnrichTyped
  <2> QED BY <1>2, <2>1, <2>2, OthersStay DEF EnrichFail, EnrichOnly, Typed, ServiceTyped, base, fileVars
<1>3. CASE EnrichPublish
  <2>1. catalogue' \in Catalogue
    BY <1>3, MergeFactsIsTyped DEF EnrichPublish, Typed, ServiceTyped, EnrichTyped, EnrichLocals
  <2>2. disk' \in Database
    BY <1>3, <2>1, PublicationsAreTyped, NothingIsTyped DEF EnrichPublish, Typed, ServiceTyped
  <2>3. reliability' \in Reliability
    BY <1>3 DEF EnrichPublish, Typed, ServiceTyped, EnrichTyped, Reliability, Verdicts
  <2>4. EnrichTyped'
    BY <1>3, IdleEnrichTypes DEF EnrichPublish, Typed, EnrichTyped
  <2> QED BY <1>3, <2>1, <2>2, <2>3, <2>4, OthersStay DEF EnrichPublish, Typed, ServiceTyped, fileVars
<1> QED BY <1>1, <1>2, <1>3

LEMMA CatchUpMergeIsTyped ==
  ASSUME Typed, catchUp.pc # "idle", NEW done, CatchUpMerge(done)
  PROVE  catalogue' \in Catalogue /\ disk' \in Database
<1> DEFINE from == [e \in Entities |->
                      IF e \in done THEN catchUp.captured[e]
                      ELSE [catchUp.captured[e] EXCEPT !.enr[catchUp.pc] = Never]]
<1>1. catchUp.pc \in Sources /\ catchUp.captured \in Catalogue
  BY DEF Typed, EnrichTyped, CatchUpLocals
<1>2. from \in Catalogue
  BY <1>1, NothingIsTyped DEF Catalogue, ItemType
<1>3. MergeFacts(catalogue, from, catchUp.pc, catchUp.pending) \in Catalogue
  BY <1>1, <1>2, MergeFactsIsTyped DEF Typed, ServiceTyped
<1>4. catalogue' = MergeFacts(catalogue, from, catchUp.pc, catchUp.pending)
      /\ disk' = PublishEnrichment(MergeFacts(catalogue, from, catchUp.pc, catchUp.pending))
  BY DEF CatchUpMerge
<1> QED BY <1>3, <1>4, PublicationsAreTyped, NothingIsTyped DEF Typed, ServiceTyped

LEMMA CatchUpTypes ==
  ASSUME Typed, (\E s \in Sources : CatchUpStart(s)) \/ CatchUpPublish \/ CatchUpFail
  PROVE  Typed'
<1>1. ASSUME NEW s \in Sources, CatchUpStart(s)
      PROVE  Typed'
  <2>1. catchUp' \in CatchUpLocals
    BY <1>1, FetchedIsTyped DEF CatchUpStart, CatchUpLocals, Typed, ServiceTyped
  <2>2. EnrichTyped'
    BY <1>1, <2>1 DEF CatchUpStart, Typed, EnrichTyped
  <2> QED BY <1>1, <2>2, OthersStay DEF CatchUpStart, Typed, ServiceTyped, service, base, fileVars
<1>2. CASE CatchUpPublish
  <2>1. catalogue' \in Catalogue /\ disk' \in Database
    BY <1>2, CatchUpMergeIsTyped DEF CatchUpPublish, Typed, ServiceTyped
  <2>2. EnrichTyped'
    BY <1>2, IdleEnrichTypes DEF CatchUpPublish, CatchUpOnly, Typed, EnrichTyped
  <2> QED BY <1>2, <2>1, <2>2, OthersStay DEF CatchUpPublish, CatchUpOnly, Typed, ServiceTyped, fileVars
<1>3. CASE CatchUpFail
  <2>1. catalogue' \in Catalogue /\ disk' \in Database
    BY <1>3, CatchUpMergeIsTyped DEF CatchUpFail, Typed, ServiceTyped
  <2>2. EnrichTyped'
    BY <1>3, IdleEnrichTypes DEF CatchUpFail, CatchUpOnly, Typed, EnrichTyped
  <2> QED BY <1>3, <2>1, <2>2, OthersStay DEF CatchUpFail, CatchUpOnly, Typed, ServiceTyped, fileVars
<1> QED BY <1>1, <1>2, <1>3

LEMMA RestartTypes ==
  ASSUME Typed, Restart
  PROVE  Typed'
<1>1. /\ catalogue' \in Catalogue /\ topology' \in Topology /\ generation' \in Nat
      /\ fileGeneration' \in Nat /\ topologyMoved' \in BOOLEAN /\ filesKnown' \in BOOLEAN
  BY ProjectIsTyped DEF Restart, Loaded, Typed, ServiceTyped, Database
<1>2. reliability' \in Reliability
  BY DEF Restart, Loaded, Typed, ServiceTyped, Database, Reliability, FileModels, Verdicts
<1>3. RefreshTyped' /\ FilesTyped' /\ EnrichTyped'
  BY IdleRefreshTypes, FilesRestartTypes, IdleEnrichTypes, PublicationAssumption
     DEF Restart, RefreshTyped, FilesTyped, EnrichTyped
<1> QED BY <1>1, <1>2, <1>3 DEF Restart, Typed, ServiceTyped

LEMMA InitTypes ==
  Init => Typed
<1> SUFFICES ASSUME Init PROVE Typed
  OBVIOUS
<1>1. ServiceTyped
  <2>1. \A e \in Entities : [present |-> e \in Existing, at |-> 1, id |-> 1] \in Facts
    <3>1. \A e \in Entities : (e \in Existing) \in BOOLEAN
      OBVIOUS
    <3> QED BY <3>1, ClockBase DEF Facts
  <2>2. world \in Outside
    BY <2>1, ClockBase DEF Init, Outside
  <2>3. reliability \in Reliability /\ disk \in Database
    BY NothingIsTyped, ClockBase DEF Init, Reliability, FileModels, Verdicts, Database
  <2> QED BY <2>2, <2>3, NothingIsTyped DEF Init, ServiceTyped
<1>2. RefreshTyped /\ EnrichTyped
  BY IdleRefreshTypes, IdleEnrichTypes DEF Init, RefreshTyped, EnrichTyped
<1>3. FilesTyped
  BY NothingIsTyped, PublicationAssumption DEF Init, FilesTyped, IdleFiles, FilesLocals
<1> QED BY <1>1, <1>2, <1>3 DEF Typed

LEMMA NextTypes ==
  ASSUME Typed, [Next]_vars
  PROVE  Typed'
<1>1. CASE UNCHANGED vars
  BY <1>1, OthersStay DEF vars, service, base, fileVars, actors, Typed, ServiceTyped
<1>2. CASE Next
  BY <1>2, WorldTypes, RestartTypes, RefreshFetchTypes, RefreshStepTypes, FilesBeginTypes,
     FilesStepTypes, EnrichTypes, CatchUpTypes DEF Next
<1> QED BY <1>1, <1>2

LEMMA AlwaysTyped ==
  Spec => []Typed
BY InitTypes, NextTypes, PTL DEF Spec

(* Whatever the services, the file system and the database do, memory,     *)
(* database and the locals of the running goroutines keep their types, and *)
(* publishMu is held exactly while a reconciliation writes and publishes:  *)
(* no return leaves it locked (reconcile.go, reconcile_targeted.go).       *)
THEOREM PublicationTypeCorrect == Spec => []PublicationTypeOK
<1>1. Typed => PublicationTypeOK
  BY DEF Typed, ServiceTyped, RefreshTyped, FilesTyped, Reliability, Database, RefreshLocals,
         FilesLocals, PublicationTypeOK
<1> QED BY <1>1, AlwaysTyped, PTL

-----------------------------------------------------------------------------
(* A topology called reliable belongs to the published generation.         *)
(*                                                                         *)
(* The exception for a refresh that brings a delta is not inductive: when  *)
(* it is over the topology must have been published, called stale, or      *)
(* never have been out of date.  Current says which of them is to come.    *)

DeltaExpected ==
  DeltaOnItsWay /\ ~topologyMoved /\ (refresh.delta # None \/ refresh.failed)

Current ==
  reliability.fileModel = "reliable" =>
    filesKnown /\ (fileGeneration = generation \/ DeltaExpected)

\* Steps that have no part in it.
LEMMA CurrentStays ==
  ASSUME Current, UNCHANGED <<generation, fileVars, refresh>>,
         reliability'.fileModel \in {reliability.fileModel, "stale", "pending"}
  PROVE  Current'
BY DEF Current, DeltaExpected, DeltaOnItsWay, fileVars

LEMMA RefreshKeepsCurrent ==
  ASSUME Typed, Current, RefreshFetch \/ RefreshStep
  PROVE  Current'
<1> USE DEF Current, DeltaExpected, DeltaOnItsWay
<1>1. refresh \in RefreshLocals /\ reliability \in Reliability
  BY DEF Typed, ServiceTyped, RefreshTyped
<1>2. CASE RefreshFetch \/ RefreshDelta \/ RefreshValue \/ RefreshHistory \/ RefreshRelate
  BY <1>2 DEF RefreshFetch, RefreshDelta, RefreshValue, RefreshHistory, RefreshRelate,
              service, base, fileVars
<1>3. CASE RefreshSnapshot \/ RefreshCompare
  BY <1>3 DEF RefreshSnapshot, RefreshCompare, service, base, fileVars
<1>4. CASE RefreshAdvance
  <2>1. UNCHANGED <<fileGeneration, filesKnown>> /\ topologyMoved' = FALSE /\ refresh.pc = "advance"
    BY <1>4 DEF RefreshAdvance
  <2>2. CASE Fingerprint(refresh.all) = baseFingerprint
    BY <1>4, <2>1, <2>2 DEF RefreshAdvance
  <2>3. CASE Fingerprint(refresh.all) # baseFingerprint /\ (topologyMoved \/ refresh.delta = None)
    BY <1>1, <1>4, <2>1, <2>3 DEF RefreshAdvance, Reliability
  <2>4. CASE Fingerprint(refresh.all) # baseFingerprint /\ ~topologyMoved /\ refresh.delta # None
    BY <1>1, <1>4, <2>1, <2>4 DEF RefreshAdvance, RefreshLocals
  <2> QED BY <2>2, <2>3, <2>4
<1>5. CASE RefreshPersistDelta
  BY <1>1, <1>5 DEF RefreshPersistDelta, RefreshLocals, service, base, fileVars
<1>6. CASE RefreshPublishBase
  <2>1. CASE ~topologyMoved /\ refresh.delta # None
    BY <1>1, <1>6, <2>1 DEF RefreshPublishBase
  <2>2. CASE topologyMoved \/ refresh.delta = None
    BY <1>1, <1>6, <2>2 DEF RefreshPublishBase, fileVars, Reliability
  <2> QED BY <2>1, <2>2
<1>7. CASE RefreshPersist \/ RefreshFinish
  BY <1>1, <1>7 DEF RefreshPersist, RefreshFinish, NotDurable, Reliability, base, fileVars
<1> QED BY <1>2, <1>3, <1>4, <1>5, <1>6, <1>7 DEF RefreshStep

LEMMA FilesKeepCurrent ==
  ASSUME Typed, Current, FilesBeginFull \/ FilesBeginTargeted \/ FilesStep \/ FilesFail
  PROVE  Current'
<1>1. reliability \in Reliability
  BY DEF Typed, ServiceTyped
<1>2. CASE FilesPublish /\ generation = files.generation
  BY <1>1, <1>2 DEF FilesPublish, FileModel, Current
<1>3. CASE ~(FilesPublish /\ generation = files.generation)
  <2>1. Superseded \/ PromoteFiles \/ DiscardFiles
          => reliability'.fileModel \in {"stale", "pending"}
    BY <1>1 DEF Superseded, PromoteFiles, DiscardFiles, FileModel, Reliability
  <2>2. UNCHANGED <<generation, fileVars, refresh>>
    BY <1>3 DEF FilesBeginFull, FilesBeginTargeted, FilesStep, FilesFail, FilesCapture, FilesWalk,
                FilesPromote, FilesCompare, FilesLock, FilesPersist, FilesPublish, FilesOnly,
                service, base
  <2>3. reliability'.fileModel \in {reliability.fileModel, "stale", "pending"}
    BY <1>1, <1>3, <2>1
       DEF FilesBeginFull, FilesBeginTargeted, FilesStep, FilesFail, FilesCapture, FilesWalk,
           FilesPromote, FilesCompare, FilesLock, FilesPersist, FilesPublish, FileModel,
           service, Reliability
  <2> QED BY <2>2, <2>3, CurrentStays
<1> QED BY <1>2, <1>3

LEMMA OthersKeepCurrent ==
  ASSUME Typed, Current,
         \/ World \/ EnrichFail \/ EnrichPublish \/ CatchUpPublish \/ CatchUpFail
         \/ \E s \in Sources : EnrichStart(s) \/ CatchUpStart(s)
  PROVE  Current'
<1>1. reliability \in Reliability
  BY DEF Typed, ServiceTyped
<1>2. UNCHANGED <<generation, fileVars, refresh>>
  BY DEF World, WorldChange, WorldRematch, WorldWatch, EnrichStart, EnrichFail, EnrichPublish,
         CatchUpStart, CatchUpPublish, CatchUpFail, CatchUpOnly, EnrichOnly, service, base, actors
<1>3. reliability'.fileModel = reliability.fileModel
  BY <1>1 DEF World, WorldChange, WorldRematch, WorldWatch, EnrichStart, EnrichFail, EnrichPublish,
              CatchUpStart, CatchUpPublish, CatchUpFail, CatchUpOnly, service, Reliability
<1> QED BY <1>2, <1>3, CurrentStays

LEMMA NextKeepsCurrent ==
  ASSUME Typed, Current, [Next]_vars
  PROVE  Current'
<1>1. CASE UNCHANGED vars
  BY <1>1, CurrentStays DEF vars, service, base, actors
<1>2. CASE Restart
  BY <1>2 DEF Restart, Loaded, Current
<1>3. CASE Next /\ ~Restart
  BY <1>3, RefreshKeepsCurrent, FilesKeepCurrent, OthersKeepCurrent DEF Next
<1> QED BY <1>1, <1>2, <1>3

(* Whichever of a refresh, its delta and a reconciliation publishes first, *)
(* and whichever of them fails, a topology is not called reliable for a    *)
(* generation it was not read for.                                         *)
THEOREM ReliableTopologyIsCurrent == Spec => []ReliableIsCurrent
<1>1. Init => Current
  BY DEF Init, Current
<1>2. Current => ReliableIsCurrent
  BY DEF Current, DeltaExpected, ReliableIsCurrent
<1> QED BY <1>1, <1>2, AlwaysTyped, NextKeepsCurrent, PTL DEF Spec

-----------------------------------------------------------------------------
(* The valuation flag awaits the flags it was computed from.               *)
(*                                                                         *)
(* RefreshFinish and EnrichPublish raise the flag without looking at the   *)
(* inventory's.  They need not: it is up when they start to count on it,   *)
(* and until they are through nobody else can withdraw it, since the tasks *)
(* exclude each other (BaseNotWithdrawn).  Flags only: whether the base is *)
(* on disk is another matter.                                              *)

BaseNotWithdrawn ==
  /\ refresh.pc \in {"value", "history", "relate", "persist", "finish"} => reliability.inventory
  /\ enrich.pc = "publish" => reliability.inventory /\ refresh.pc = "idle"

FlagsAgree == ValuationAwaitsSources /\ BaseNotWithdrawn

LEMMA FlagsStay ==
  ASSUME FlagsAgree, UNCHANGED <<refresh, enrich>>,
         reliability'.inventory = reliability.inventory,
         reliability'.valuation = reliability.valuation,
         reliability'.enrichment = reliability.enrichment
  PROVE  FlagsAgree'
BY DEF FlagsAgree, ValuationAwaitsSources, BaseNotWithdrawn, AllReliable

LEMMA RefreshKeepsFlags ==
  ASSUME Typed, FlagsAgree, RefreshFetch \/ RefreshStep
  PROVE  FlagsAgree'
<1> USE DEF FlagsAgree, ValuationAwaitsSources, BaseNotWithdrawn, AllReliable
<1>1. /\ refresh \in RefreshLocals /\ enrich \in EnrichLocals /\ reliability \in Reliability
      /\ IdleRefresh.pc = "idle" /\ enrich' = enrich
  BY IdleRefreshTypes
     DEF Typed, ServiceTyped, RefreshTyped, EnrichTyped, RefreshFetch, RefreshStep, RefreshOnly,
         RefreshSnapshot, RefreshCompare, RefreshDelta, RefreshAdvance, RefreshPersistDelta, RefreshPublishBase,
         RefreshValue, RefreshHistory, RefreshRelate, RefreshPersist, RefreshFinish
<1>2. CASE RefreshFetch \/ RefreshSnapshot \/ RefreshCompare \/ RefreshDelta \/ RefreshPersistDelta
  BY <1>1, <1>2 DEF RefreshFetch, RefreshSnapshot, RefreshCompare, RefreshDelta, RefreshPersistDelta,
                    RefreshLocals, EnrichLocals, service
<1>3. CASE RefreshAdvance
  BY <1>1, <1>3 DEF RefreshAdvance, RefreshLocals, EnrichLocals, Reliability
<1>4. CASE RefreshPublishBase
  BY <1>1, <1>4 DEF RefreshPublishBase, RefreshLocals, EnrichLocals, Reliability
<1>5. CASE RefreshValue \/ RefreshHistory \/ RefreshRelate
  BY <1>1, <1>5 DEF RefreshValue, RefreshHistory, RefreshRelate, RefreshLocals, EnrichLocals, service
<1>6. CASE RefreshPersist
  BY <1>1, <1>6 DEF RefreshPersist, NotDurable, RefreshLocals, EnrichLocals, Reliability
<1>7. CASE RefreshFinish
  BY <1>1, <1>7 DEF RefreshFinish, RefreshLocals, EnrichLocals, Reliability
<1> QED BY <1>2, <1>3, <1>4, <1>5, <1>6, <1>7 DEF RefreshStep

LEMMA FilesKeepFlags ==
  ASSUME Typed, FlagsAgree, FilesBeginFull \/ FilesBeginTargeted \/ FilesStep \/ FilesFail
  PROVE  FlagsAgree'
<1>1. UNCHANGED <<refresh, enrich>>
  BY DEF FilesBeginFull, FilesBeginTargeted, FilesStep, FilesFail, FilesCapture, FilesWalk,
         FilesPromote, FilesCompare, FilesLock, FilesPersist, FilesPublish, FilesOnly
<1>2. reliability' = reliability \/ \E m \in FileModels : reliability' = FileModel(m)
  BY DEF FilesBeginFull, FilesBeginTargeted, FilesStep, FilesFail, FilesCapture, FilesWalk,
         FilesPromote, FilesCompare, FilesLock, FilesPersist, FilesPublish,
         Superseded, DiscardFiles, PromoteFiles, FileModels, service
<1> QED BY <1>1, <1>2, FlagsStay DEF FileModel, Typed, ServiceTyped, Reliability

LEMMA EnrichKeepsFlags ==
  ASSUME Typed, FlagsAgree,
         \/ EnrichFail \/ EnrichPublish \/ CatchUpPublish \/ CatchUpFail
         \/ \E s \in Sources : EnrichStart(s) \/ CatchUpStart(s)
  PROVE  FlagsAgree'
<1> USE DEF FlagsAgree, ValuationAwaitsSources, BaseNotWithdrawn, AllReliable
<1>1. /\ refresh \in RefreshLocals /\ enrich \in EnrichLocals /\ reliability \in Reliability
      /\ IdleEnrich.pc = "idle" /\ refresh' = refresh
  BY IdleEnrichTypes
     DEF Typed, ServiceTyped, RefreshTyped, EnrichTyped, EnrichFail, EnrichPublish, EnrichStart,
         EnrichOnly, CatchUpStart, CatchUpPublish, CatchUpFail, CatchUpOnly
<1>2. CASE CatchUpPublish \/ CatchUpFail \/ \E s \in Sources : CatchUpStart(s)
  BY <1>2, FlagsStay DEF CatchUpStart, CatchUpPublish, CatchUpFail, CatchUpOnly, service
<1>3. ASSUME NEW s \in Sources, EnrichStart(s)
      PROVE  FlagsAgree'
  BY <1>1, <1>3 DEF EnrichStart, Reliability
<1>4. CASE EnrichFail
  BY <1>1, <1>4 DEF EnrichFail, Reliability, EnrichLocals
<1>5. CASE EnrichPublish
  <2>1. enrich.source \in Sources /\ reliability.inventory
    BY <1>5 DEF EnrichPublish, Typed, EnrichTyped
  <2> QED BY <1>1, <1>5, <2>1 DEF EnrichPublish, Reliability
<1> QED BY <1>2, <1>3, <1>4, <1>5

LEMMA NextKeepsFlags ==
  ASSUME Typed, FlagsAgree, [Next]_vars
  PROVE  FlagsAgree'
<1>1. CASE UNCHANGED vars \/ World
  BY <1>1, FlagsStay DEF vars, World, WorldChange, WorldRematch, WorldWatch, service, actors
<1>2. CASE Restart
  BY <1>2, IdleRefreshTypes, IdleEnrichTypes
     DEF Restart, Loaded, FlagsAgree, ValuationAwaitsSources, BaseNotWithdrawn, AllReliable
<1>3. CASE Next /\ ~World /\ ~Restart
  BY <1>3, RefreshKeepsFlags, FilesKeepFlags, EnrichKeepsFlags DEF Next
<1> QED BY <1>1, <1>2, <1>3

(* Whichever task finishes last, whatever fails on the way, the valuation  *)
(* flag is up only while every source is flagged reliable and no failed    *)
(* save has withdrawn the inventory since a base was last published        *)
(* (enrichment.go:35-70, refresh.go:667-675, service.go:418-425).  It does *)
(* not say that this base is on disk.                                      *)
THEOREM ValuationAwaitsItsSources == Spec => []ValuationAwaitsSources
<1>1. Init => FlagsAgree
  BY IdleRefreshTypes, IdleEnrichTypes DEF Init, FlagsAgree, ValuationAwaitsSources, BaseNotWithdrawn
<1>2. FlagsAgree => ValuationAwaitsSources
  BY DEF FlagsAgree
<1> QED BY <1>1, <1>2, AlwaysTyped, NextKeepsFlags, PTL DEF Spec
-----------------------------------------------------------------------------
(* A published topology never goes back.                                   *)
(*                                                                         *)
(* Everything that is known of an entity's files was true of it once       *)
(* (Observed).  Two observations are on their way at most: that of a       *)
(* refresh, newer than the published one until the topology moves (Newer), *)
(* and that of a full reconciliation, which may be older than the delta of *)
(* a refresh - but then the refresh advances the generation before it      *)
(* publishes, and the reconciliation discards what it has.  So whatever    *)
(* has the generation of the base is newer than what is published and than *)
(* what a refresh is about to publish (Latest).                            *)
NoNewer(old, new) == \A e \in Entities : old[e].at <= new[e].at
Observed ==
  /\ \A e \in Entities : world.facts[e].at <= world.clock
  /\ NoNewer(topology, world.facts) /\ NoNewer(disk.topology, world.facts)
  /\ refresh.delta # None => NoNewer(refresh.delta, world.facts)
  /\ NoNewer(files.topology, world.facts)
Pending == refresh.delta # None /\ ~topologyMoved
Newer ==
  /\ refresh.delta # None => refresh.pc \in {"advance", "persistDelta", "publish"}
  /\ Pending => NoNewer(topology, refresh.delta)
  /\ refresh.pc = "delta" \/ (refresh.pc = "advance" /\ refresh.delta # None) =>
       topologyMoved \/ Fingerprint(refresh.all) # baseFingerprint
Walked == files.pc \in {"compare", "lock", "persist", "publish"}
Latest ==
  /\ Walked \/ files.pc = "walk" => files.generation <= generation
  /\ Walked /\ files.mode = "full" /\ files.generation = generation =>
       /\ NoNewer(topology, files.topology)
       /\ Pending /\ DeltaOnItsWay => NoNewer(refresh.delta, files.topology)
Forward == Observed /\ Newer /\ Latest

(* The last number of a generation is not reached, hence none is given out *)
(* again: the counter of the code has 64 bits.                             *)
GenerationsLast == generation < MaxGeneration

LEMMA Dates ==
  ASSUME Typed
  PROVE  /\ \A e \in Entities : /\ topology[e].at \in Nat /\ files.topology[e].at \in Nat
                                /\ disk.topology[e].at \in Nat /\ world.facts[e].at \in Nat
                                /\ refresh.delta # None => refresh.delta[e].at \in Nat
         /\ world.clock \in Nat
<1>1. /\ topology \in Topology /\ files.topology \in Topology /\ disk.topology \in Topology
      /\ world \in Outside /\ refresh.delta \in Topology \cup {None}
  BY DEF Typed, ServiceTyped, RefreshTyped, FilesTyped, FilesLocals, RefreshLocals, Database
<1>2. \A t \in Topology : \A e \in Entities : t[e].at \in Nat
  BY DEF Topology, TopologyType, Clock
<1>3. world.clock \in Nat /\ \A e \in Entities : world.facts[e].at \in Nat
  BY <1>1 DEF Outside, Facts, Clock
<1> QED BY <1>1, <1>2, <1>3

LEMMA ObservedNow ==
  ASSUME NEW e \in Entities, NEW items
  PROVE  Observe(e, items).at = world.facts[e].at
BY DEF Observe

\* What the transactions write of the topology.
LEMMA DeltaSaved ==
  ASSUME disk \in Database, NEW topo, NEW which, NEW items, NEW e \in Entities
  PROVE  PublishReconciliationDelta(topo, which, items).topology[e] \in {disk.topology[e], topo[e]}
BY DEF PublishReconciliationDelta, SaveMedia, SaveTorrents, ReplaceFiles, Database, Topology

LEMMA AllSaved ==
  ASSUME disk \in Database, NEW topo, NEW items, NEW e \in Entities
  PROVE  PublishReconciliation(topo, items).topology[e] = topo[e]
BY DEF PublishReconciliation, SaveMedia, SaveTorrents, ReplaceFiles, Database, Topology

LEMMA InventorySaved ==
  ASSUME disk \in Database, NEW rid, NEW items
  PROVE  /\ PublishInventory(rid, items).topology = disk.topology
         /\ PublishEnrichment(items).topology = disk.topology
BY DEF PublishInventory, PublishEnrichment, SaveMedia, SaveTorrents, Database

-----------------------------------------------------------------------------
LEMMA WorldGoesOn ==
  ASSUME Typed, Forward, World
  PROVE  Forward'
<1>1. UNCHANGED <<service, disk, publishMu, actors>>
  BY DEF World, WorldChange, WorldRematch, WorldWatch
<1>2. /\ world'.clock \in Nat /\ world'.clock >= world.clock
      /\ \A e \in Entities : /\ world'.facts[e].at \in Nat /\ world'.facts[e].at >= world.facts[e].at
                             /\ world'.facts[e].at <= world'.clock
  <2>1. world \in Outside
    BY DEF Typed, ServiceTyped
  <2>2. CASE \E e \in Entities : WorldChange(e)
    BY <2>1, <2>2, Dates DEF WorldChange, Outside, Forward, Observed
  <2>3. CASE \E m \in Media : WorldRematch(m)
    BY <2>1, <2>3, Dates DEF WorldRematch, Outside, Facts, Entities, Forward, Observed
  <2>4. CASE WorldWatch
    BY <2>1, <2>4, Dates DEF WorldWatch, Outside, Forward, Observed
  <2> QED BY <2>2, <2>3, <2>4 DEF World
<1>3. Newer' /\ Latest'
  BY <1>1 DEF Forward, Newer, Latest, Pending, Walked, DeltaOnItsWay, service, base, fileVars, actors, NoNewer
<1>4. Observed'
  BY <1>1, <1>2, Dates DEF Forward, Observed, NoNewer, service, fileVars, actors
<1> QED BY <1>3, <1>4 DEF Forward

\* Steps of a refresh that leave the published topology and its own delta.
LEMMA RefreshReads ==
  ASSUME Typed, Forward,
         UNCHANGED <<world, topology, generation, baseFingerprint, topologyMoved, files>>,
         refresh'.delta = refresh.delta, refresh.delta = None,
         disk'.topology = disk.topology, refresh'.pc \notin {"advance", "delta"}
  PROVE  Forward'
BY DEF Forward, Observed, Newer, Latest, Pending, Walked, DeltaOnItsWay, NoNewer

LEMMA RefreshGoesOn ==
  ASSUME Typed, Forward, GenerationsLast, RefreshFetch \/ RefreshStep
  PROVE  Forward' /\ NoNewer(topology, topology')
<1>1. /\ refresh \in RefreshLocals /\ generation \in Nat /\ UNCHANGED <<world, files>>
      /\ \A e \in Entities : topology[e].at <= topology[e].at
  BY Dates DEF Typed, ServiceTyped, RefreshTyped, RefreshFetch, RefreshStep, RefreshOnly, RefreshSnapshot, RefreshCompare,
         RefreshDelta, RefreshAdvance, RefreshPersistDelta, RefreshPublishBase, RefreshValue,
         RefreshHistory, RefreshRelate, RefreshPersist, RefreshFinish
<1>2. CASE RefreshFetch
  <2>1. /\ UNCHANGED <<topology, generation, baseFingerprint, topologyMoved, disk>>
        /\ refresh'.delta = refresh.delta /\ refresh.delta = None /\ refresh'.pc = "snapshot"
    BY <1>1, <1>2 DEF RefreshFetch, service, base, fileVars, Forward, Newer, RefreshLocals
  <2> QED BY <1>1, <2>1, RefreshReads DEF NoNewer
<1>3. CASE RefreshSnapshot
  <2>1. /\ UNCHANGED <<topology, generation, baseFingerprint, topologyMoved, disk>>
        /\ refresh'.delta = refresh.delta /\ refresh.delta = None /\ refresh'.pc = "compare"
    BY <1>1, <1>3 DEF RefreshSnapshot, service, base, fileVars, Forward, Newer, RefreshLocals
  <2> QED BY <1>1, <2>1, RefreshReads DEF NoNewer
<1>9. CASE RefreshCompare
  <2>1. /\ UNCHANGED <<topology, generation, baseFingerprint, disk>> /\ ~topologyMoved'
        /\ refresh'.delta = refresh.delta /\ refresh.delta = None
        /\ refresh'.pc \in {"delta", "advance"} /\ refresh'.all = refresh.all
        /\ refresh'.pc = "delta" => Fingerprint(refresh.all) # baseFingerprint
    BY <1>1, <1>9 DEF RefreshCompare, base, Forward, Newer, RefreshLocals
  <2> QED BY <1>1, <2>1 DEF Forward, Observed, Newer, Latest, Pending, Walked, DeltaOnItsWay, NoNewer
<1>4. CASE RefreshDelta
  <2>1. /\ UNCHANGED <<topology, generation, baseFingerprint, topologyMoved, disk>>
        /\ refresh.delta = None /\ refresh'.pc = "advance" /\ refresh'.all = refresh.all
        /\ refresh.pc = "delta" /\ refresh'.delta \in {None, DeltaTopology}
    BY <1>1, <1>4 DEF RefreshDelta, service, base, fileVars, Forward, Newer, RefreshLocals
  <2>2. \A e \in Entities : /\ topology[e].at <= DeltaTopology[e].at
                            /\ DeltaTopology[e].at <= world.facts[e].at
    BY Dates, ObservedNow DEF DeltaTopology, Forward, Observed, NoNewer
  <2> QED BY <1>1, <2>1, <2>2 DEF Forward, Observed, Newer, Latest, Pending, Walked, DeltaOnItsWay, NoNewer
<1>5. CASE RefreshAdvance
  <2>1. /\ UNCHANGED <<topology, disk>> /\ ~topologyMoved' /\ refresh.pc = "advance"
        /\ refresh'.delta = (IF topologyMoved THEN None ELSE refresh.delta)
        /\ refresh'.pc = (IF refresh'.delta = None THEN "publish" ELSE "persistDelta")
        /\ generation' = (IF Fingerprint(refresh.all) # baseFingerprint THEN generation + 1 ELSE generation)
    BY <1>1, <1>5 DEF RefreshAdvance, GenerationsLast, Successor, RefreshLocals
  <2>2. refresh'.delta # None => generation' = generation + 1
    BY <2>1 DEF Forward, Newer
  <2>3. generation' >= generation
    BY <1>1, <2>1
  <2>4. files.generation \in Nat
    BY DEF Typed, FilesTyped, FilesLocals
  <2>5. Latest'
    BY <1>1, <2>1, <2>2, <2>3, <2>4 DEF Forward, Latest, Pending, Walked, DeltaOnItsWay, NoNewer
  <2>6. Observed' /\ Newer'
    BY <1>1, <2>1 DEF Forward, Observed, Newer, Pending, NoNewer
  <2> QED BY <1>1, <2>1, <2>5, <2>6 DEF Forward, NoNewer
<1>6. CASE RefreshPersistDelta
  <2>1. /\ UNCHANGED <<topology, generation, baseFingerprint, topologyMoved>>
        /\ refresh.pc = "persistDelta" /\ refresh'.pc = "publish" /\ refresh'.delta \in {refresh.delta, None}
        /\ disk' = disk \/ disk' = PublishReconciliationDelta(refresh.delta, refresh.affected, refresh.all)
    BY <1>1, <1>6 DEF RefreshPersistDelta, service, base, fileVars, RefreshLocals
  <2>2. refresh.delta # None
    BY <2>1 DEF Typed, RefreshTyped
  <2>3. \A e \in Entities : disk'.topology[e].at <= world.facts[e].at
    <3>1. CASE disk' = disk
      BY <3>1 DEF Forward, Observed, NoNewer
    <3>2. CASE disk' = PublishReconciliationDelta(refresh.delta, refresh.affected, refresh.all)
      <4>1. \A e \in Entities : disk'.topology[e] \in {disk.topology[e], refresh.delta[e]}
        BY <3>2, DeltaSaved DEF Typed, ServiceTyped
      <4> QED BY <2>2, <4>1 DEF Forward, Observed, NoNewer
    <3> QED BY <2>1, <3>1, <3>2
  <2> QED BY <1>1, <2>1, <2>3 DEF Forward, Observed, Newer, Latest, Pending, Walked, DeltaOnItsWay, NoNewer
<1>7. CASE RefreshPublishBase
  <2>1. /\ UNCHANGED <<generation, baseFingerprint, disk>> /\ refresh.pc = "publish"
        /\ refresh'.delta = None /\ refresh'.pc = "value"
        /\ IF Pending THEN topology' = refresh.delta ELSE topology' = topology
    BY <1>1, <1>7 DEF RefreshPublishBase, fileVars, RefreshLocals, Pending
  <2>2. \A e \in Entities : topology[e].at <= topology'[e].at /\ topology'[e].at <= world.facts[e].at
    BY <1>1, <2>1 DEF Forward, Observed, Newer, Pending, NoNewer
  <2>3. Walked /\ files.mode = "full" /\ files.generation = generation => NoNewer(topology', files.topology)
    BY <2>1 DEF Forward, Latest, DeltaOnItsWay
  <2>4. Latest'
    BY <1>1, <2>1, <2>3 DEF Forward, Latest, Pending, Walked, NoNewer
  <2>5. Observed' /\ Newer'
    BY <1>1, <2>1, <2>2 DEF Forward, Observed, Newer, Pending, NoNewer
  <2> QED BY <2>2, <2>4, <2>5 DEF Forward, NoNewer
<1>8. CASE RefreshValue \/ RefreshHistory \/ RefreshRelate \/ RefreshPersist \/ RefreshFinish
  <2>1. /\ UNCHANGED <<topology, generation, baseFingerprint, topologyMoved>>
        /\ disk' = disk \/ disk' = PublishInventory(refresh.rid, refresh.all)
    BY <1>8 DEF RefreshValue, RefreshHistory, RefreshRelate, RefreshPersist, RefreshFinish,
                service, base, fileVars
  <2>2. /\ refresh.pc \notin {"advance", "persistDelta", "publish"}
        /\ refresh' = IdleRefresh \/ (refresh'.delta = refresh.delta /\ refresh'.pc \notin {"advance", "delta"})
    BY <1>1, <1>8 DEF RefreshValue, RefreshHistory, RefreshRelate, RefreshPersist, RefreshFinish, RefreshLocals
  <2>3. refresh.delta = None /\ refresh'.delta = None /\ refresh'.pc \notin {"advance", "delta"}
    BY <2>2 DEF Forward, Newer, IdleRefresh
  <2>4. disk'.topology = disk.topology
    BY <2>1, InventorySaved DEF Typed, ServiceTyped
  <2> QED BY <1>1, <2>1, <2>3, <2>4, RefreshReads DEF NoNewer
<1> QED BY <1>2, <1>3, <1>4, <1>5, <1>6, <1>7, <1>8, <1>9 DEF RefreshStep

\* Steps that touch none of it.
LEMMA ForwardStays ==
  ASSUME Forward,
         UNCHANGED <<world, topology, generation, baseFingerprint, topologyMoved, refresh, files>>,
         disk'.topology = disk.topology
  PROVE  Forward'
BY DEF Forward, Observed, Newer, Latest, Pending, Walked, DeltaOnItsWay, NoNewer

\* A reconciliation that gives up, starts over or has read only.
LEMMA FilesLetGo ==
  ASSUME Typed, Forward,
         world' = world, refresh' = refresh, disk' = disk,
         topology' = topology, topologyMoved' = topologyMoved,
         generation' = generation, baseFingerprint' = baseFingerprint,
         files'.pc \in {"idle", "capture"} \/ (files'.pc = "walk" /\ files'.generation <= generation),
         NoNewer(files'.topology, world.facts)
  PROVE  Forward'
<1>1. Observed'
  BY DEF Forward, Observed, NoNewer
<1>2. Newer' /\ Latest'
  BY DEF Forward, Newer, Latest, Pending, Walked
<1> QED BY <1>1, <1>2 DEF Forward

LEMMA FilesGoOn ==
  ASSUME Typed, Forward, FilesBeginFull \/ FilesBeginTargeted \/ FilesStep \/ FilesFail
  PROVE  /\ Forward'
         /\ NoNewer(topology, topology') \/ (files.pc = "publish" /\ files.mode = "targeted")
<1>0. UNCHANGED <<world, refresh>>
  BY DEF FilesBeginFull, FilesBeginTargeted, FilesStep, FilesFail, FilesCapture, FilesWalk, FilesPromote,
         FilesCompare, FilesLock, FilesPersist, FilesPublish, FilesOnly
<1>1. /\ files \in FilesLocals /\ generation \in Nat /\ disk \in Database
      /\ world' = world /\ refresh' = refresh /\ NoNewer(topology, topology)
  BY <1>0, Dates DEF Typed, ServiceTyped, FilesTyped, NoNewer
<1>2. \A e \in Entities : 0 <= world.facts[e].at /\ NoTopology[e].at = 0
  BY Dates DEF NoTopology
<1>3. ASSUME files' \in {IdleFiles, StartFull} \/ (\E scope : files' = [StartFull EXCEPT !.mode = "targeted", !.scope = scope])
      PROVE  files'.pc \in {"idle", "capture"} /\ NoNewer(files'.topology, world.facts)
  <2>1. CASE files' \in {IdleFiles, StartFull}
    BY <1>2, <2>1 DEF IdleFiles, StartFull, NoNewer
  <2>2. ASSUME NEW scope, files' = [StartFull EXCEPT !.mode = "targeted", !.scope = scope]
        PROVE  files'.pc = "capture" /\ files'.topology = NoTopology
    BY <2>2 DEF IdleFiles, StartFull
  <2> QED BY <1>2, <1>3, <2>1, <2>2 DEF NoNewer
<1>4. Superseded => files' \in {IdleFiles, StartFull}
  BY DEF Superseded, DiscardFiles, PromoteFiles
<1>5. CASE FilesBeginFull \/ FilesBeginTargeted \/ FilesPromote \/ FilesFail
  <2>1. UNCHANGED <<topology, generation, baseFingerprint, topologyMoved, disk>>
    BY <1>5 DEF FilesBeginFull, FilesBeginTargeted, FilesPromote, FilesFail, service, base, fileVars
  <2>2. files' \in {IdleFiles, StartFull} \/ (\E scope : files' = [StartFull EXCEPT !.mode = "targeted", !.scope = scope])
    BY <1>4, <1>5 DEF FilesBeginFull, FilesBeginTargeted, FilesPromote, FilesFail, PromoteFiles
  <2>3. files'.pc \in {"idle", "capture"} /\ NoNewer(files'.topology, world.facts)
    BY <1>3, <2>2
  <2>4. Forward'
    BY <1>1, <2>1, <2>3, FilesLetGo
  <2> QED BY <1>1, <2>1, <2>4
<1>6. CASE FilesCapture
  <2>1. /\ UNCHANGED <<topology, generation, baseFingerprint, topologyMoved, disk>>
        /\ files'.pc = "walk" /\ files'.generation = generation /\ files'.topology = topology
    BY <1>1, <1>6 DEF FilesCapture, service, base, fileVars, FilesLocals
  <2>2. NoNewer(files'.topology, world.facts) /\ files'.generation <= generation
    BY <1>1, <2>1 DEF Forward, Observed
  <2> QED BY <1>1, <2>1, <2>2, FilesLetGo DEF NoNewer
<1>7. CASE FilesWalk
  <2> DEFINE known == [e \in Entities |-> IF files.mode = "targeted" /\ e \in files.scope \cap Torrents
                                          THEN Absent ELSE files.captured[e]]
  <2>1. /\ UNCHANGED <<topology, generation, baseFingerprint, topologyMoved, disk>>
        /\ files.pc = "walk" /\ files'.pc = "compare" /\ files'.mode = files.mode
        /\ files'.generation = files.generation
        /\ files'.topology = [e \in Entities |-> IF files.mode = "full" \/ e \in files.scope
                                                 THEN Observe(e, known) ELSE files.topology[e]]
    BY <1>1, <1>7 DEF FilesWalk, service, base, fileVars, FilesLocals
  <2>2. \A e \in Entities : /\ files'.topology[e].at <= world.facts[e].at
                            /\ files.mode = "full" => files'.topology[e].at = world.facts[e].at
    <3> SUFFICES ASSUME NEW e \in Entities
                 PROVE  /\ files'.topology[e].at <= world.facts[e].at
                        /\ files.mode = "full" => files'.topology[e].at = world.facts[e].at
      OBVIOUS
    <3>1. Observe(e, known).at = world.facts[e].at
      BY ObservedNow
    <3> QED BY <2>1, <3>1, Dates DEF Forward, Observed, NoNewer
  <2> HIDE DEF known
  <2> QED BY <1>1, <2>1, <2>2 DEF Forward, Observed, Newer, Latest, Pending, Walked, DeltaOnItsWay, NoNewer
<1>8. ASSUME UNCHANGED <<topology, generation, baseFingerprint, topologyMoved>>, Walked, Walked',
             disk' = disk \/ disk' = Reconciled,
             files'.topology = files.topology, files'.mode = files.mode,
             files'.generation = files.generation
      PROVE  Forward'
  <2>1. \A e \in Entities : disk'.topology[e] \in {disk.topology[e], files.topology[e]}
    BY <1>1, <1>8, DeltaSaved, AllSaved DEF Reconciled
  <2>2. Observed'
    BY <1>1, <1>8, <2>1 DEF Forward, Observed, NoNewer
  <2> QED BY <1>1, <1>8, <2>2 DEF Forward, Newer, Latest, Pending, DeltaOnItsWay, NoNewer
<1>9. CASE FilesCompare \/ FilesLock \/ FilesPersist
  <2>1. /\ UNCHANGED <<topology, generation, baseFingerprint, topologyMoved>> /\ Walked
        /\ disk' = disk \/ disk' = Reconciled
    BY <1>9 DEF FilesCompare, FilesLock, FilesPersist, base, fileVars, Walked
  <2>2. \/ files' \in {IdleFiles, StartFull} /\ disk' = disk
        \/ /\ files'.topology = files.topology /\ files'.mode = files.mode
           /\ files'.generation = files.generation /\ Walked'
    BY <1>1, <1>4, <1>9 DEF FilesCompare, FilesLock, FilesPersist, DiscardFiles, Walked, FilesLocals
  <2>3. CASE files' \in {IdleFiles, StartFull} /\ disk' = disk
    <3>1. files'.pc \in {"idle", "capture"} /\ NoNewer(files'.topology, world.facts)
      BY <1>3, <2>3
    <3>2. Forward'
      BY <1>1, <2>1, <2>3, <3>1, FilesLetGo
    <3> QED BY <1>1, <2>1, <3>2
  <2>4. CASE /\ files'.topology = files.topology /\ files'.mode = files.mode
             /\ files'.generation = files.generation /\ Walked'
    <3>1. Forward'
      BY <1>8, <2>1, <2>4
    <3> QED BY <1>1, <2>1, <3>1
  <2> QED BY <2>2, <2>3, <2>4
<1>10. CASE FilesPublish
  <2>1. CASE generation # files.generation
    <3>1. /\ UNCHANGED <<topology, generation, baseFingerprint, topologyMoved, disk>>
          /\ files' \in {IdleFiles, StartFull}
      BY <1>4, <1>10, <2>1 DEF FilesPublish, base, fileVars
    <3>2. files'.pc \in {"idle", "capture"} /\ NoNewer(files'.topology, world.facts)
      BY <1>3, <3>1
    <3>3. Forward'
      BY <1>1, <3>1, <3>2, FilesLetGo
    <3> QED BY <1>1, <3>1, <3>3
  <2>2. CASE generation = files.generation
    <3>1. /\ topology' = files.topology /\ topologyMoved' /\ files' = IdleFiles /\ files.pc = "publish"
          /\ UNCHANGED <<generation, disk>>
      BY <1>10, <2>2 DEF FilesPublish
    <3>2. files'.pc = "idle" /\ NoNewer(files'.topology, world.facts)
      BY <1>2, <3>1 DEF IdleFiles, NoNewer
    <3>3. Forward'
      BY <1>1, <3>1, <3>2 DEF Forward, Observed, Newer, Latest, Pending, Walked, NoNewer
    <3>4. files.mode = "full" => NoNewer(topology, topology')
      BY <2>2, <3>1 DEF Forward, Latest, Walked
    <3> QED BY <1>1, <3>1, <3>3, <3>4 DEF FilesLocals
  <2> QED BY <2>1, <2>2
<1> QED BY <1>5, <1>6, <1>7, <1>9, <1>10 DEF FilesStep

LEMMA RestartGoesOn ==
  ASSUME Typed, Forward, Restart
  PROVE  Forward'
<1>1. /\ UNCHANGED <<world, disk>> /\ topology' = disk.topology /\ ~topologyMoved'
      /\ refresh' = IdleRefresh /\ files' = IdleFiles
  BY DEF Restart, Loaded
<1>2. refresh'.pc = "idle" /\ refresh'.delta = None /\ files'.pc = "idle" /\ files'.topology = NoTopology
  BY <1>1 DEF IdleRefresh, IdleFiles
<1>3. NoNewer(NoTopology, world.facts)
  BY Dates DEF NoTopology, NoNewer
<1> QED BY <1>1, <1>2, <1>3 DEF Forward, Observed, Newer, Latest, Pending, Walked, NoNewer

Counted == restarts \in Nat
LEMMA AlwaysCounted == Spec => []Counted
<1>1. Init => Counted
  BY DEF Init, Counted
<1>2. Counted /\ [Next]_vars => Counted'
  <2> SUFFICES ASSUME restarts \in Nat, [Next]_vars PROVE restarts' \in Nat
    BY DEF Counted
  <2>1. CASE Restart
    BY <2>1 DEF Restart
  <2>2. CASE ~Restart
    BY <2>2 DEF Next, vars, World, WorldChange, WorldRematch, WorldWatch, RefreshFetch, RefreshStep, RefreshOnly,
         RefreshSnapshot, RefreshCompare, RefreshDelta, RefreshAdvance, RefreshPersistDelta, RefreshPublishBase,
         RefreshValue, RefreshHistory, RefreshRelate, RefreshPersist, RefreshFinish, FilesBeginFull,
         FilesBeginTargeted, FilesStep, FilesFail, FilesCapture, FilesWalk, FilesPromote, FilesCompare,
         FilesLock, FilesPersist, FilesPublish, FilesOnly, EnrichStart, CatchUpStart, EnrichFail,
         EnrichPublish, CatchUpPublish, CatchUpFail, CatchUpOnly, EnrichOnly
  <2> QED BY <2>1, <2>2
<1> QED BY <1>1, <1>2, PTL DEF Spec

LEMMA NextGoesOn ==
  ASSUME Typed, Forward, GenerationsLast, Counted, [Next]_vars
  PROVE  /\ Forward'
         /\ \/ restarts' # restarts
            \/ files.pc = "publish" /\ files.mode = "targeted"
            \/ NoNewer(topology, topology')
<1>1. NoNewer(topology, topology)
  BY Dates DEF NoNewer
<1>2. CASE UNCHANGED vars
  BY <1>1, <1>2, ForwardStays DEF vars, service, base, fileVars, actors
<1>3. CASE World
  <2>1. topology' = topology
    BY <1>3 DEF World, WorldChange, WorldRematch, WorldWatch, service, fileVars
  <2> QED BY <1>1, <1>3, <2>1, WorldGoesOn
<1>4. CASE Restart
  <2>1. restarts' # restarts
    BY <1>4 DEF Restart, Counted
  <2> QED BY <1>4, <2>1, RestartGoesOn
<1>5. CASE RefreshFetch \/ RefreshStep
  BY <1>5, RefreshGoesOn
<1>6. CASE FilesBeginFull \/ FilesBeginTargeted \/ FilesStep \/ FilesFail
  BY <1>6, FilesGoOn
<1>7. CASE (\E s \in Sources : EnrichStart(s) \/ CatchUpStart(s))
           \/ EnrichFail \/ EnrichPublish \/ CatchUpPublish \/ CatchUpFail
  <2>1. /\ UNCHANGED <<world, topology, generation, baseFingerprint, topologyMoved, refresh, files>>
        /\ disk' = disk \/ \E items : disk' = PublishEnrichment(items)
    BY <1>7 DEF EnrichStart, CatchUpStart, EnrichFail, EnrichPublish, CatchUpPublish, CatchUpFail, CatchUpOnly, CatchUpMerge,
                EnrichOnly, service, base, fileVars
  <2>2. disk'.topology = disk.topology
    BY <2>1, InventorySaved DEF Typed, ServiceTyped
  <2> QED BY <1>1, <2>1, <2>2, ForwardStays
<1> QED BY <1>2, <1>3, <1>4, <1>5, <1>6, <1>7 DEF Next

(* Whatever refreshes, deltas and full reconciliations race, and whichever *)
(* of them fails: what is published of an entity's files was observed no   *)
(* earlier than what it replaces - unless a targeted run publishes or the  *)
(* process starts again.  For histories in which no generation number is   *)
(* given out twice (service.go:71-77, refresh.go:395-441).                 *)
THEOREM TopologyOnlyMovesForward == Spec /\ []GenerationsLast => TopologyNeverGoesBack
<1>1. Init => Forward
  BY PublicationAssumption
     DEF Init, Forward, Observed, Newer, Latest, Pending, Walked, NoNewer, NoTopology, IdleRefresh, IdleFiles
<1>2. Typed /\ Forward /\ GenerationsLast /\ Counted /\ [Next]_vars => Forward'
  BY NextGoesOn
<1>3. Typed /\ Typed' /\ Forward /\ GenerationsLast /\ Counted /\ [Next]_vars =>
        [ \/ restarts' # restarts
          \/ files.pc = "publish" /\ files.mode = "targeted"
          \/ \A e \in Entities : topology'[e].at >= topology[e].at ]_vars
  <2> SUFFICES ASSUME Typed, Typed', NoNewer(topology, topology')
               PROVE  \A e \in Entities : topology'[e].at >= topology[e].at
    BY NextGoesOn
  <2>1. \A e \in Entities : topology[e].at \in Nat /\ topology'[e].at \in Nat
    BY DEF Typed, ServiceTyped, Topology, TopologyType, Clock
  <2> QED BY <2>1 DEF NoNewer
<1> QED BY <1>1, <1>2, <1>3, AlwaysTyped, AlwaysCounted, PTL DEF Spec, TopologyNeverGoesBack
=============================================================================
