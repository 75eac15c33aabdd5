---------------------------- MODULE Publication ----------------------------
(***************************************************************************)
(* How internal/inventory publishes what it reads from the services: the   *)
(* base refresh with its inline topology delta (refresh.go), the full and  *)
(* the targeted file reconciliation (reconcile.go, reconcile_targeted.go), *)
(* the enrichment tasks and the catch-up after a refresh (enrichment.go),  *)
(* and the SQLite transactions that make each publication durable          *)
(* (store/files.go).  They share one Service: mu guards its fields and is  *)
(* never held across I/O, publishMu serialises the durable publications.   *)
(*                                                                         *)
(* Every step is what one goroutine does between two points where another  *)
(* may interleave: an access under mu, a call to a service or the file     *)
(* system, a transaction.                                                  *)
(*                                                                         *)
(* Data is abstracted to versions.  A media item or a torrent is an        *)
(* entity, and the clock of the outside world at its last change stands    *)
(* for its path, size and files.  Two counters of the code are compared    *)
(* for equality only, so fileTopologyVersion is kept as "moved since the   *)
(* refresh read it" (topologyMoved).                                       *)
(***************************************************************************)
EXTENDS Naturals, FiniteSets

CONSTANTS
    Media,        \* movies and series of Radarr and Sonarr
    Torrents,     \* torrents of qBittorrent
    Existing,     \* the entities there are before Stewarr first starts
    Sources,      \* enrichment sources: jellyfin, seerr, tmdb
    Modes,        \* kinds of file reconciliation that may run
    None,         \* no holder of publishMu, no topology delta
    MaxClock,     \* bound on the changes of the outside world
    MaxGeneration,\* generations are told apart up to this many
    MaxFaults,    \* bound on failed reads and writes
    MaxRestarts   \* bound on process restarts

ASSUME PublicationAssumption ==
    /\ Media \cap Torrents = {} /\ Existing \subseteq Media \cup Torrents
    /\ Modes \subseteq {"full", "targeted"}
    /\ None \notin {"files"} \cup Sources /\ "idle" \notin Sources
    /\ MaxClock \in Nat \ {0} /\ MaxGeneration \in Nat \ {0}
    /\ MaxFaults \in Nat /\ MaxRestarts \in Nat

VARIABLES
    world,           \* facts of the services and the file system, clock
    catalogue,       \* Service.items and Service.torrents
    topology,        \* Service.files with their claims, per entity
    generation,      \* Service.generation
    baseFingerprint, \* Service.baseFingerprint, None before the first base
    topologyMoved,   \* fileTopologyVersion # the version the refresh read
    fileGeneration,  \* Service.fileGeneration
    filesKnown,      \* ~Service.filesUpdated.IsZero()
    reliability,     \* Service.reliability
    disk,            \* SQLite: last committed publication and rid cursor
    publishMu,       \* holder of Service.publishMu
    refresh,         \* locals of the running Refresh
    files,           \* locals of the running file reconciliation
    enrich,          \* locals of the running RefreshJellyfin/Seerr/TMDB
    catchUp,         \* locals of the running EnrichNewMedia
    faults, restarts \* how many faults and restarts have happened

base == <<catalogue, generation, baseFingerprint>>
fileVars == <<topology, topologyMoved, fileGeneration, filesKnown>>
service == <<base, fileVars, reliability>>
actors == <<refresh, files, enrich, catchUp>>
vars == <<world, service, disk, publishMu, actors, faults, restarts>>

Entities == Media \cup Torrents
Clock == 0 .. MaxClock
FactType == [at : Clock, id : Clock]
Never == [at |-> 0, id |-> 0]
ItemType == [present : BOOLEAN, at : Clock, id : Clock, top : Clock,
             enr : [Sources -> FactType]]
Catalogue == [Entities -> ItemType]
TopologyType == [at : Clock, state : {"none", "claimed", "unmanaged"}]
Topology == [Entities -> TopologyType]
FileModels == {"pending", "reliable", "stale"}

Absent == [present |-> FALSE, at |-> 0, id |-> 0, top |-> 0,
           enr |-> [s \in Sources |-> Never]]
NoItems == [e \in Entities |-> Absent]
NoTopology == [e \in Entities |-> [at |-> 0, state |-> "none"]]

IdleRefresh == [pc |-> "idle", all |-> NoItems, rid |-> 0,
                delta |-> None, affected |-> {}, failed |-> FALSE]
IdleFiles == [pc |-> "idle", mode |-> "full", scope |-> {}, generation |-> 0,
              captured |-> NoItems, topology |-> NoTopology,
              result |-> NoItems]
IdleEnrich == [pc |-> "idle", source |-> None, captured |-> NoItems]
IdleCatchUp == [pc |-> "idle", generation |-> 0, pending |-> {},
                captured |-> NoItems]

-----------------------------------------------------------------------------
(* Pure parts.                                                             *)

(* What Radarr, Sonarr or qBittorrent answers about an entity now.         *)
Read(e) ==
    LET f == world.facts[e]
    IN IF f.present
       THEN [Absent EXCEPT !.present = TRUE, !.at = f.at, !.id = f.id]
       ELSE Absent

(* An incremental sync: after rid 0 qBittorrent answers with everything,   *)
(* otherwise with what changed since rid, merged into the previous map.    *)
Sync(previous, rid) ==
    [t \in Torrents |->
        IF rid = 0 \/ world.facts[t].at > rid THEN Read(t) ELSE previous[t]]

(* Each qBittorrent is asked from the cursor and the torrents on disk.     *)
SyncTorrents == Sync(disk.catalogue, disk.rid)

(* The facts of an enrichment source survive a base refresh unless the     *)
(* item is new or was matched to another title.                            *)
Preserve(item, old) ==
    IF item.present /\ old.present /\ item.id = old.id
    THEN [item EXCEPT !.enr = old.enr] ELSE item

(* The fingerprint sees path and size of media and the save path of        *)
(* torrents, so neither external IDs nor enrichment.                       *)
Fingerprint(items) ==
    [e \in Entities |-> [present |-> items[e].present, at |-> items[e].at]]

(* Entities that are new, changed or gone between two catalogues.          *)
InventoryDelta(old, new) ==
    {e \in Entities : Fingerprint(old)[e] # Fingerprint(new)[e]}

(* What walking an entity's directory and asking its owner finds, when the *)
(* known entities are those of items.                                      *)
Observe(e, items) ==
    [at |-> world.facts[e].at,
     state |-> IF ~ world.facts[e].present THEN "none"
               ELSE IF items[e].present THEN "claimed" ELSE "unmanaged"]

(* Estimates, hard links and seasons derived from a topology.              *)
Project(items, topo) ==
    [e \in Entities |->
        IF items[e].present THEN [items[e] EXCEPT !.top = topo[e].at]
        ELSE items[e]]

(* Facts fetched for the items of from, merged by identity into those of   *)
(* items: media that have gone meanwhile are not brought back.             *)
MergeFacts(items, from, s, which) ==
    [e \in Entities |->
        IF e \in which /\ items[e].present
        THEN [items[e] EXCEPT !.enr[s] = from[e].enr[s]] ELSE items[e]]

(* A source's answer about items: the title they are matched to, now.      *)
Fetched(items, s) ==
    [e \in Entities |->
        IF e \in Media /\ items[e].present
        THEN [items[e] EXCEPT !.enr[s] = [at |-> world.views,
                                         id |-> items[e].id]]
        ELSE items[e]]

(* The rows one transaction replaces, and the transactions made of them:   *)
(* what a crash leaves is the state before or after, never between.        *)
SaveMedia(d, items) ==
    [d EXCEPT !.saved = TRUE,
              !.catalogue = [e \in Entities |->
                                IF e \in Media THEN items[e] ELSE @[e]]]
SaveTorrents(d, items) ==
    [d EXCEPT !.catalogue = [e \in Entities |->
                                IF e \in Torrents THEN items[e] ELSE @[e]]]
ReplaceFiles(d, topo, which) ==
    [d EXCEPT !.filesKnown = TRUE,
              !.topology = [e \in Entities |->
                               IF e \in which THEN topo[e] ELSE @[e]]]
PublishReconciliation(topo, items) ==
    SaveMedia(SaveTorrents(ReplaceFiles(disk, topo, Entities), items), items)
PublishReconciliationDelta(topo, which, items) ==
    SaveMedia(SaveTorrents(ReplaceFiles(disk, topo, which), items), items)
PublishInventory(rid, items) ==
    SaveMedia([SaveTorrents(disk, items) EXCEPT
                  !.rid = IF rid = 0 THEN @ ELSE rid], items)
PublishEnrichment(items) == SaveMedia(disk, items)

AllReliable(enrichment) == \A s \in Sources : enrichment[s] = "reliable"

(* The next generation.  Generations are compared for equality with the    *)
(* few a running step has read, so they may start again after enough.      *)
Successor == IF generation = MaxGeneration THEN 1 ELSE generation + 1

(* Whether a step may fail.  Failures are bounded.                         *)
MayFail == faults < MaxFaults
Fail == MayFail /\ faults' = faults + 1

-----------------------------------------------------------------------------
(* The outside world: imports and changes, removals, new matches of a      *)
(* title, and playback.  The bound is on the clock.                        *)

Tick == world.clock < MaxClock

WorldChange(e) ==
    /\ Tick
    /\ LET now == world.clock + 1
           f == world.facts[e]
       IN \E new \in {[present |-> TRUE, at |-> now,
                       id |-> IF f.present THEN f.id ELSE now],
                      [present |-> FALSE, at |-> now, id |-> 0]} :
              /\ new.present \/ f.present
              /\ world' = [world EXCEPT !.clock = now, !.facts[e] = new]
    /\ UNCHANGED <<service, disk, publishMu, actors, faults, restarts>>

WorldRematch(m) ==
    /\ Tick /\ world.facts[m].present
    /\ world' = [world EXCEPT !.clock = @ + 1,
                              !.facts[m].id = world.clock + 1]
    /\ UNCHANGED <<service, disk, publishMu, actors, faults, restarts>>

WorldWatch ==
    /\ Tick /\ Sources # {}
    /\ world' = [world EXCEPT !.clock = @ + 1, !.views = world.clock + 1]
    /\ UNCHANGED <<service, disk, publishMu, actors, faults, restarts>>

-----------------------------------------------------------------------------
(* Refresh.  The task claims inventory publication exclusively, so it never *)
(* overlaps an enrichment task; file reconciliations run beside it.        *)

RefreshOnly == UNCHANGED <<world, files, enrich, catchUp, restarts>>

(* Every service is asked; nothing is published when one fails.            *)
RefreshFetch ==
    /\ refresh.pc = "idle" /\ enrich.pc = "idle"
    /\ refresh' = [refresh EXCEPT
          !.pc = "snapshot",
          !.all = [e \in Entities |->
                      IF e \in Media THEN Read(e)
                      ELSE SyncTorrents[e]],
          !.rid = IF Torrents = {} THEN 0 ELSE world.clock]
    /\ UNCHANGED <<service, disk, publishMu, faults>> /\ RefreshOnly

(* Snapshot: enrichment facts are carried over from the published media,   *)
(* and what has changed of the media is told from the same copy.           *)
RefreshSnapshot ==
    /\ refresh.pc = "snapshot"
    /\ refresh' = [refresh EXCEPT
          !.pc = "compare",
          !.all = [e \in Entities |->
                      IF e \in Media THEN Preserve(@[e], catalogue[e])
                      ELSE @[e]],
          !.affected = InventoryDelta(catalogue, refresh.all) \cap Media]
    /\ UNCHANGED <<service, disk, publishMu, faults>> /\ RefreshOnly

(* Mutant: a refresh that finds the base unchanged publishes nothing.      *)
RefreshCompareSkipping ==
    /\ refresh.pc = "compare"
    /\ refresh' = IF Fingerprint(refresh.all) = baseFingerprint
                  THEN IdleRefresh
                  ELSE [refresh EXCEPT !.pc = "advance"]
    /\ topologyMoved' = FALSE
    /\ UNCHANGED <<base, topology, fileGeneration, filesKnown, reliability,
                   disk, publishMu, faults>>
    /\ RefreshOnly

(* The base is compared with the published one, and the torrents with      *)
(* those of now: an enrichment or a reconciliation may have published      *)
(* since the snapshot of the media.                                        *)
RefreshCompare ==
    /\ refresh.pc = "compare"
    /\ LET affected == refresh.affected \cup
                           (InventoryDelta(catalogue, refresh.all) \cap Torrents)
       IN refresh' = [refresh EXCEPT
             !.pc = IF /\ Fingerprint(refresh.all) # baseFingerprint
                       /\ filesKnown /\ affected # {}
                    THEN "delta" ELSE "advance",
             !.affected = affected]
    /\ topologyMoved' = FALSE
    /\ UNCHANGED <<base, topology, fileGeneration, filesKnown, reliability,
                   disk, publishMu, faults>>
    /\ RefreshOnly

(* Only the directories of what changed are walked again, everything else  *)
(* is taken from the topology in memory.                                   *)
DeltaTopology ==
    [e \in Entities |-> IF e \in refresh.affected
                        THEN Observe(e, refresh.all) ELSE topology[e]]

(* reconcileInventoryDelta.  When it fails there is no delta.              *)
RefreshDelta ==
    /\ refresh.pc = "delta"
    /\ \/ /\ refresh' = [refresh EXCEPT !.pc = "advance",
                                        !.delta = DeltaTopology]
          /\ UNCHANGED faults
       \/ Fail /\ refresh' = [refresh EXCEPT !.pc = "advance"]
    /\ UNCHANGED <<service, disk, publishMu>> /\ RefreshOnly

(* A new base advances the generation; the delta is dropped when another   *)
(* publication of the topology has come first.                             *)
RefreshAdvance ==
    /\ refresh.pc = "advance"
    /\ LET delta == IF topologyMoved THEN None ELSE refresh.delta
           drift == Fingerprint(refresh.all) # baseFingerprint
       IN /\ generation' = IF drift THEN Successor ELSE generation
          /\ baseFingerprint' = IF drift THEN Fingerprint(refresh.all)
                                ELSE baseFingerprint
          /\ reliability' = IF drift /\ filesKnown /\ delta = None
                            THEN [reliability EXCEPT !.fileModel = "stale"]
                            ELSE reliability
          /\ refresh' = [refresh EXCEPT
                !.delta = delta,
                !.affected = IF delta = None THEN {} ELSE @,
                !.pc = IF delta = None THEN "publish" ELSE "persistDelta"]
    /\ topologyMoved' = FALSE
    /\ UNCHANGED <<catalogue, topology, fileGeneration, filesKnown, disk,
                   publishMu, faults>>
    /\ RefreshOnly

(* The delta is committed with the base catalogue under publishMu.         *)
RefreshPersistDelta ==
    /\ refresh.pc = "persistDelta" /\ publishMu = None
    /\ \/ /\ disk' = PublishReconciliationDelta(refresh.delta,
                                      refresh.affected, refresh.all)
          /\ refresh' = [refresh EXCEPT !.pc = "publish"]
          /\ UNCHANGED faults
       \/ /\ Fail
          /\ refresh' = [refresh EXCEPT !.pc = "publish", !.delta = None,
                                        !.failed = TRUE]
          /\ UNCHANGED disk
    /\ UNCHANGED <<service, publishMu>> /\ RefreshOnly

(* Mutant: the delta is published whatever has been published meanwhile.   *)
RefreshPublishBaseUnchecked ==
    /\ refresh.pc = "publish"
    /\ IF refresh.delta # None
       THEN /\ topology' = refresh.delta
            /\ fileGeneration' = generation
            /\ filesKnown' = TRUE
            /\ topologyMoved' = TRUE
       ELSE UNCHANGED fileVars
    /\ reliability' = [reliability EXCEPT !.inventory = TRUE]
    /\ catalogue' = refresh.all
    /\ refresh' = [refresh EXCEPT !.pc = "value"]
    /\ UNCHANGED <<generation, baseFingerprint, disk, publishMu, faults>>
    /\ RefreshOnly

(* The base becomes visible, with the delta unless the topology has moved. *)
RefreshPublishBase ==
    /\ refresh.pc = "publish"
    /\ LET delta == IF topologyMoved THEN None ELSE refresh.delta
       IN /\ IF delta # None
             THEN /\ topology' = delta
                  /\ fileGeneration' = generation
                  /\ filesKnown' = TRUE
                  /\ topologyMoved' = TRUE
             ELSE UNCHANGED fileVars
          /\ reliability' = [reliability EXCEPT
                !.inventory = TRUE,
                !.fileModel = IF delta # None THEN "reliable"
                              ELSE IF refresh.failed THEN "stale" ELSE @]
    /\ catalogue' = refresh.all
    /\ refresh' = [refresh EXCEPT !.pc = "value", !.delta = None,
                                  !.affected = {}, !.failed = FALSE]
    /\ UNCHANGED <<generation, baseFingerprint, disk, publishMu, faults>>
    /\ RefreshOnly

(* The media are published again after a first valuation.                  *)
RefreshValue ==
    /\ refresh.pc = "value"
    /\ catalogue' = [e \in Entities |->
                        IF e \in Media THEN refresh.all[e] ELSE catalogue[e]]
    /\ refresh' = [refresh EXCEPT !.pc = "history"]
    /\ UNCHANGED <<generation, baseFingerprint, fileVars, reliability, disk,
                   publishMu, faults>>
    /\ RefreshOnly

(* The import history is awaited; without it the refresh ends here.        *)
RefreshHistory ==
    /\ refresh.pc = "history"
    /\ \/ /\ refresh' = [refresh EXCEPT !.pc = "relate"]
          /\ UNCHANGED faults
       \/ Fail /\ refresh' = IdleRefresh
    /\ UNCHANGED <<service, disk, publishMu>> /\ RefreshOnly

(* Relations and estimates from the topology as it is now, under mu.       *)
RefreshRelate ==
    /\ refresh.pc = "relate"
    /\ refresh' = [refresh EXCEPT !.pc = "persist",
                                  !.all = Project(@, topology)]
    /\ UNCHANGED <<service, disk, publishMu, faults>> /\ RefreshOnly

(* persistenceFail: planning pauses.  What ends the pause is not a save    *)
(* but the next base that is published, RefreshPublishBase.                *)
NotDurable == [reliability EXCEPT !.inventory = FALSE, !.valuation = FALSE]

(* PublishInventory commits the snapshot together with the sync cursor.    *)
RefreshPersist ==
    /\ refresh.pc = "persist" /\ publishMu = None
    /\ \/ /\ disk' = PublishInventory(refresh.rid, refresh.all)
          /\ refresh' = [refresh EXCEPT !.pc = "finish"]
          /\ UNCHANGED <<reliability, faults>>
       \/ /\ Fail
          /\ reliability' = NotDurable
          /\ refresh' = IdleRefresh
          /\ UNCHANGED disk
    /\ UNCHANGED <<base, fileVars, publishMu>> /\ RefreshOnly

RefreshFinish ==
    /\ refresh.pc = "finish"
    /\ catalogue' = refresh.all
    /\ reliability' = [reliability EXCEPT
                          !.valuation = AllReliable(reliability.enrichment)]
    /\ refresh' = IdleRefresh
    /\ UNCHANGED <<generation, baseFingerprint, fileVars, disk, publishMu,
                   faults>>
    /\ RefreshOnly

RefreshStep == RefreshSnapshot \/ RefreshCompare \/ RefreshDelta \/ RefreshAdvance
    \/ RefreshPersistDelta \/ RefreshPublishBase \/ RefreshValue
    \/ RefreshHistory \/ RefreshRelate \/ RefreshPersist \/ RefreshFinish

-----------------------------------------------------------------------------
(* File reconciliation.  A full one walks everything; a targeted one reads *)
(* back the scope of a removal and promotes itself to a full one whenever  *)
(* it cannot vouch for the rest.  Both run beside Refresh and enrichment.  *)

FilesOnly == UNCHANGED <<world, refresh, enrich, catchUp, restarts>>
FileModel(s) == [reliability EXCEPT !.fileModel = s]
StartFull == [IdleFiles EXCEPT !.pc = "capture"]

FilesBeginFull ==
    /\ files.pc = "idle" /\ "full" \in Modes
    /\ files' = StartFull
    /\ reliability' = FileModel("pending")
    /\ UNCHANGED <<base, fileVars, disk, publishMu, faults>> /\ FilesOnly

(* A usable scope names at least one path and is not marked full.          *)
FilesBeginTargeted ==
    /\ files.pc = "idle" /\ "targeted" \in Modes /\ filesKnown
    /\ \E scope \in SUBSET Entities \ {{}} :
          files' = [StartFull EXCEPT !.mode = "targeted", !.scope = scope]
    /\ UNCHANGED <<service, disk, publishMu, faults>> /\ FilesOnly

(* The state read under mu before the file system and the services are.    *)
FilesCapture ==
    /\ files.pc = "capture"
    /\ files' = [files EXCEPT !.pc = "walk", !.captured = catalogue,
                              !.generation = generation,
                              !.topology = topology]
    /\ UNCHANGED <<service, disk, publishMu, faults>> /\ FilesOnly

(* A torrent of the scope has been removed: its claims go, its files, if   *)
(* any are left, belong to nobody.  Torrents outside the scope must have   *)
(* claims already if they are known and none if they are not; those of the *)
(* scope must have claims too.  A path of the scope that the topology does *)
(* not know is not read back on its own.                                   *)
TargetedTrusted ==
    /\ \A t \in Torrents :
          IF files.captured[t].present THEN files.topology[t].state = "claimed"
          ELSE t \in files.scope \/ files.topology[t].state # "claimed"
    /\ \A e \in files.scope : files.topology[e].state # "none"

FilesWalk ==
    /\ files.pc = "walk"
    /\ files.mode = "targeted" => TargetedTrusted
    /\ LET known == [e \in Entities |->
                        IF files.mode = "targeted"
                           /\ e \in files.scope \cap Torrents
                        THEN Absent ELSE files.captured[e]]
       IN files' = [files EXCEPT
             !.pc = "compare", !.captured = NoItems,
             !.topology = [e \in Entities |->
                 IF files.mode = "full" \/ e \in files.scope
                 THEN Observe(e, known) ELSE @[e]]]
    /\ UNCHANGED <<service, disk, publishMu, faults>> /\ FilesOnly

(* setFilesError: the topology in memory stays and is called stale.        *)
DiscardFiles ==
    /\ files' = IdleFiles
    /\ reliability' = FileModel("stale")

(* promoteTargeted: start over with everything.                            *)
PromoteFiles ==
    /\ files' = StartFull
    /\ reliability' = FileModel("pending")

Superseded == IF files.mode = "full" THEN DiscardFiles ELSE PromoteFiles

(* A service or the file system fails before anything is published.        *)
FilesFail ==
    /\ files.pc \in {"capture", "walk"} /\ Fail
    /\ Superseded
    /\ UNCHANGED <<base, fileVars, disk, publishMu>> /\ FilesOnly

(* The scope does not account for what is found - or for files of its      *)
(* owners that lie elsewhere, which are not told apart here: such a doubt  *)
(* may arise in any targeted run.                                          *)
FilesPromote ==
    /\ files.pc = "walk" /\ files.mode = "targeted"
    /\ PromoteFiles
    /\ UNCHANGED <<base, fileVars, disk, publishMu, faults>> /\ FilesOnly

(* What the scope of a targeted run changes in the catalogue itself: sizes *)
(* of its owners, and its torrents leave.                                  *)
ScopedItems ==
    IF files.mode = "full" THEN catalogue
    ELSE [e \in Entities |->
            IF e \notin files.scope \/ ~ catalogue[e].present THEN catalogue[e]
            ELSE IF e \in Torrents THEN Absent
            ELSE [catalogue[e] EXCEPT !.at = files.topology[e].at]]

(* The catalogue is copied again, if it is still of the same generation.   *)
FilesCompare ==
    /\ files.pc = "compare"
    /\ IF generation = files.generation
       THEN /\ files' = [files EXCEPT !.pc = "lock",
                            !.result = Project(ScopedItems, files.topology)]
            /\ UNCHANGED reliability
       ELSE Superseded
    /\ UNCHANGED <<base, fileVars, disk, publishMu, faults>> /\ FilesOnly

(* publishMu is taken and held until the publication is visible.           *)
FilesLock ==
    /\ files.pc = "lock" /\ publishMu = None
    /\ IF generation = files.generation
       THEN /\ publishMu' = "files"
            /\ files' = [files EXCEPT !.pc = "persist"]
            /\ UNCHANGED reliability
       ELSE Superseded /\ UNCHANGED publishMu
    /\ UNCHANGED <<base, fileVars, disk, faults>> /\ FilesOnly

(* Mutant: a failed transaction returns without releasing publishMu.       *)
FilesPersistHolding ==
    /\ files.pc = "persist"
    /\ \/ /\ files' = [files EXCEPT !.pc = "publish"]
          /\ UNCHANGED <<disk, reliability, publishMu, faults>>
       \/ /\ Fail /\ DiscardFiles
          /\ UNCHANGED <<disk, publishMu>>
    /\ UNCHANGED <<base, fileVars>> /\ FilesOnly

(* One transaction: everything, or the rows of the scope.                  *)
Reconciled ==
    IF files.mode = "full"
    THEN PublishReconciliation(files.topology, files.result)
    ELSE PublishReconciliationDelta(files.topology, files.scope, files.result)

FilesPersist ==
    /\ files.pc = "persist"
    /\ \/ /\ disk' = Reconciled
          /\ files' = [files EXCEPT !.pc = "publish"]
          /\ UNCHANGED <<reliability, publishMu, faults>>
       \/ /\ Fail /\ DiscardFiles
          /\ publishMu' = None
          /\ UNCHANGED disk
    /\ UNCHANGED <<base, fileVars>> /\ FilesOnly

(* Mutant: the generation is not looked at again after the transaction.    *)
FilesPublishUnchecked ==
    /\ files.pc = "publish"
    /\ publishMu' = None
    /\ topology' = files.topology /\ topologyMoved' = TRUE
    /\ fileGeneration' = files.generation /\ filesKnown' = TRUE
    /\ reliability' = FileModel("reliable")
    /\ catalogue' = files.result
    /\ files' = IdleFiles
    /\ UNCHANGED <<generation, baseFingerprint, disk, faults>> /\ FilesOnly

(* A targeted run answers for the change it read back: the next refresh    *)
(* must not take it for news.                                              *)
FingerprintAfter ==
    IF files.mode = "full" THEN baseFingerprint ELSE Fingerprint(files.result)

(* The last check of the generation and the publication are one critical   *)
(* section.  The topology version is not consulted.                        *)
FilesPublish ==
    /\ files.pc = "publish"
    /\ publishMu' = None
    /\ IF generation # files.generation
       THEN Superseded /\ UNCHANGED <<base, fileVars>>
       ELSE /\ topology' = files.topology
            /\ topologyMoved' = TRUE
            /\ fileGeneration' = files.generation
            /\ filesKnown' = TRUE
            /\ reliability' = FileModel("reliable")
            /\ catalogue' = files.result
            /\ baseFingerprint' = FingerprintAfter
            /\ files' = IdleFiles
            /\ UNCHANGED generation
    /\ UNCHANGED <<disk, faults>> /\ FilesOnly

FilesStep == FilesCapture \/ FilesWalk \/ FilesPromote \/ FilesCompare
    \/ FilesLock \/ FilesPersist \/ FilesPublish

-----------------------------------------------------------------------------
(* Enrichment.  The three tasks differ in which facts they own.  A pass    *)
(* merges by identity, whatever the generation has become.                 *)

EnrichOnly == UNCHANGED <<world, base, fileVars, publishMu, refresh, files,
                          catchUp, restarts>>

(* Mutant: a pass starts without withdrawing the valuation.                *)
EnrichStartQuietly(s) ==
    /\ enrich.pc = "idle" /\ refresh.pc = "idle"
    /\ reliability.inventory /\ generation # 0
    /\ enrich' = [pc |-> "publish", source |-> s,
                  captured |-> Fetched(catalogue, s)]
    /\ reliability' = [reliability EXCEPT !.enrichment[s] = "pending"]
    /\ UNCHANGED <<disk, faults>> /\ EnrichOnly

EnrichStart(s) ==
    /\ enrich.pc = "idle" /\ refresh.pc = "idle"
    /\ reliability.inventory /\ generation # 0
    /\ enrich' = [pc |-> "publish", source |-> s,
                  captured |-> Fetched(catalogue, s)]
    /\ reliability' = [reliability EXCEPT !.enrichment[s] = "pending",
                                          !.valuation = FALSE]
    /\ UNCHANGED <<disk, faults>> /\ EnrichOnly

(* The source fails, or the transaction does.                              *)
EnrichFail ==
    /\ enrich.pc = "publish" /\ Fail
    /\ reliability' = [reliability EXCEPT
                          !.enrichment[enrich.source] = "stale",
                          !.valuation = FALSE]
    /\ enrich' = IdleEnrich
    /\ UNCHANGED disk /\ EnrichOnly

(* Merge, commit and publish without leaving mu; publishMu is not taken.   *)
EnrichPublish ==
    /\ enrich.pc = "publish"
    /\ LET s == enrich.source
           merged == MergeFacts(catalogue, enrich.captured, s,
                        {m \in Media : enrich.captured[m].present})
           others == \A o \in Sources \ {s} :
                        reliability.enrichment[o] = "reliable"
       IN /\ catalogue' = merged
          /\ disk' = PublishEnrichment(merged)
          /\ reliability' = [reliability EXCEPT
                                !.enrichment[s] = "reliable",
                                !.valuation = others]
    /\ enrich' = IdleEnrich
    /\ UNCHANGED <<world, generation, baseFingerprint, fileVars, publishMu,
                   refresh, files, catchUp, faults, restarts>>

(* EnrichNewMedia runs outside the scheduler after a base refresh, for the *)
(* items a source has never been asked about.                              *)
CatchUpStart(s) ==
    LET pending == {m \in Media : /\ catalogue[m].present
                                  /\ catalogue[m].enr[s] = Never}
    IN /\ catchUp.pc = "idle" /\ generation # 0 /\ pending # {}
       /\ catchUp' = [pc |-> s, generation |-> generation,
                      pending |-> pending,
                      captured |-> Fetched(catalogue, s)]
       /\ UNCHANGED <<world, service, disk, publishMu, refresh, files, enrich,
                      faults, restarts>>

(* Of the pending items those in done have been fetched; the others are    *)
(* merged too, as they were: with nothing from this source.                *)
CatchUpMerge(done) ==
    LET from == [e \in Entities |->
                    IF e \in done THEN catchUp.captured[e]
                    ELSE [catchUp.captured[e] EXCEPT !.enr[catchUp.pc] = Never]]
        merged == MergeFacts(catalogue, from, catchUp.pc, catchUp.pending)
    IN catalogue' = merged /\ disk' = PublishEnrichment(merged)

CatchUpOnly == UNCHANGED <<world, generation, baseFingerprint, fileVars,
                           reliability, publishMu, refresh, files, enrich,
                           restarts>>

(* Merged unless the base has moved.                                       *)
CatchUpPublish ==
    /\ catchUp.pc # "idle"
    /\ IF generation = catchUp.generation THEN CatchUpMerge(catchUp.pending)
       ELSE UNCHANGED <<catalogue, disk>>
    /\ catchUp' = IdleCatchUp
    /\ UNCHANGED faults /\ CatchUpOnly

(* A failing source, or transaction, leaves everything alone.  TMDB is     *)
(* asked item by item: what it has answered before the pass is interrupted *)
(* is merged.                                                              *)
CatchUpFail ==
    /\ catchUp.pc # "idle" /\ Fail
    /\ \/ UNCHANGED <<catalogue, disk>>
       \/ /\ catchUp.pc = "tmdb" /\ generation = catchUp.generation
          /\ \E done \in SUBSET catchUp.pending : CatchUpMerge(done)
    /\ catchUp' = IdleCatchUp
    /\ CatchUpOnly

-----------------------------------------------------------------------------
(* New: what a process finds in the database when it starts.               *)

Loaded(d) ==
    /\ catalogue' = Project(d.catalogue, d.topology)
    /\ topology' = d.topology
    /\ generation' = IF d.saved THEN 1 ELSE 0
    /\ baseFingerprint' = IF d.saved THEN Fingerprint(d.catalogue) ELSE None
    /\ topologyMoved' = FALSE
    /\ fileGeneration' = 0
    /\ filesKnown' = d.filesKnown
    /\ reliability' =
          [inventory |-> d.saved, valuation |-> d.saved,
           fileModel |-> IF d.filesKnown THEN "stale" ELSE "pending",
           enrichment |-> [s \in Sources |->
                              IF d.saved THEN "reliable" ELSE "stale"]]

Restart ==
    /\ restarts < MaxRestarts /\ restarts' = restarts + 1
    /\ Loaded(disk)
    /\ publishMu' = None
    /\ refresh' = IdleRefresh /\ files' = IdleFiles
    /\ enrich' = IdleEnrich /\ catchUp' = IdleCatchUp
    /\ UNCHANGED <<world, disk, faults>>

Init ==
    /\ world = [facts |-> [e \in Entities |->
                              [present |-> e \in Existing, at |-> 1, id |-> 1]],
                views |-> 1, clock |-> 1]
    /\ catalogue = NoItems /\ topology = NoTopology
    /\ generation = 0 /\ baseFingerprint = None
    /\ topologyMoved = FALSE /\ fileGeneration = 0 /\ filesKnown = FALSE
    /\ reliability = [inventory |-> FALSE, valuation |-> FALSE,
                      fileModel |-> "pending",
                      enrichment |-> [s \in Sources |-> "stale"]]
    /\ disk = [catalogue |-> NoItems, topology |-> NoTopology, rid |-> 0,
               saved |-> FALSE, filesKnown |-> FALSE]
    /\ publishMu = None
    /\ refresh = IdleRefresh /\ files = IdleFiles
    /\ enrich = IdleEnrich /\ catchUp = IdleCatchUp
    /\ faults = 0 /\ restarts = 0

World == (\E e \in Entities : WorldChange(e))
    \/ (\E m \in Media : WorldRematch(m)) \/ WorldWatch

Next ==
    \/ World \/ Restart
    \/ RefreshFetch \/ RefreshStep
    \/ FilesBeginFull \/ FilesBeginTargeted \/ FilesStep \/ FilesFail
    \/ (\E s \in Sources : EnrichStart(s) \/ CatchUpStart(s))
    \/ EnrichFail \/ EnrichPublish \/ CatchUpPublish \/ CatchUpFail

(* Intervals start the refresh and the full reconciliation again and again *)
(* and what has started runs on.  Strong fairness where a step waits for   *)
(* something others hold from time to time: publishMu, which Go hands to a *)
(* starving waiter, and the publication claim, which the scheduler grants  *)
(* in the order of waiting.                                                *)
Fairness ==
    /\ SF_vars(RefreshFetch) /\ SF_vars(RefreshStep)
    /\ WF_vars(FilesBeginFull) /\ WF_vars(FilesStep)
    /\ WF_vars(EnrichPublish)

Spec == Init /\ [][Next]_vars /\ Fairness

-----------------------------------------------------------------------------
(* Properties.                                                             *)

PublicationTypeOK ==
    /\ catalogue \in Catalogue /\ topology \in Topology
    /\ generation \in Nat /\ fileGeneration \in Nat
    /\ reliability.fileModel \in FileModels
    /\ disk.catalogue \in Catalogue /\ disk.topology \in Topology
    /\ publishMu \in {None, "files"}
    /\ refresh.all \in Catalogue /\ files.result \in Catalogue
    /\ (publishMu = "files") <=> (files.pc \in {"persist", "publish"})

(* A topology called reliable belongs to the generation of the base that   *)
(* is published, except while the refresh that has advanced the generation *)
(* is still on its way to publish the topology it brings                   *)
(* (ARCHITECTURE.md:24, reconcile.go:646-671, refresh.go:395-441).         *)
DeltaOnItsWay == refresh.pc \in {"persistDelta", "publish"}
ReliableIsCurrent ==
    (reliability.fileModel = "reliable" /\ ~ DeltaOnItsWay)
        => fileGeneration = generation

(* The valuation flag, which opens the gate of automatic planning together *)
(* with the inventory's (httpui/server.go:272), is up only while every     *)
(* enrichment source is flagged reliable and no failed save has withdrawn  *)
(* the inventory.  Whichever of the tasks finishes last: a refresh does    *)
(* not raise it over a source that is pending or has failed, and after a   *)
(* failed save no enrichment raises it before another refresh has read     *)
(* every service and published its base (enrichment.go:35-70,              *)
(* refresh.go:667-675, service.go:418-425).  It says nothing of the disk:  *)
(* that base is published, flagged and valued before it is written         *)
(* (refresh.go:451-474, 654-665).                                          *)
ValuationAwaitsSources ==
    reliability.valuation =>
        reliability.inventory /\ AllReliable(reliability.enrichment)

(* What is published about an entity's files was never observed before     *)
(* what it replaces: a refresh does not undo the reconciliation it raced   *)
(* with, nor a full reconciliation the delta of a refresh                  *)
(* (service.go:71-77).  A targeted run can, and a restart falls back to    *)
(* what is on disk.                                                        *)
TopologyNeverGoesBack ==
    [][ \/ restarts' # restarts
        \/ files.pc = "publish" /\ files.mode = "targeted"
        \/ \A e \in Entities : topology'[e].at >= topology[e].at ]_vars

(* Whatever races went before: once the services stop changing and no two  *)
(* runs overlap any more, refreshes and full reconciliations bring the     *)
(* published media and their files up to date, and keep them so.           *)
UpToDate(e) ==
    /\ catalogue[e].present = world.facts[e].present
    /\ topology[e] = Observe(e, [x \in Entities |-> world.facts[x]])
RunsOverlap == refresh.pc # "idle" /\ files.pc # "idle"
MediaConverge ==
    <>[](~ RunsOverlap) => <>[](\A m \in Media : UpToDate(m))
=============================================================================
