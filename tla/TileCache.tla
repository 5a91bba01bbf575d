------------------------------ MODULE TileCache ------------------------------
(***************************************************************************)
(* The content-addressed tile cache: build-cache stages of several runs,   *)
(* the training stages that read the cache, garbage collection of cache    *)
(* directories, and the raw dataset they all start from.                   *)
(*                                                                         *)
(* The raw dataset has a version; Key gives the tile_cache_id its hashes   *)
(* make (images are hashed by name and size, so two versions may share a   *)
(* key).  A cache directory maps each of its entries to the version it was *)
(* made from.  "coco" is the last annotation file of the enrichment.       *)
(* Image directories are not entries: they go last in any removal.         *)
(*                                                                         *)
(* An operator whose name ends in _Bug is the definition that follows it   *)
(* with one mistake, used only by the project's mutation runs.             *)
(***************************************************************************)
EXTENDS Naturals, FiniteSets

CONSTANTS
  Runs,       \* pipeline runs over the one dataset
  Versions,   \* contents the raw dataset may have
  NoVersion,
  Keys, Key,  \* tile cache ids, and the id of each version
  Tiles,      \* the image files of a cache
  MaxBuilds,  \* bound: build-cache processes of one run
  Faults      \* the faults the environment of this instance may inject

FaultNames ==
  { "fail",        \* a build-cache process raises or dies at any step
    "concurrent",  \* two builds overlap
    "gcfail"       \* a removal by the garbage collector ends half-way
  }

ASSUME ConstantsAssumption ==
  /\ Key \in [Versions -> Keys]
  /\ NoVersion \notin Versions
  /\ "none" \notin Keys /\ "coco" \notin Tiles /\ "meta" \notin Tiles
  /\ MaxBuilds \in Nat
  /\ Faults \subseteq FaultNames

Entries == Tiles \cup {"coco", "meta"}
Data == Tiles \cup {"coco"}

VARIABLES
  raw,        \* the version the raw dataset has now
  final,      \* the directory of each key
  building,   \* its .building directory
  bpc,        \* position of each run's build-cache process
  builds,     \* how many each run has started
  hash,       \* the version whose hashes it computed
  todo,       \* tiles its enrichment has to write, or files it has to remove
  crumb,      \* runs/{run_id}/tile_cache.json: the cache directory of each run
  gc,         \* the key whose directory is being collected, and the files listed
  trained     \* history: what the training stage of a run found in its data_dir

vars == <<raw, final, building, bpc, builds, hash, todo, crumb, gc, trained>>

Dirs == [there : BOOLEAN, file : [Entries -> Versions \cup {NoVersion}]]
Absent == [there |-> FALSE, file |-> [e \in Entries |-> NoVersion]]
Empty == [Absent EXCEPT !.there = TRUE]
Listing(d) == {e \in Entries : d.file[e] # NoVersion}
GcIdle == [on |-> FALSE, key |-> CHOOSE k \in Keys : TRUE, left |-> {}]
NotTrained == [done |-> FALSE, file |-> [e \in Data |-> NoVersion]]

BuilderPCs == {"idle", "check", "rmfinal", "leftover", "rmbuilding", "mkdir", "tiles", "coco",
               "meta", "publish", "rmold", "replace", "crumb", "ok", "failed"}

Id(r) == Key[hash[r]]
Building(r) == bpc[r] \notin {"idle", "ok", "failed"}

TypeOK ==
  /\ raw \in Versions
  /\ final \in [Keys -> Dirs] /\ building \in [Keys -> Dirs]
  /\ bpc \in [Runs -> BuilderPCs]
  /\ builds \in [Runs -> 0..MaxBuilds]
  /\ hash \in [Runs -> Versions]
  /\ todo \in [Runs -> SUBSET Entries]
  /\ crumb \in [Runs -> Keys \cup {"none"}]
  /\ gc \in [on : BOOLEAN, key : Keys, left : SUBSET Entries]
  /\ trained \in [Runs -> [done : BOOLEAN, file : [Data -> Versions \cup {NoVersion}]]]

Init ==
  /\ raw \in Versions
  /\ final = [k \in Keys |-> Absent] /\ building = [k \in Keys |-> Absent]
  /\ bpc = [r \in Runs |-> "idle"]
  /\ builds = [r \in Runs |-> 0]
  /\ hash = [r \in Runs |-> raw]
  /\ todo = [r \in Runs |-> {}]
  /\ crumb = [r \in Runs |-> "none"]
  /\ gc = GcIdle
  /\ trained = [r \in Runs |-> NotTrained]

-----------------------------------------------------------------------------
(***************************************************************************)
(* Directories.                                                            *)
(***************************************************************************)

\* cache_is_valid: the meta file is complete and the annotations are there.
Valid(k) == /\ final[k].there
            /\ final[k].file["meta"] # NoVersion /\ final[k].file["coco"] # NoVersion

Written(d, e, v) == [there |-> TRUE, file |-> [d.file EXCEPT ![e] = v]]
Removed(d, e) == [d EXCEPT !.file[e] = NoVersion]

\* The directory itself goes only when nothing was put there meanwhile.
Closed(d) == IF Listing(d) = {} THEN Absent ELSE d

-----------------------------------------------------------------------------
(***************************************************************************)
(* build_or_reuse_cache.                                                   *)
(***************************************************************************)
Goto(r, l) == bpc' = [bpc EXCEPT ![r] = l]
BuildFrame == UNCHANGED <<raw, builds, gc, trained>>

ComputeHashes(r) ==
  /\ bpc[r] \in {"idle", "failed", "ok"} /\ builds[r] < MaxBuilds
  /\ "concurrent" \in Faults \/ \A s \in Runs : ~Building(s)
  /\ ~gc.on
  /\ builds' = [builds EXCEPT ![r] = @ + 1]
  /\ hash' = [hash EXCEPT ![r] = raw]
  /\ trained' = [trained EXCEPT ![r] = NotTrained]
  /\ Goto(r, "check")
  /\ UNCHANGED <<raw, final, building, todo, crumb, gc>>

\* A valid cache is reused; an invalid one is in the way.
CheckValid(r) ==
  /\ bpc[r] = "check"
  /\ \/ Valid(Id(r)) /\ Goto(r, "crumb") /\ UNCHANGED todo
     \/ /\ ~Valid(Id(r)) /\ final[Id(r)].there
        /\ Goto(r, "rmfinal") /\ todo' = [todo EXCEPT ![r] = Listing(final[Id(r)])]
     \/ /\ ~Valid(Id(r)) /\ ~final[Id(r)].there
        /\ Goto(r, "leftover") /\ UNCHANGED todo
  /\ UNCHANGED <<final, building, hash, crumb>> /\ BuildFrame

\* shutil.rmtree(cache_dir, ignore_errors=True), before a build and before the
\* new directory is put in its place.
RemoveFinal(r) ==
  /\ bpc[r] \in {"rmfinal", "rmold"}
  /\ \/ \E e \in todo[r] :
          /\ final' = [final EXCEPT ![Id(r)] = Removed(@, e)]
          /\ todo' = [todo EXCEPT ![r] = @ \ {e}]
          /\ UNCHANGED bpc
     \/ /\ todo[r] = {}
        /\ final' = [final EXCEPT ![Id(r)] = Closed(@)]
        /\ Goto(r, IF bpc[r] = "rmfinal" THEN "leftover" ELSE "replace")
        /\ UNCHANGED todo
  /\ UNCHANGED <<building, hash, crumb>> /\ BuildFrame

\* A leftover build is resumed.
FindLeftover_Bug(r) ==
  /\ bpc[r] = "leftover"
  /\ IF building[Id(r)].there
       THEN /\ todo' = [todo EXCEPT ![r] = Tiles \ Listing(building[Id(r)])]
            /\ Goto(r, IF todo'[r] = {} THEN "coco" ELSE "tiles")
       ELSE Goto(r, "mkdir") /\ UNCHANGED todo
  /\ UNCHANGED <<final, building, hash, crumb>> /\ BuildFrame

FindLeftover(r) ==
  /\ bpc[r] = "leftover"
  /\ IF building[Id(r)].there
       THEN /\ todo' = [todo EXCEPT ![r] = Listing(building[Id(r)])]
            /\ Goto(r, "rmbuilding")
       ELSE Goto(r, "mkdir") /\ UNCHANGED todo
  /\ UNCHANGED <<final, building, hash, crumb>> /\ BuildFrame

RemoveBuilding(r) ==
  /\ bpc[r] = "rmbuilding"
  /\ \/ \E e \in todo[r] :
          /\ building' = [building EXCEPT ![Id(r)] = Removed(@, e)]
          /\ todo' = [todo EXCEPT ![r] = @ \ {e}]
          /\ UNCHANGED bpc
     \/ /\ todo[r] = {}
        /\ building' = [building EXCEPT ![Id(r)] = Closed(@)]
        /\ Goto(r, "mkdir")
        /\ UNCHANGED todo
  /\ UNCHANGED <<final, hash, crumb>> /\ BuildFrame

\* FileExistsError when the directory is there.
MakeBuilding(r) ==
  /\ bpc[r] = "mkdir"
  /\ IF building[Id(r)].there
       THEN Goto(r, "failed") /\ UNCHANGED <<building, todo>>
       ELSE /\ building' = [building EXCEPT ![Id(r)] = Empty]
            /\ todo' = [todo EXCEPT ![r] = Tiles]
            /\ Goto(r, "tiles")
  /\ UNCHANGED <<final, hash, crumb>> /\ BuildFrame

\* A tile that cannot be written is skipped.
EnrichTile_Bug(r) ==
  /\ bpc[r] = "tiles"
  /\ \E e \in todo[r] :
       /\ \/ building' = [building EXCEPT ![Id(r)] = Written(@, e, raw)]
          \/ UNCHANGED building
       /\ todo' = [todo EXCEPT ![r] = @ \ {e}]
       /\ IF todo[r] = {e} THEN Goto(r, "coco") ELSE UNCHANGED bpc
  /\ UNCHANGED <<final, hash, crumb>> /\ BuildFrame

\* enrich_dataset reads the raw dataset as it is now; writing a tile or an
\* annotation file makes the directories it needs.
EnrichTile(r) ==
  /\ bpc[r] = "tiles"
  /\ \E e \in todo[r] :
       /\ building' = [building EXCEPT ![Id(r)] = Written(@, e, raw)]
       /\ todo' = [todo EXCEPT ![r] = @ \ {e}]
       /\ IF todo[r] = {e} THEN Goto(r, "coco") ELSE UNCHANGED bpc
  /\ UNCHANGED <<final, hash, crumb>> /\ BuildFrame

EnrichAnnotations(r) ==
  /\ bpc[r] = "coco"
  /\ building' = [building EXCEPT ![Id(r)] = Written(@, "coco", raw)]
  /\ Goto(r, "meta")
  /\ UNCHANGED <<final, hash, todo, crumb>> /\ BuildFrame

\* write_text makes no directory.
WriteMeta(r) ==
  /\ bpc[r] = "meta"
  /\ IF building[Id(r)].there
       THEN /\ building' = [building EXCEPT ![Id(r)] = Written(@, "meta", hash[r])]
            /\ Goto(r, "publish")
       ELSE Goto(r, "failed") /\ UNCHANGED building
  /\ UNCHANGED <<final, hash, todo, crumb>> /\ BuildFrame

Publish(r) ==
  /\ bpc[r] = "publish"
  /\ IF final[Id(r)].there
       THEN Goto(r, "rmold") /\ todo' = [todo EXCEPT ![r] = Listing(final[Id(r)])]
       ELSE Goto(r, "replace") /\ UNCHANGED todo
  /\ UNCHANGED <<final, building, hash, crumb>> /\ BuildFrame

\* The finished directory is found by its suffix.
Replace_Bug(r) ==
  /\ bpc[r] = "replace"
  /\ \E k \in Keys :
       /\ building[k].there /\ building[k].file["meta"] # NoVersion
       /\ final' = [final EXCEPT ![Id(r)] = building[k]]
       /\ building' = [building EXCEPT ![k] = Absent]
  /\ Goto(r, "crumb")
  /\ UNCHANGED <<hash, todo, crumb>> /\ BuildFrame

\* os.replace raises when the source is gone or the target is not empty.
Replace(r) ==
  /\ bpc[r] = "replace"
  /\ IF building[Id(r)].there /\ Listing(final[Id(r)]) = {}
       THEN /\ final' = [final EXCEPT ![Id(r)] = building[Id(r)]]
            /\ building' = [building EXCEPT ![Id(r)] = Absent]
            /\ Goto(r, "crumb")
       ELSE Goto(r, "failed") /\ UNCHANGED <<final, building>>
  /\ UNCHANGED <<hash, todo, crumb>> /\ BuildFrame

\* A run that built nothing records null.
WriteBreadcrumb_Bug(r) ==
  /\ bpc[r] = "crumb"
  /\ crumb' = [crumb EXCEPT ![r] = NoVersion]
  /\ Goto(r, "ok")
  /\ UNCHANGED <<final, building, hash, todo>> /\ BuildFrame

WriteBreadcrumb(r) ==
  /\ bpc[r] = "crumb"
  /\ crumb' = [crumb EXCEPT ![r] = Id(r)]
  /\ Goto(r, "ok")
  /\ UNCHANGED <<final, building, hash, todo>> /\ BuildFrame

\* An exception of the enrichment, a full disk, or the end of the process.
BuildFails(r) ==
  /\ "fail" \in Faults /\ Building(r)
  /\ Goto(r, "failed") /\ todo' = [todo EXCEPT ![r] = {}]
  /\ UNCHANGED <<final, building, hash, crumb>> /\ BuildFrame

Build(r) ==
  \/ CheckValid(r) \/ RemoveFinal(r) \/ FindLeftover(r) \/ RemoveBuilding(r)
  \/ MakeBuilding(r) \/ EnrichTile(r) \/ EnrichAnnotations(r) \/ WriteMeta(r)
  \/ Publish(r) \/ Replace(r) \/ WriteBreadcrumb(r)

-----------------------------------------------------------------------------
(***************************************************************************)
(* The training stage.  run_all starts it after a failed build, too.       *)
(***************************************************************************)
\* The breadcrumb is ignored.
DataDir_Bug(r) == Key[raw]

\* The breadcrumb of the build stage, else the hashes are computed again.
DataDir(r) == IF crumb[r] # "none" THEN crumb[r] ELSE Key[raw]

\* The cache is looked up for the dataset alone; only is_dir is checked.
Train(r) ==
  /\ bpc[r] \in {"ok", "failed"} /\ ~trained[r].done
  /\ final[DataDir(r)].there
  /\ trained' = [trained EXCEPT ![r] =
                   [done |-> TRUE, file |-> [e \in Data |-> final[DataDir(r)].file[e]]]]
  /\ UNCHANGED <<raw, final, building, bpc, builds, hash, todo, crumb, gc>>

-----------------------------------------------------------------------------
(***************************************************************************)
(* The environment: a changed dataset and the garbage collector.           *)
(***************************************************************************)
\* The adapter or a person replaces the raw dataset between two builds.
EditDataset(v) ==
  /\ v # raw
  /\ \A r \in Runs : ~Building(r)
  /\ raw' = v
  /\ UNCHANGED <<final, building, bpc, builds, hash, todo, crumb, gc, trained>>

\* apply_plan on one cache directory; no run is building or about to train.
CollectStart(k) ==
  /\ ~gc.on /\ final[k].there
  /\ \A r \in Runs : bpc[r] = "idle" \/ trained[r].done
  /\ gc' = [on |-> TRUE, key |-> k, left |-> Listing(final[k])]
  /\ UNCHANGED <<raw, final, building, bpc, builds, hash, todo, crumb, trained>>

CollectFile ==
  /\ gc.on
  /\ \E e \in gc.left :
       /\ final' = [final EXCEPT ![gc.key] = Removed(@, e)]
       /\ gc' = [gc EXCEPT !.left = @ \ {e}]
  /\ UNCHANGED <<raw, building, bpc, builds, hash, todo, crumb, trained>>

CollectEnd ==
  /\ gc.on
  /\ \/ /\ gc.left = {}
        /\ final' = [final EXCEPT ![gc.key] = Closed(@)]
     \/ "gcfail" \in Faults /\ UNCHANGED final
  /\ gc' = GcIdle
  /\ UNCHANGED <<raw, building, bpc, builds, hash, todo, crumb, trained>>

-----------------------------------------------------------------------------
Next ==
  \/ \E r \in Runs : ComputeHashes(r) \/ Build(r) \/ BuildFails(r) \/ Train(r)
  \/ \E v \in Versions : EditDataset(v)
  \/ \E k \in Keys : CollectStart(k)
  \/ CollectFile \/ CollectEnd

Spec == Init /\ [][Next]_vars

-----------------------------------------------------------------------------
(***************************************************************************)
(* Properties.                                                             *)
(***************************************************************************)
Whole(d, v) == \A e \in Data : d.file[e] = v

\* "Build is atomic": a cache directory that passes the validity check holds
\* every tile and annotation of one version of the dataset, the one its key
\* stands for, whatever build crashed before.  (A directory is not looked at
\* while the collector is removing it.)
PublishedWhole ==
  \A k \in Keys : Valid(k) /\ ~(gc.on /\ gc.key = k) =>
    \E v \in Versions : Key[v] = k /\ Whole(final[k], v)

\* A training stage finds a whole cache in its data_dir, even when it goes on
\* after a failed build or from an old breadcrumb; after a successful build stage
\* it is the cache of the dataset this run hashed, also when the dataset has
\* changed since then.
TrainedOnOwnData ==
  \A r \in Runs : trained[r].done =>
    \E v \in Versions : Whole(trained[r], v) /\ (bpc[r] = "ok" => Key[v] = Id(r))

\* However the steps of builds and removals interleave and fail, a cache never
\* mixes files made from two versions of the dataset (it may lack some).
OneVersion ==
  \A k \in Keys : \A d, e \in Data \cap Listing(final[k]) :
    final[k].file[d] = final[k].file[e]

\* The cache implements a store whose items appear and disappear at once.
Content(k) == IF Valid(k) /\ ~(gc.on /\ gc.key = k) THEN final[k].file["coco"] ELSE NoVersion
Store == INSTANCE KeyedStore WITH store <- [k \in Keys |-> Content(k)]
StoreSpec == Store!Spec
=============================================================================
