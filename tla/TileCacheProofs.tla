--------------------------- MODULE TileCacheProofs ---------------------------
(***************************************************************************)
(* Proofs about TileCache for every set of runs, versions, keys and tiles. *)
(* All but types and OneVersion are about one build at a time, which may     *)
(* fail at any step, and a collector that removes what it starts on.       *)
(***************************************************************************)
EXTENDS TileCache, TLAPS

Alone == Faults \subseteq {"fail"}

(***************************************************************************)
(* The inductive invariant.                                                *)
(***************************************************************************)

\* What stands under a key is whole, except for the collector's directory.
Complete(k) == /\ final[k].file["meta"] # NoVersion
               /\ \E v \in Versions : Key[v] = k /\ Whole(final[k], v)
FinalOK ==
  \A k \in Keys :
    /\ final[k].there /\ ~(gc.on /\ gc.key = k) => Complete(k)
    /\ ~final[k].there => Listing(final[k]) = {}

\* One build at a time, over the dataset it has hashed, and no collector.
Exclusive ==
  /\ \A r, s \in Runs : Building(r) /\ Building(s) => r = s
  /\ \A r \in Runs : Building(r) => ~gc.on /\ hash[r] = raw

\* How far the .building directory of a build has come.
Rebuilds == {"leftover", "rmbuilding", "mkdir", "tiles", "coco", "meta", "publish", "replace"}
Progress(r) ==
  LET d == building[Id(r)] IN
  /\ bpc[r] \notin {"rmfinal", "rmold"}
  /\ bpc[r] \in Rebuilds => ~final[Id(r)].there
  /\ bpc[r] = "rmbuilding" => Listing(d) \subseteq todo[r]
  /\ bpc[r] = "mkdir" => ~d.there
  /\ bpc[r] = "tiles" => /\ todo[r] \subseteq Tiles
                         /\ \A e \in Tiles \ todo[r] : d.file[e] = hash[r]
  /\ bpc[r] = "coco" => \A e \in Tiles : d.file[e] = hash[r]
  /\ bpc[r] \in {"meta", "publish", "replace"} => Whole(d, hash[r])
  /\ bpc[r] \in {"publish", "replace"} => d.file["meta"] # NoVersion /\ d.there
  /\ bpc[r] = "ok" => crumb[r] = Id(r)

\* The collector runs while no training stage is due.
Collecting ==
  gc.on => /\ \A r \in Runs : bpc[r] = "idle" \/ trained[r].done
           /\ Listing(final[gc.key]) \subseteq gc.left

\* What the training stages have found.
Found(r) ==
  trained[r].done => /\ bpc[r] \in {"ok", "failed"}
                     /\ \E v \in Versions : /\ Whole(trained[r], v)
                                            /\ bpc[r] = "ok" => Key[v] = Id(r)

TrainedOK == \A r \in Runs : Found(r)
BuildsOK == \A r \in Runs : Progress(r)

IInv == TypeOK /\ FinalOK /\ Exclusive /\ BuildsOK /\ Collecting /\ TrainedOK

-----------------------------------------------------------------------------
(***************************************************************************)
(* Directories.                                                            *)
(***************************************************************************)
LEMMA DirFacts ==
  /\ Absent \in Dirs /\ Empty \in Dirs
  /\ ~Absent.there /\ Empty.there
  /\ \A e \in Entries : Absent.file[e] = NoVersion /\ Empty.file[e] = NoVersion
  /\ Listing(Absent) = {} /\ Listing(Empty) = {}
BY DEF Absent, Empty, Dirs, Listing

LEMMA WrittenFacts ==
  ASSUME NEW d \in Dirs, NEW e \in Entries, NEW v \in Versions
  PROVE  /\ Written(d, e, v) \in Dirs
         /\ Written(d, e, v).there
         /\ Written(d, e, v).file[e] = v
         /\ \A f \in Entries \ {e} : Written(d, e, v).file[f] = d.file[f]
BY DEF Written, Dirs

LEMMA RemovedFacts ==
  ASSUME NEW d \in Dirs, NEW e \in Entries
  PROVE  /\ Removed(d, e) \in Dirs
         /\ Removed(d, e).there = d.there
         /\ Listing(Removed(d, e)) = Listing(d) \ {e}
BY DEF Removed, Dirs, Listing

LEMMA ClosedFacts ==
  ASSUME NEW d \in Dirs
  PROVE  /\ Closed(d) \in Dirs
         /\ Listing(d) = {} => Closed(d) = Absent
BY DirFacts DEF Closed

LEMMA KeyFacts ==
  ASSUME TypeOK, NEW r \in Runs
  PROVE  Id(r) \in Keys /\ hash[r] \in Versions /\ Key \in [Versions -> Keys]
BY ConstantsAssumption DEF TypeOK, Id

-----------------------------------------------------------------------------
(***************************************************************************)
(* Types.                                                                  *)
(***************************************************************************)
LEMMA TypeInit == Init => TypeOK
<1> SUFFICES ASSUME Init PROVE TypeOK
  OBVIOUS
<1>1. Absent \in Dirs
  BY DirFacts
<1>2. GcIdle \in [on : BOOLEAN, key : Keys, left : SUBSET Entries]
  <2>1. Key[raw] \in Keys
    BY ConstantsAssumption DEF Init
  <2> QED BY <2>1 DEF GcIdle
<1>3. NotTrained \in [done : BOOLEAN, file : [Data -> Versions \cup {NoVersion}]]
  BY DEF NotTrained
<1>4. 0 \in 0..MaxBuilds
  BY ConstantsAssumption
<1> QED BY <1>1, <1>2, <1>3, <1>4 DEF Init, TypeOK, BuilderPCs

\* The two directories a step of a build can change.
LEMMA TypeDirs ==
  ASSUME TypeOK, NEW r \in Runs, Build(r)
  PROVE  final' \in [Keys -> Dirs] /\ building' \in [Keys -> Dirs]
<1>1. /\ Id(r) \in Keys /\ hash[r] \in Versions /\ raw \in Versions
      /\ final \in [Keys -> Dirs] /\ building \in [Keys -> Dirs] /\ todo[r] \subseteq Entries
  BY KeyFacts DEF TypeOK
<1>2. /\ final[Id(r)] \in Dirs /\ building[Id(r)] \in Dirs
  BY <1>1
<1>3. CASE RemoveFinal(r)
  BY <1>1, <1>2, <1>3, RemovedFacts, ClosedFacts DEF RemoveFinal
<1>4. CASE RemoveBuilding(r)
  BY <1>1, <1>2, <1>4, RemovedFacts, ClosedFacts DEF RemoveBuilding
<1>5. CASE MakeBuilding(r)
  BY <1>1, <1>5, DirFacts DEF MakeBuilding
<1>6. CASE EnrichTile(r)
  BY <1>1, <1>2, <1>6, WrittenFacts DEF EnrichTile
<1>7. CASE EnrichAnnotations(r)
  BY <1>1, <1>2, <1>7, WrittenFacts DEF EnrichAnnotations, Entries
<1>8. CASE WriteMeta(r)
  <2>1. "meta" \in Entries
    BY DEF Entries
  <2>2. Written(building[Id(r)], "meta", hash[r]) \in Dirs
    BY <1>1, <1>2, <2>1, WrittenFacts
  <2>3. CASE building[Id(r)].there
    BY <1>1, <1>8, <2>2, <2>3 DEF WriteMeta
  <2>4. CASE ~building[Id(r)].there
    BY <1>1, <1>8, <2>4 DEF WriteMeta
  <2> QED BY <2>3, <2>4
<1>9. CASE Replace(r)
  BY <1>1, <1>2, <1>9, DirFacts DEF Replace
<1>10. CASE CheckValid(r) \/ FindLeftover(r) \/ Publish(r) \/ WriteBreadcrumb(r)
  BY <1>1, <1>10 DEF CheckValid, FindLeftover, Publish, WriteBreadcrumb
<1> QED BY <1>3, <1>4, <1>5, <1>6, <1>7, <1>8, <1>9, <1>10 DEF Build

LEMMA TypeBuild == ASSUME TypeOK, NEW r \in Runs, Build(r) PROVE TypeOK'
<1>1. final' \in [Keys -> Dirs] /\ building' \in [Keys -> Dirs]
  BY TypeDirs
<1>2. Id(r) \in Keys
  BY KeyFacts
<1>3. bpc' \in [Runs -> BuilderPCs]
  BY DEF TypeOK, Build, CheckValid, RemoveFinal, FindLeftover, RemoveBuilding, MakeBuilding,
         EnrichTile, EnrichAnnotations, WriteMeta, Publish, Replace, WriteBreadcrumb,
         Goto, BuilderPCs
<1>4. todo' \in [Runs -> SUBSET Entries]
  <2>1. CASE CheckValid(r)
    BY <2>1 DEF TypeOK, CheckValid, Listing
  <2>2. CASE RemoveFinal(r)
    <3>1. todo' = todo \/ \E e \in todo[r] : todo' = [todo EXCEPT ![r] = @ \ {e}]
      BY <2>2 DEF RemoveFinal
    <3> QED BY <3>1 DEF TypeOK
  <2>3. CASE FindLeftover(r)
    BY <2>3 DEF TypeOK, FindLeftover, Listing
  <2>4. CASE RemoveBuilding(r)
    <3>1. todo' = todo \/ \E e \in todo[r] : todo' = [todo EXCEPT ![r] = @ \ {e}]
      BY <2>4 DEF RemoveBuilding
    <3> QED BY <3>1 DEF TypeOK
  <2>5. CASE MakeBuilding(r)
    BY <2>5 DEF TypeOK, MakeBuilding, Entries
  <2>6. CASE EnrichTile(r)
    BY <2>6 DEF TypeOK, EnrichTile
  <2>7. CASE Publish(r)
    BY <2>7 DEF TypeOK, Publish, Listing
  <2>8. CASE EnrichAnnotations(r) \/ WriteMeta(r) \/ Replace(r) \/ WriteBreadcrumb(r)
    BY <2>8 DEF TypeOK, EnrichAnnotations, WriteMeta, Replace, WriteBreadcrumb
  <2> QED BY <2>1, <2>2, <2>3, <2>4, <2>5, <2>6, <2>7, <2>8 DEF Build
<1>5. crumb' \in [Runs -> Keys \cup {"none"}] /\ hash' = hash /\ BuildFrame
  BY <1>2 DEF TypeOK, Build, CheckValid, RemoveFinal, FindLeftover, RemoveBuilding, MakeBuilding,
         EnrichTile, EnrichAnnotations, WriteMeta, Publish, Replace, WriteBreadcrumb
<1> QED BY <1>1, <1>3, <1>4, <1>5 DEF TypeOK, BuildFrame

LEMMA TypeStep == TypeOK /\ [Next]_vars => TypeOK'
<1> SUFFICES ASSUME TypeOK, [Next]_vars PROVE TypeOK'
  OBVIOUS
<1>1. CASE UNCHANGED vars
  BY <1>1 DEF vars, TypeOK
<1>2. ASSUME NEW r \in Runs, ComputeHashes(r) PROVE TypeOK'
  <2>1. builds' \in [Runs -> 0..MaxBuilds]
    BY <1>2, ConstantsAssumption DEF TypeOK, ComputeHashes
  <2>2. trained' \in [Runs -> [done : BOOLEAN, file : [Data -> Versions \cup {NoVersion}]]]
    <3>1. NotTrained \in [done : BOOLEAN, file : [Data -> Versions \cup {NoVersion}]]
      BY DEF NotTrained
    <3> QED BY <1>2, <3>1 DEF TypeOK, ComputeHashes
  <2>3. bpc' \in [Runs -> BuilderPCs]
    BY <1>2 DEF TypeOK, ComputeHashes, Goto, BuilderPCs
  <2> QED BY <1>2, <2>1, <2>2, <2>3 DEF TypeOK, ComputeHashes
<1>3. ASSUME NEW r \in Runs, Build(r) PROVE TypeOK'
  BY <1>3, TypeBuild
<1>4. ASSUME NEW r \in Runs, BuildFails(r) PROVE TypeOK'
  BY <1>4 DEF TypeOK, BuildFails, BuildFrame, Goto, BuilderPCs
<1>5. ASSUME NEW r \in Runs, Train(r) PROVE TypeOK'
  <2>1. DataDir(r) \in Keys
    BY ConstantsAssumption DEF TypeOK, DataDir
  <2>2. \A e \in Data : final[DataDir(r)].file[e] \in Versions \cup {NoVersion}
    BY <2>1 DEF TypeOK, Dirs, Data, Entries
  <2>3. trained' \in [Runs -> [done : BOOLEAN, file : [Data -> Versions \cup {NoVersion}]]]
    BY <1>5, <2>2 DEF TypeOK, Train
  <2> QED BY <1>5, <2>3 DEF TypeOK, Train
<1>6. ASSUME NEW v \in Versions, EditDataset(v) PROVE TypeOK'
  BY <1>6 DEF TypeOK, EditDataset
<1>7. ASSUME NEW k \in Keys, CollectStart(k) PROVE TypeOK'
  BY <1>7 DEF TypeOK, CollectStart, Listing
<1>8. CASE CollectFile
  <2>1. PICK e \in gc.left : /\ final' = [final EXCEPT ![gc.key] = Removed(@, e)]
                             /\ gc' = [gc EXCEPT !.left = @ \ {e}]
    BY <1>8 DEF CollectFile
  <2>2. final[gc.key] \in Dirs /\ e \in Entries
    BY DEF TypeOK
  <2>3. final' \in [Keys -> Dirs]
    BY <2>1, <2>2, RemovedFacts DEF TypeOK
  <2>4. gc' \in [on : BOOLEAN, key : Keys, left : SUBSET Entries]
    BY <2>1 DEF TypeOK
  <2> QED BY <1>8, <2>3, <2>4 DEF TypeOK, CollectFile
<1>9. CASE CollectEnd
  <2>1. final[gc.key] \in Dirs
    BY DEF TypeOK
  <2>2. final' \in [Keys -> Dirs]
    BY <1>9, <2>1, ClosedFacts DEF TypeOK, CollectEnd
  <2>3. gc' \in [on : BOOLEAN, key : Keys, left : SUBSET Entries]
    BY <1>9 DEF TypeOK, CollectEnd, GcIdle
  <2> QED BY <1>9, <2>2, <2>3 DEF TypeOK, CollectEnd
<1> QED BY <1>1, <1>2, <1>3, <1>4, <1>5, <1>6, <1>7, <1>8, <1>9 DEF Next

\* The variables keep their types whatever faults happen.
THEOREM TypeCorrect == Spec => []TypeOK
BY TypeInit, TypeStep, PTL DEF Spec

-----------------------------------------------------------------------------
(***************************************************************************)
(* The inductive invariant, one build at a time.                           *)
(***************************************************************************)
LEMMA IInvInit == Init => IInv
<1> SUFFICES ASSUME Init PROVE IInv
  OBVIOUS
<1>1. TypeOK
  BY TypeInit
<1>2. FinalOK
  BY DirFacts DEF Init, FinalOK
<1>3. ~gc.on
  BY DEF Init, GcIdle
<1>4. \A r \in Runs : bpc[r] = "idle" /\ ~trained[r].done
  BY DEF Init, NotTrained
<1>5. Exclusive /\ Collecting /\ TrainedOK
  BY <1>3, <1>4 DEF Exclusive, Building, Collecting, TrainedOK, Found
<1>6. BuildsOK
  BY <1>4 DEF BuildsOK, Progress, Rebuilds
<1> QED BY <1>1, <1>2, <1>5, <1>6 DEF IInv

\* A valid directory is what stands under a key.
LEMMA CompleteIsValid ==
  ASSUME NEW k \in Keys, final[k].there, Complete(k)
  PROVE  Valid(k)
<1>1. PICK v \in Versions : Whole(final[k], v)
  BY DEF Complete
<1>2. final[k].file["coco"] = v
  BY <1>1 DEF Whole, Data
<1> QED BY <1>2, ConstantsAssumption DEF Valid, Complete

\* What every step of a build leaves alone.
LEMMA BuildShape ==
  ASSUME TypeOK, NEW r \in Runs, Build(r) \/ BuildFails(r)
  PROVE  /\ Building(r)
         /\ \A s \in Runs \ {r} : bpc'[s] = bpc[s] /\ crumb'[s] = crumb[s]
         /\ hash' = hash /\ raw' = raw /\ gc' = gc /\ trained' = trained
<1>1. bpc \in [Runs -> BuilderPCs]
  BY DEF TypeOK
<1>2. Building(r)
  BY DEF Build, BuildFails, Building, CheckValid, RemoveFinal, FindLeftover, RemoveBuilding,
         MakeBuilding, EnrichTile, EnrichAnnotations, WriteMeta, Publish, Replace, WriteBreadcrumb
<1>3. \A s \in Runs \ {r} : bpc'[s] = bpc[s]
  BY <1>1 DEF Build, BuildFails, Goto, CheckValid, RemoveFinal, FindLeftover, RemoveBuilding,
         MakeBuilding, EnrichTile, EnrichAnnotations, WriteMeta, Publish, Replace, WriteBreadcrumb
<1>4. \A s \in Runs \ {r} : crumb'[s] = crumb[s]
  BY DEF TypeOK, Build, BuildFails, CheckValid, RemoveFinal, FindLeftover, RemoveBuilding,
         MakeBuilding, EnrichTile, EnrichAnnotations, WriteMeta, Publish, Replace, WriteBreadcrumb
<1>5. hash' = hash /\ BuildFrame
  BY DEF Build, BuildFails, CheckValid, RemoveFinal, FindLeftover, RemoveBuilding,
         MakeBuilding, EnrichTile, EnrichAnnotations, WriteMeta, Publish, Replace, WriteBreadcrumb
<1> QED BY <1>2, <1>3, <1>4, <1>5 DEF BuildFrame

\* A step of a build can disturb only what stands under the keys and its own
\* progress.
LEMMA BuildKeeps ==
  ASSUME IInv, NEW r \in Runs, Build(r) \/ BuildFails(r), TypeOK', FinalOK', Progress(r)'
  PROVE  IInv'
<1>1. /\ Building(r) /\ ~gc.on
      /\ \A s \in Runs \ {r} : bpc'[s] = bpc[s] /\ crumb'[s] = crumb[s]
      /\ hash' = hash /\ raw' = raw /\ gc' = gc /\ trained' = trained
  BY BuildShape DEF IInv, Exclusive
<1>2. \A s \in Runs \ {r} : ~Building(s)
  BY <1>1 DEF IInv, Exclusive
<1>3. Exclusive'
  BY <1>1, <1>2 DEF IInv, Exclusive, Building
<1>4. BuildsOK'
  <2>1. ASSUME NEW s \in Runs \ {r} PROVE Progress(s)'
    <3>1. bpc'[s] \in {"idle", "ok", "failed"}
      BY <1>1, <1>2 DEF Building
    <3>2. bpc'[s] = "ok" => crumb'[s] = Id(s)'
      BY <1>1 DEF IInv, BuildsOK, Progress, Id
    <3> QED BY <3>1, <3>2 DEF Progress, Rebuilds
  <2> QED BY <2>1 DEF BuildsOK
<1>5. Collecting'
  BY <1>1 DEF Collecting
<1>6. TrainedOK'
  <2>1. ~trained[r].done
    BY <1>1 DEF IInv, TrainedOK, Found, Building
  <2>2. ASSUME NEW s \in Runs \ {r} PROVE Found(s)'
    BY <1>1 DEF IInv, TrainedOK, Found, Id, Whole
  <2> QED BY <1>1, <2>1, <2>2 DEF TrainedOK, Found
<1> QED BY <1>3, <1>4, <1>5, <1>6 DEF IInv

\* Steps that leave the published directories alone.
LEMMA FinalKept ==
  ASSUME FinalOK, final' = final, gc' = gc
  PROVE  FinalOK'
BY DEF FinalOK, Complete, Whole, Listing

\* What the invariant says of the run that is building.
LEMMA BuilderFacts ==
  ASSUME IInv, NEW r \in Runs, Building(r)
  PROVE  /\ TypeOK /\ FinalOK /\ Progress(r) /\ ~gc.on /\ hash[r] = raw
         /\ Id(r) \in Keys /\ hash[r] \in Versions /\ hash[r] # NoVersion
         /\ final \in [Keys -> Dirs] /\ building \in [Keys -> Dirs]
         /\ final[Id(r)] \in Dirs /\ building[Id(r)] \in Dirs
         /\ bpc \in [Runs -> BuilderPCs] /\ todo \in [Runs -> SUBSET Entries]
         /\ crumb \in [Runs -> Keys \cup {"none"}]
<1>1. TypeOK /\ FinalOK /\ Progress(r) /\ ~gc.on /\ hash[r] = raw
  BY DEF IInv, BuildsOK, Exclusive
<1>2. Id(r) \in Keys /\ hash[r] \in Versions
  BY <1>1, KeyFacts
<1>3. hash[r] # NoVersion
  BY <1>2, ConstantsAssumption
<1>4. /\ final \in [Keys -> Dirs] /\ building \in [Keys -> Dirs]
      /\ bpc \in [Runs -> BuilderPCs] /\ todo \in [Runs -> SUBSET Entries]
      /\ crumb \in [Runs -> Keys \cup {"none"}]
  BY <1>1 DEF TypeOK
<1> QED BY <1>1, <1>2, <1>3, <1>4

LEMMA CheckValidStep ==
  ASSUME IInv, NEW r \in Runs, CheckValid(r)
  PROVE  FinalOK' /\ Progress(r)'
<1>1. Building(r)
  BY DEF CheckValid, Building
<1>2. /\ final' = final /\ building' = building /\ gc' = gc /\ Id(r)' = Id(r)
  BY DEF CheckValid, BuildFrame, Id
<1>3. FinalOK'
  BY <1>1, <1>2, FinalKept, BuilderFacts
<1>4. final[Id(r)].there => Valid(Id(r))
  <2>1. final[Id(r)].there => Complete(Id(r))
    BY <1>1, BuilderFacts DEF FinalOK
  <2> QED BY <1>1, <2>1, CompleteIsValid, BuilderFacts
<1>5. /\ bpc'[r] \in {"crumb", "leftover"}
      /\ bpc'[r] = "leftover" => ~final[Id(r)].there
  BY <1>1, <1>4, BuilderFacts DEF CheckValid, Goto
<1>6. Progress(r)'
  BY <1>2, <1>5 DEF Progress, Rebuilds
<1> QED BY <1>3, <1>6

LEMMA FindLeftoverStep ==
  ASSUME IInv, NEW r \in Runs, FindLeftover(r)
  PROVE  FinalOK' /\ Progress(r)'
<1>1. Building(r) /\ bpc[r] = "leftover"
  BY DEF FindLeftover, Building
<1>2. /\ final' = final /\ building' = building /\ gc' = gc /\ Id(r)' = Id(r)
  BY DEF FindLeftover, BuildFrame, Id
<1>3. FinalOK'
  BY <1>1, <1>2, FinalKept, BuilderFacts
<1>4. ~final[Id(r)].there
  BY <1>1, BuilderFacts DEF Progress, Rebuilds
<1>5. \/ bpc'[r] = "rmbuilding" /\ todo'[r] = Listing(building[Id(r)])
      \/ bpc'[r] = "mkdir" /\ ~building[Id(r)].there
  BY <1>1, BuilderFacts DEF FindLeftover, Goto
<1>6. Listing(building[Id(r)])' = Listing(building[Id(r)])
  BY <1>2 DEF Listing
<1>7. Progress(r)'
  BY <1>2, <1>4, <1>5, <1>6 DEF Progress, Rebuilds
<1> QED BY <1>3, <1>7

LEMMA RemoveBuildingStep ==
  ASSUME IInv, NEW r \in Runs, RemoveBuilding(r)
  PROVE  FinalOK' /\ Progress(r)'
<1>1. Building(r) /\ bpc[r] = "rmbuilding"
  BY DEF RemoveBuilding, Building
<1>2. final' = final /\ gc' = gc /\ Id(r)' = Id(r)
  BY DEF RemoveBuilding, BuildFrame, Id
<1>3. FinalOK'
  BY <1>1, <1>2, FinalKept, BuilderFacts
<1>4. ~final[Id(r)].there /\ Listing(building[Id(r)]) \subseteq todo[r]
  BY <1>1, BuilderFacts DEF Progress, Rebuilds
<1>5. ASSUME NEW e \in todo[r],
             building' = [building EXCEPT ![Id(r)] = Removed(@, e)],
             todo' = [todo EXCEPT ![r] = @ \ {e}], bpc' = bpc
      PROVE  Progress(r)'
  <2>1. e \in Entries
    BY <1>1, BuilderFacts
  <2>2. building'[Id(r)] = Removed(building[Id(r)], e) /\ todo'[r] = todo[r] \ {e}
    BY <1>1, <1>5, BuilderFacts
  <2>3. Listing(Removed(building[Id(r)], e)) = Listing(building[Id(r)]) \ {e}
    BY <1>1, <2>1, RemovedFacts, BuilderFacts
  <2>4. Listing(building[Id(r)])' = Listing(Removed(building[Id(r)], e))
    BY <1>2, <2>2 DEF Listing
  <2>5. Listing(building[Id(r)])' \subseteq todo'[r]
    BY <1>4, <2>2, <2>3, <2>4
  <2> QED BY <1>1, <1>2, <1>4, <1>5, <2>5 DEF Progress, Rebuilds
<1>6. ASSUME todo[r] = {},
             building' = [building EXCEPT ![Id(r)] = Closed(@)],
             Goto(r, "mkdir")
      PROVE  Progress(r)'
  <2>1. building'[Id(r)] = Absent
    <3>1. Listing(building[Id(r)]) = {}
      BY <1>4, <1>6
    <3>2. Closed(building[Id(r)]) = Absent
      BY <1>1, <3>1, ClosedFacts, BuilderFacts
    <3> QED BY <1>1, <1>6, <3>2, BuilderFacts
  <2>2. bpc'[r] = "mkdir"
    BY <1>1, <1>6, BuilderFacts DEF Goto
  <2> QED BY <1>2, <1>4, <2>1, <2>2, DirFacts DEF Progress, Rebuilds
<1>7. \/ \E e \in todo[r] : /\ building' = [building EXCEPT ![Id(r)] = Removed(@, e)]
                             /\ todo' = [todo EXCEPT ![r] = @ \ {e}]
                             /\ bpc' = bpc
      \/ /\ todo[r] = {} /\ building' = [building EXCEPT ![Id(r)] = Closed(@)]
         /\ Goto(r, "mkdir")
  BY DEF RemoveBuilding
<1> QED BY <1>3, <1>5, <1>6, <1>7

LEMMA MakeBuildingStep ==
  ASSUME IInv, NEW r \in Runs, MakeBuilding(r)
  PROVE  FinalOK' /\ Progress(r)'
<1>1. Building(r) /\ bpc[r] = "mkdir"
  BY DEF MakeBuilding, Building
<1>2. final' = final /\ gc' = gc /\ Id(r)' = Id(r)
  BY DEF MakeBuilding, BuildFrame, Id
<1>3. FinalOK'
  BY <1>1, <1>2, FinalKept, BuilderFacts
<1>4. ~final[Id(r)].there /\ ~building[Id(r)].there
  BY <1>1, BuilderFacts DEF Progress, Rebuilds
<1>5. bpc'[r] = "tiles" /\ todo'[r] = Tiles
  BY <1>1, <1>4, BuilderFacts DEF MakeBuilding, Goto
<1>6. Progress(r)'
  BY <1>2, <1>4, <1>5 DEF Progress, Rebuilds
<1> QED BY <1>3, <1>6

LEMMA EnrichTileStep ==
  ASSUME IInv, NEW r \in Runs, EnrichTile(r)
  PROVE  FinalOK' /\ Progress(r)'
<1>1. Building(r) /\ bpc[r] = "tiles"
  BY DEF EnrichTile, Building
<1>2. final' = final /\ gc' = gc /\ Id(r)' = Id(r) /\ hash' = hash
  BY DEF EnrichTile, BuildFrame, Id
<1>3. FinalOK'
  BY <1>1, <1>2, FinalKept, BuilderFacts
<1>4. /\ ~final[Id(r)].there /\ todo[r] \subseteq Tiles
      /\ \A e \in Tiles \ todo[r] : building[Id(r)].file[e] = hash[r]
  BY <1>1, BuilderFacts DEF Progress, Rebuilds
<1>5. PICK e \in todo[r] :
        /\ building' = [building EXCEPT ![Id(r)] = Written(@, e, raw)]
        /\ todo' = [todo EXCEPT ![r] = @ \ {e}]
        /\ IF todo[r] = {e} THEN Goto(r, "coco") ELSE UNCHANGED bpc
  BY DEF EnrichTile
<1>6. e \in Entries /\ Tiles \subseteq Entries
  BY <1>4 DEF Entries
<1>7. building'[Id(r)] = Written(building[Id(r)], e, hash[r]) /\ todo'[r] = todo[r] \ {e}
  BY <1>1, <1>5, BuilderFacts
<1>8. /\ building'[Id(r)].file[e] = hash[r]
      /\ \A f \in Entries \ {e} : building'[Id(r)].file[f] = building[Id(r)].file[f]
  BY <1>1, <1>6, <1>7, WrittenFacts, BuilderFacts
<1>9. \A f \in Tiles \ todo'[r] : building'[Id(r)].file[f] = hash[r]
  BY <1>4, <1>6, <1>7, <1>8
<1>10. bpc'[r] \in {"tiles", "coco"} /\ (bpc'[r] = "coco" => todo'[r] = {})
  BY <1>1, <1>5, <1>7, BuilderFacts DEF Goto
<1>11. Progress(r)'
  BY <1>2, <1>4, <1>7, <1>9, <1>10 DEF Progress, Rebuilds
<1> QED BY <1>3, <1>11

LEMMA EnrichAnnotationsStep ==
  ASSUME IInv, NEW r \in Runs, EnrichAnnotations(r)
  PROVE  FinalOK' /\ Progress(r)'
<1>1. Building(r) /\ bpc[r] = "coco"
  BY DEF EnrichAnnotations, Building
<1>2. final' = final /\ gc' = gc /\ Id(r)' = Id(r) /\ hash' = hash
  BY DEF EnrichAnnotations, BuildFrame, Id
<1>3. FinalOK'
  BY <1>1, <1>2, FinalKept, BuilderFacts
<1>4. ~final[Id(r)].there /\ \A e \in Tiles : building[Id(r)].file[e] = hash[r]
  BY <1>1, BuilderFacts DEF Progress, Rebuilds
<1>5. "coco" \in Entries /\ Tiles \subseteq Entries
  BY DEF Entries
<1>6. building'[Id(r)] = Written(building[Id(r)], "coco", hash[r]) /\ bpc'[r] = "meta"
  BY <1>1, BuilderFacts DEF EnrichAnnotations, Goto
<1>7. /\ building'[Id(r)].file["coco"] = hash[r]
      /\ \A f \in Entries \ {"coco"} : building'[Id(r)].file[f] = building[Id(r)].file[f]
  BY <1>1, <1>5, <1>6, WrittenFacts, BuilderFacts
<1>8. Whole(building[Id(r)], hash[r])'
  BY <1>2, <1>4, <1>5, <1>7 DEF Whole, Data
<1>9. Progress(r)'
  BY <1>2, <1>4, <1>6, <1>8 DEF Progress, Rebuilds
<1> QED BY <1>3, <1>9

LEMMA WriteMetaStep ==
  ASSUME IInv, NEW r \in Runs, WriteMeta(r)
  PROVE  FinalOK' /\ Progress(r)'
<1>1. Building(r) /\ bpc[r] = "meta"
  BY DEF WriteMeta, Building
<1>2. final' = final /\ gc' = gc /\ Id(r)' = Id(r) /\ hash' = hash
  BY DEF WriteMeta, BuildFrame, Id
<1>3. FinalOK'
  BY <1>1, <1>2, FinalKept, BuilderFacts
<1>4. ~final[Id(r)].there /\ Whole(building[Id(r)], hash[r])
  BY <1>1, BuilderFacts DEF Progress, Rebuilds
<1>5. CASE ~building[Id(r)].there
  <2>1. bpc'[r] = "failed"
    BY <1>1, <1>5, BuilderFacts DEF WriteMeta, Goto
  <2> QED BY <1>3, <2>1 DEF Progress, Rebuilds
<1>6. CASE building[Id(r)].there
  <2>1. "meta" \in Entries /\ Data \subseteq Entries \ {"meta"}
    BY ConstantsAssumption DEF Entries, Data
  <2>2. building'[Id(r)] = Written(building[Id(r)], "meta", hash[r]) /\ bpc'[r] = "publish"
    BY <1>1, <1>6, BuilderFacts DEF WriteMeta, Goto
  <2>3. /\ building'[Id(r)].there /\ building'[Id(r)].file["meta"] = hash[r]
        /\ \A f \in Entries \ {"meta"} : building'[Id(r)].file[f] = building[Id(r)].file[f]
    BY <1>1, <2>1, <2>2, WrittenFacts, BuilderFacts
  <2>4. Whole(building[Id(r)], hash[r])'
    BY <1>2, <1>4, <2>1, <2>3 DEF Whole
  <2>5. building'[Id(r)].file["meta"] # NoVersion
    BY <1>1, <2>3, BuilderFacts
  <2> QED BY <1>2, <1>3, <1>4, <2>2, <2>3, <2>4, <2>5 DEF Progress, Rebuilds
<1> QED BY <1>5, <1>6

LEMMA PublishStep ==
  ASSUME IInv, NEW r \in Runs, Publish(r)
  PROVE  FinalOK' /\ Progress(r)'
<1>1. Building(r) /\ bpc[r] = "publish"
  BY DEF Publish, Building
<1>2. /\ final' = final /\ building' = building /\ gc' = gc /\ Id(r)' = Id(r) /\ hash' = hash
  BY DEF Publish, BuildFrame, Id
<1>3. FinalOK'
  BY <1>1, <1>2, FinalKept, BuilderFacts
<1>4. /\ ~final[Id(r)].there /\ Whole(building[Id(r)], hash[r])
      /\ building[Id(r)].file["meta"] # NoVersion /\ building[Id(r)].there
  BY <1>1, BuilderFacts DEF Progress, Rebuilds
<1>5. bpc'[r] = "replace"
  BY <1>1, <1>4, BuilderFacts DEF Publish, Goto
<1>6. Progress(r)'
  BY <1>2, <1>4, <1>5 DEF Progress, Rebuilds, Whole
<1> QED BY <1>3, <1>6

LEMMA ReplaceStep ==
  ASSUME IInv, NEW r \in Runs, Replace(r)
  PROVE  /\ FinalOK' /\ Progress(r)'
         /\ ~final[Id(r)].there
         /\ final' = [final EXCEPT ![Id(r)] = building[Id(r)]]
         /\ building[Id(r)].there /\ Whole(building[Id(r)], hash[r])
<1>1. Building(r) /\ bpc[r] = "replace"
  BY DEF Replace, Building
<1>2. gc' = gc /\ Id(r)' = Id(r) /\ hash' = hash
  BY DEF Replace, BuildFrame, Id
<1>3. /\ ~final[Id(r)].there /\ Whole(building[Id(r)], hash[r])
      /\ building[Id(r)].file["meta"] # NoVersion /\ building[Id(r)].there
  BY <1>1, BuilderFacts DEF Progress, Rebuilds
<1>4. Listing(final[Id(r)]) = {}
  BY <1>1, <1>3, BuilderFacts DEF FinalOK
<1>5. final' = [final EXCEPT ![Id(r)] = building[Id(r)]] /\ bpc'[r] = "crumb"
  BY <1>1, <1>3, <1>4, BuilderFacts DEF Replace, Goto
<1>6. FinalOK'
  <2>1. ASSUME NEW k \in Keys \ {Id(r)}
        PROVE  final'[k] = final[k]
    BY <1>5, BuilderFacts, <1>1
  <2>2. final'[Id(r)] = building[Id(r)]
    BY <1>5, BuilderFacts, <1>1
  <2>3. Complete(Id(r))'
    <3>1. Key[hash[r]] = Id(r) /\ hash[r] \in Versions
      BY <1>1, BuilderFacts DEF Id
    <3>2. Whole(final'[Id(r)], hash[r])
      BY <1>3, <2>2
    <3> QED BY <1>2, <1>3, <2>2, <3>1, <3>2 DEF Complete, Whole
  <2>4. FinalOK
    BY <1>1, BuilderFacts
  <2> QED BY <1>2, <1>3, <2>1, <2>2, <2>3, <2>4 DEF FinalOK, Complete, Whole, Listing
<1>7. Progress(r)'
  BY <1>5 DEF Progress, Rebuilds
<1> QED BY <1>3, <1>5, <1>6, <1>7

LEMMA WriteBreadcrumbStep ==
  ASSUME IInv, NEW r \in Runs, WriteBreadcrumb(r)
  PROVE  FinalOK' /\ Progress(r)'
<1>1. Building(r)
  BY DEF WriteBreadcrumb, Building
<1>2. final' = final /\ gc' = gc /\ Id(r)' = Id(r)
  BY DEF WriteBreadcrumb, BuildFrame, Id
<1>3. FinalOK'
  BY <1>1, <1>2, FinalKept, BuilderFacts
<1>4. bpc'[r] = "ok" /\ crumb'[r] = Id(r)
  BY <1>1, BuilderFacts DEF WriteBreadcrumb, Goto
<1> QED BY <1>2, <1>3, <1>4 DEF Progress, Rebuilds

LEMMA BuildFailsStep ==
  ASSUME IInv, NEW r \in Runs, BuildFails(r)
  PROVE  FinalOK' /\ Progress(r)'
<1>1. Building(r)
  BY DEF BuildFails
<1>2. final' = final /\ gc' = gc
  BY DEF BuildFails, BuildFrame
<1>3. FinalOK'
  BY <1>1, <1>2, FinalKept, BuilderFacts
<1>4. bpc'[r] = "failed"
  BY <1>1, BuilderFacts DEF BuildFails, Goto
<1> QED BY <1>3, <1>4 DEF Progress, Rebuilds

\* Nothing is in the way of a build that does not reuse the cache.
LEMMA NothingInTheWay ==
  ASSUME IInv, NEW r \in Runs
  PROVE  ~RemoveFinal(r)
BY DEF IInv, BuildsOK, Progress, RemoveFinal

LEMMA BuildStep ==
  ASSUME IInv, NEW r \in Runs, Build(r) \/ BuildFails(r), TypeOK'
  PROVE  IInv'
<1>1. FinalOK' /\ Progress(r)'
  BY CheckValidStep, FindLeftoverStep, RemoveBuildingStep, MakeBuildingStep, EnrichTileStep,
     EnrichAnnotationsStep, WriteMetaStep, PublishStep, ReplaceStep, WriteBreadcrumbStep,
     BuildFailsStep, NothingInTheWay DEF Build
<1> QED BY <1>1, BuildKeeps

-----------------------------------------------------------------------------
(***************************************************************************)
(* The other steps.                                                        *)
(***************************************************************************)
LEMMA HashesStep ==
  ASSUME IInv, Alone, NEW r \in Runs, ComputeHashes(r), TypeOK'
  PROVE  IInv'
<1>1. /\ ~gc.on /\ gc' = gc /\ final' = final /\ building' = building /\ crumb' = crumb
      /\ raw' = raw /\ \A s \in Runs : ~Building(s)
  BY DEF ComputeHashes, Alone
<1>2. /\ bpc'[r] = "check" /\ hash'[r] = raw /\ ~trained'[r].done
      /\ \A s \in Runs \ {r} : bpc'[s] = bpc[s] /\ hash'[s] = hash[s] /\ trained'[s] = trained[s]
  BY DEF IInv, TypeOK, ComputeHashes, Goto, NotTrained
<1>3. FinalOK'
  BY <1>1, FinalKept DEF IInv
<1>4. Exclusive'
  BY <1>1, <1>2 DEF Exclusive, Building
<1>5. BuildsOK'
  <2>1. ASSUME NEW s \in Runs \ {r} PROVE Progress(s)'
    <3>1. bpc'[s] \in {"idle", "ok", "failed"}
      BY <1>1, <1>2 DEF Building
    <3>2. bpc'[s] = "ok" => crumb'[s] = Id(s)'
      BY <1>1, <1>2 DEF IInv, BuildsOK, Progress, Id
    <3> QED BY <3>1, <3>2 DEF Progress, Rebuilds
  <2>2. Progress(r)'
    BY <1>2 DEF Progress, Rebuilds
  <2> QED BY <2>1, <2>2 DEF BuildsOK
<1>6. Collecting'
  BY <1>1 DEF Collecting
<1>7. TrainedOK'
  BY <1>2 DEF IInv, TrainedOK, Found, Id, Whole
<1> QED BY <1>3, <1>4, <1>5, <1>6, <1>7 DEF IInv

LEMMA TrainStep ==
  ASSUME IInv, NEW r \in Runs, Train(r), TypeOK'
  PROVE  IInv'
<1>1. /\ bpc[r] \in {"ok", "failed"} /\ ~trained[r].done /\ final[DataDir(r)].there
      /\ UNCHANGED <<raw, final, building, bpc, builds, hash, todo, crumb, gc>>
  BY DEF Train
<1>2. ~gc.on
  BY <1>1 DEF IInv, Collecting
<1>3. DataDir(r) \in Keys /\ (bpc[r] = "ok" => DataDir(r) = Id(r))
  <2>1. bpc[r] = "ok" => crumb[r] = Id(r)
    BY DEF IInv, BuildsOK, Progress
  <2>2. Id(r) \in Keys
    BY KeyFacts DEF IInv
  <2>3. Key[raw] \in Keys /\ crumb[r] \in Keys \cup {"none"} /\ "none" \notin Keys
    BY ConstantsAssumption DEF IInv, TypeOK
  <2> QED BY <2>1, <2>2, <2>3 DEF DataDir
<1>4. PICK v \in Versions : Key[v] = DataDir(r) /\ Whole(final[DataDir(r)], v)
  BY <1>1, <1>2, <1>3 DEF IInv, FinalOK, Complete
<1>5. /\ \A s \in Runs \ {r} : trained'[s] = trained[s]
      /\ \A e \in Data : trained'[r].file[e] = final[DataDir(r)].file[e]
  BY DEF IInv, TypeOK, Train
<1>6. Whole(trained'[r], v)
  BY <1>4, <1>5 DEF Whole
<1>7. Found(r)'
  BY <1>1, <1>3, <1>4, <1>6 DEF Found, Id, Whole
<1>8. TrainedOK'
  BY <1>1, <1>5, <1>7 DEF IInv, TrainedOK, Found, Id, Whole
<1>9. FinalOK'
  BY <1>1, FinalKept DEF IInv
<1>10. Exclusive' /\ BuildsOK'
  BY <1>1 DEF IInv, Exclusive, BuildsOK, Building, Progress, Id, Whole, Listing
<1>11. Collecting'
  BY <1>1, <1>2 DEF Collecting
<1> QED BY <1>8, <1>9, <1>10, <1>11 DEF IInv

LEMMA EditStep ==
  ASSUME IInv, NEW v \in Versions, EditDataset(v), TypeOK'
  PROVE  IInv'
<1>1. /\ \A r \in Runs : ~Building(r)
      /\ UNCHANGED <<final, building, bpc, builds, hash, todo, crumb, gc, trained>>
  BY DEF EditDataset
<1>2. FinalOK'
  BY <1>1, FinalKept DEF IInv
<1>3. Exclusive'
  BY <1>1 DEF Exclusive, Building
<1>4. BuildsOK'
  BY <1>1 DEF IInv, BuildsOK, Progress, Id, Whole, Listing
<1>5. Collecting' /\ TrainedOK'
  BY <1>1 DEF IInv, Collecting, TrainedOK, Found, Id, Whole, Listing
<1> QED BY <1>2, <1>3, <1>4, <1>5 DEF IInv

LEMMA CollectStartStep ==
  ASSUME IInv, NEW k \in Keys, CollectStart(k), TypeOK'
  PROVE  IInv'
<1>1. /\ ~gc.on /\ gc' = [on |-> TRUE, key |-> k, left |-> Listing(final[k])]
      /\ \A r \in Runs : bpc[r] = "idle" \/ trained[r].done
      /\ UNCHANGED <<raw, final, building, bpc, builds, hash, todo, crumb, trained>>
  BY DEF CollectStart
<1>2. \A r \in Runs : ~Building(r)
  BY <1>1 DEF IInv, TrainedOK, Found, Building
<1>3. FinalOK'
  BY <1>1 DEF IInv, FinalOK, Complete, Whole, Listing
<1>4. Exclusive'
  BY <1>1, <1>2 DEF Exclusive, Building
<1>5. BuildsOK'
  BY <1>1 DEF IInv, BuildsOK, Progress, Id, Whole, Listing
<1>6. Collecting'
  BY <1>1 DEF Collecting, Listing
<1>7. TrainedOK'
  BY <1>1 DEF IInv, TrainedOK, Found, Id, Whole
<1> QED BY <1>3, <1>4, <1>5, <1>6, <1>7 DEF IInv

\* While the collector is at work nothing looks at its directory.
LEMMA CollectFileStep ==
  ASSUME IInv, CollectFile, TypeOK'
  PROVE  IInv'
<1>1. PICK e \in gc.left : /\ final' = [final EXCEPT ![gc.key] = Removed(@, e)]
                           /\ gc' = [gc EXCEPT !.left = @ \ {e}]
  BY DEF CollectFile
<1>2. gc.on /\ UNCHANGED <<raw, building, bpc, builds, hash, todo, crumb, trained>>
  BY DEF CollectFile
<1>3. /\ final \in [Keys -> Dirs] /\ gc.key \in Keys /\ e \in Entries
      /\ gc'.on /\ gc'.key = gc.key /\ gc'.left = gc.left \ {e}
  BY <1>1, <1>2 DEF IInv, TypeOK
<1>4. /\ \A k \in Keys \ {gc.key} : final'[k] = final[k]
      /\ final'[gc.key].there = final[gc.key].there
      /\ Listing(final'[gc.key]) = Listing(final[gc.key]) \ {e}
  BY <1>1, <1>3, RemovedFacts
<1>5. \A r \in Runs : ~Building(r)
  BY <1>2 DEF IInv, Exclusive
<1>6. FinalOK'
  <2>1. ASSUME NEW k \in Keys \ {gc.key}
        PROVE  /\ final'[k].there => Complete(k)'
               /\ ~final'[k].there => Listing(final'[k]) = {}
    BY <1>4 DEF IInv, FinalOK, Complete, Whole
  <2>2. ~final'[gc.key].there => Listing(final'[gc.key]) = {}
    BY <1>3, <1>4 DEF IInv, FinalOK
  <2>3. \A k \in Keys : Listing(final[k])' = Listing(final'[k])
    BY DEF Listing
  <2> QED BY <1>3, <2>1, <2>2, <2>3 DEF FinalOK
<1>7. Exclusive'
  BY <1>2, <1>5 DEF Exclusive, Building
<1>8. BuildsOK'
  <2>1. ASSUME NEW r \in Runs PROVE Progress(r)'
    <3>1. bpc'[r] \in {"idle", "ok", "failed"}
      BY <1>2, <1>5 DEF Building
    <3>2. bpc'[r] = "ok" => crumb'[r] = Id(r)'
      BY <1>2 DEF IInv, BuildsOK, Progress, Id
    <3> QED BY <3>1, <3>2 DEF Progress, Rebuilds
  <2> QED BY <2>1 DEF BuildsOK
<1>9. Collecting'
  BY <1>2, <1>3, <1>4 DEF IInv, Collecting, Listing
<1>10. TrainedOK'
  BY <1>2 DEF IInv, TrainedOK, Found, Id, Whole
<1> QED BY <1>6, <1>7, <1>8, <1>9, <1>10 DEF IInv

LEMMA CollectEndStep ==
  ASSUME IInv, Alone, CollectEnd, TypeOK'
  PROVE  IInv' /\ final' = [final EXCEPT ![gc.key] = Absent] /\ gc.on /\ ~gc'.on
<1>1. /\ gc.on /\ gc.left = {} /\ final' = [final EXCEPT ![gc.key] = Closed(@)]
      /\ ~gc'.on /\ UNCHANGED <<raw, building, bpc, builds, hash, todo, crumb, trained>>
  BY DEF CollectEnd, Alone, GcIdle
<1>2. final \in [Keys -> Dirs] /\ gc.key \in Keys
  BY DEF IInv, TypeOK
<1>3. Closed(final[gc.key]) = Absent
  BY <1>1, <1>2, ClosedFacts DEF IInv, Collecting
<1>4. /\ \A k \in Keys \ {gc.key} : final'[k] = final[k]
      /\ final'[gc.key] = Absent
  BY <1>1, <1>2, <1>3
<1>5. \A r \in Runs : ~Building(r)
  BY <1>1 DEF IInv, Exclusive
<1>6. FinalOK'
  <2>1. ASSUME NEW k \in Keys \ {gc.key}
        PROVE  /\ final'[k].there => Complete(k)'
               /\ ~final'[k].there => Listing(final'[k]) = {}
    BY <1>4 DEF IInv, FinalOK, Complete, Whole
  <2>2. ~final'[gc.key].there /\ Listing(final'[gc.key]) = {}
    BY <1>4, DirFacts
  <2>3. \A k \in Keys : Listing(final[k])' = Listing(final'[k])
    BY DEF Listing
  <2> QED BY <1>2, <2>1, <2>2, <2>3 DEF FinalOK
<1>7. Exclusive'
  BY <1>1, <1>5 DEF Exclusive, Building
<1>8. BuildsOK'
  <2>1. ASSUME NEW r \in Runs PROVE Progress(r)'
    <3>1. bpc'[r] \in {"idle", "ok", "failed"}
      BY <1>1, <1>5 DEF Building
    <3>2. bpc'[r] = "ok" => crumb'[r] = Id(r)'
      BY <1>1 DEF IInv, BuildsOK, Progress, Id
    <3> QED BY <3>1, <3>2 DEF Progress, Rebuilds
  <2> QED BY <2>1 DEF BuildsOK
<1>9. Collecting'
  BY <1>1 DEF Collecting
<1>10. TrainedOK'
  BY <1>1 DEF IInv, TrainedOK, Found, Id, Whole
<1>11. final' = [final EXCEPT ![gc.key] = Absent]
  BY <1>1, <1>2, <1>3
<1> QED BY <1>1, <1>6, <1>7, <1>8, <1>9, <1>10, <1>11 DEF IInv

LEMMA IInvStep == Alone /\ IInv /\ [Next]_vars => IInv'
<1> SUFFICES ASSUME Alone, IInv, [Next]_vars PROVE IInv'
  OBVIOUS
<1>1. TypeOK'
  BY TypeStep DEF IInv
<1>2. CASE UNCHANGED vars
  <2>1. FinalOK'
    BY <1>2, FinalKept DEF IInv, vars
  <2>2. Exclusive' /\ BuildsOK'
    BY <1>2 DEF IInv, vars, Exclusive, BuildsOK, Building, Progress, Id, Whole, Listing
  <2>3. Collecting' /\ TrainedOK'
    BY <1>2 DEF IInv, vars, Collecting, TrainedOK, Found, Id, Whole, Listing
  <2> QED BY <1>1, <2>1, <2>2, <2>3 DEF IInv
<1>3. CASE Next
  <2>1. CASE \E r \in Runs : ComputeHashes(r) \/ Build(r) \/ BuildFails(r) \/ Train(r)
    BY <1>1, <2>1, HashesStep, BuildStep, TrainStep
  <2>2. CASE \E v \in Versions : EditDataset(v)
    BY <1>1, <2>2, EditStep
  <2>3. CASE \E k \in Keys : CollectStart(k)
    BY <1>1, <2>3, CollectStartStep
  <2>4. CASE CollectFile \/ CollectEnd
    BY <1>1, <2>4, CollectFileStep, CollectEndStep
  <2> QED BY <1>3, <2>1, <2>2, <2>3, <2>4 DEF Next
<1> QED BY <1>2, <1>3

LEMMA Inductive == Alone => (Spec => []IInv)
<1>1. CASE Alone
  <2>1. IInv /\ [Next]_vars => IInv'
    BY <1>1, IInvStep
  <2> QED BY <2>1, IInvInit, PTL DEF Spec
<1> QED BY <1>1

-----------------------------------------------------------------------------
(***************************************************************************)
(* What follows from it.                                                   *)
(***************************************************************************)

\* A directory that passes the validity check is whole whatever build crashed
\* before (build_or_reuse_cache, cache_is_valid).
THEOREM PublishedWholeHolds == Alone => (Spec => []PublishedWhole)
<1>1. IInv => PublishedWhole
  BY DEF IInv, FinalOK, Complete, PublishedWhole, Valid
<1> QED BY <1>1, Inductive, PTL

\* The training stage finds a whole cache, and after a successful build stage
\* the one of the dataset the run hashed (_resolve_tile_cache_dir).
THEOREM TrainedHolds == Alone => (Spec => []TrainedOnOwnData)
<1>1. IInv => TrainedOnOwnData
  BY DEF IInv, TrainedOK, Found, TrainedOnOwnData
<1> QED BY <1>1, Inductive, PTL

-----------------------------------------------------------------------------
(***************************************************************************)
(* The cache implements KeyedStore: os.replace is Put, the start of a      *)
(* removal by the collector is Drop, every other step is a stutter.        *)
(***************************************************************************)
LEMMA ContentFacts ==
  ASSUME IInv, NEW k \in Keys
  PROVE  /\ final[k].there /\ ~(gc.on /\ gc.key = k) => Content(k) \in Versions
         /\ ~(final[k].there /\ ~(gc.on /\ gc.key = k)) => Content(k) = NoVersion
<1>1. CASE final[k].there /\ ~(gc.on /\ gc.key = k)
  <2>1. Complete(k)
    BY <1>1 DEF IInv, FinalOK
  <2>2. Valid(k)
    BY <1>1, <2>1, CompleteIsValid
  <2>3. final[k].file["coco"] \in Versions
    BY <2>1 DEF Complete, Whole, Data
  <2> QED BY <1>1, <2>2, <2>3 DEF Content
<1>2. CASE ~(final[k].there /\ ~(gc.on /\ gc.key = k))
  BY <1>2 DEF Content, Valid
<1> QED BY <1>1, <1>2

LEMMA ContentKept ==
  ASSUME NEW k \in Keys, final'[k] = final[k], (gc.on /\ gc.key = k)' = (gc.on /\ gc.key = k)
  PROVE  Content(k)' = Content(k)
BY DEF Content, Valid

LEMMA ReplaceIsPut ==
  ASSUME IInv, NEW r \in Runs, Replace(r)
  PROVE  Store!Put(Id(r), hash[r])
<1>1. Building(r)
  BY DEF Replace, Building
<1>2. /\ ~final[Id(r)].there /\ final' = [final EXCEPT ![Id(r)] = building[Id(r)]]
      /\ building[Id(r)].there /\ Whole(building[Id(r)], hash[r])
  BY ReplaceStep
<1>3. /\ Id(r) \in Keys /\ ~gc.on /\ gc' = gc /\ final \in [Keys -> Dirs]
      /\ Key[hash[r]] = Id(r) /\ hash[r] # NoVersion
      /\ building[Id(r)].file["meta"] # NoVersion
  BY <1>1, BuilderFacts DEF Replace, BuildFrame, Id, Progress, Rebuilds
<1>4. final'[Id(r)] = building[Id(r)] /\ \A k \in Keys \ {Id(r)} : final'[k] = final[k]
  BY <1>2, <1>3
<1>5. building[Id(r)].file["coco"] = hash[r]
  BY <1>2 DEF Whole, Data
<1>6. Content(Id(r)) = NoVersion
  BY <1>2, <1>3, ContentFacts
<1>7. ASSUME NEW c, c = Id(r) PROVE Content(c)' = hash[r]
  BY <1>2, <1>3, <1>4, <1>5, <1>7 DEF Content, Valid
<1>8. \A k \in Keys \ {Id(r)} : Content(k)' = Content(k)
  BY <1>3, <1>4, ContentKept
<1>9. [k \in Keys |-> Content(k)]' = [[k \in Keys |-> Content(k)] EXCEPT ![Id(r)] = hash[r]]
  BY <1>3, <1>7, <1>8
<1> QED BY <1>3, <1>6, <1>9 DEF Store!Put

LEMMA CollectStartIsDrop ==
  ASSUME IInv, NEW k \in Keys, CollectStart(k)
  PROVE  Store!Drop(k)
<1>1. /\ ~gc.on /\ final[k].there /\ final' = final /\ gc'.on /\ gc'.key = k
  BY DEF CollectStart
<1>2. Content(k) # NoVersion
  BY <1>1, ContentFacts, ConstantsAssumption
<1>3. Content(k)' = NoVersion
  BY <1>1 DEF Content
<1>4. \A j \in Keys \ {k} : Content(j)' = Content(j)
  BY <1>1, ContentKept
<1>5. [j \in Keys |-> Content(j)]' = [[j \in Keys |-> Content(j)] EXCEPT ![k] = NoVersion]
  BY <1>3, <1>4
<1> QED BY <1>2, <1>5 DEF Store!Drop

\* The other steps change neither a directory nor the collector, except in the
\* directory that is being collected.
LEMMA OthersStutter ==
  ASSUME IInv, Alone, (final' = final /\ gc' = gc) \/ CollectFile \/ CollectEnd, TypeOK'
  PROVE  [k \in Keys |-> Content(k)]' = [k \in Keys |-> Content(k)]
<1>1. CASE final' = final /\ gc' = gc
  BY <1>1 DEF Content, Valid
<1>2. CASE CollectFile
  <2>1. /\ gc.on /\ gc'.on /\ gc'.key = gc.key /\ gc.key \in Keys
        /\ \A k \in Keys \ {gc.key} : final'[k] = final[k]
    BY <1>2 DEF CollectFile, IInv, TypeOK
  <2>2. \A k \in Keys : Content(k)' = Content(k)
    BY <2>1 DEF Content, Valid
  <2> QED BY <2>2
<1>3. CASE CollectEnd
  <2>1. /\ gc.on /\ ~gc'.on /\ gc.key \in Keys /\ final \in [Keys -> Dirs]
        /\ final' = [final EXCEPT ![gc.key] = Absent]
    BY <1>3, CollectEndStep DEF IInv, TypeOK
  <2>2. ~final'[gc.key].there /\ \A k \in Keys \ {gc.key} : final'[k] = final[k]
    BY <2>1, DirFacts
  <2>3. \A k \in Keys : Content(k)' = Content(k)
    BY <2>1, <2>2 DEF Content, Valid
  <2> QED BY <2>3
<1> QED BY <1>1, <1>2, <1>3

LEMMA StoreStep ==
  Alone /\ IInv /\ [Next]_vars => [Store!Next]_([k \in Keys |-> Content(k)])
<1> SUFFICES ASSUME Alone, IInv, [Next]_vars
             PROVE  Store!Next \/ [k \in Keys |-> Content(k)]' = [k \in Keys |-> Content(k)]
  OBVIOUS
<1>1. TypeOK'
  BY TypeStep DEF IInv
<1>2. CASE \E r \in Runs : Replace(r)
  <2>1. PICK r \in Runs : Replace(r)
    BY <1>2
  <2>2. Id(r) \in Keys /\ hash[r] \in Versions
    BY KeyFacts DEF IInv
  <2> QED BY <2>1, <2>2, ReplaceIsPut DEF Store!Next
<1>3. CASE \E k \in Keys : CollectStart(k)
  BY <1>3, CollectStartIsDrop DEF Store!Next
<1>4. CASE CollectFile \/ CollectEnd
  BY <1>1, <1>4, OthersStutter
<1>5. CASE UNCHANGED vars \/ \E v \in Versions : EditDataset(v)
  BY <1>1, <1>5, OthersStutter DEF vars, EditDataset
<1>6. CASE \E r \in Runs : ComputeHashes(r) \/ BuildFails(r) \/ Train(r)
  BY <1>1, <1>6, OthersStutter DEF ComputeHashes, BuildFails, BuildFrame, Train
<1>7. CASE \E r \in Runs : Build(r) /\ ~Replace(r)
  <2>1. PICK r \in Runs : Build(r) /\ ~Replace(r)
    BY <1>7
  <2>2. final' = final /\ gc' = gc
    BY <2>1, NothingInTheWay DEF Build, BuildFrame, CheckValid, FindLeftover, RemoveBuilding,
       MakeBuilding, EnrichTile, EnrichAnnotations, WriteMeta, Publish, WriteBreadcrumb
  <2> QED BY <1>1, <2>2, OthersStutter
<1> QED BY <1>2, <1>3, <1>4, <1>5, <1>6, <1>7 DEF Next

\* A cache appears with os.replace and disappears when the collector starts on
\* it; no reader sees a half-built one, whatever build crashed.
THEOREM ImplementsKeyedStore == Alone => (Spec => StoreSpec)
<1>1. Init => Store!Init
  BY DirFacts DEF Init, Store!Init, Content, Valid
<1>2. CASE Alone
  <2>1. IInv /\ [Next]_vars => [Store!Next]_([k \in Keys |-> Content(k)])
    BY <1>2, StoreStep
  <2>2. Spec => []IInv
    BY <1>2, Inductive
  <2> QED BY <1>1, <2>1, <2>2, PTL DEF Spec, StoreSpec, Store!Spec
<1> QED BY <1>2

-----------------------------------------------------------------------------
(***************************************************************************)
(* OneVersion: overlapping builds, failing builds and failing removals.    *)
(* The raw dataset does not change while a build is under way.  So whoever *)
(* may write into a .building directory finds there only files of the      *)
(* version it writes: the directory was empty when mkdir made it, and the  *)
(* others only remove files or write the same version.                     *)
(***************************************************************************)
OfOneVersion(d) == \A e, f \in Data \cap Listing(d) : d.file[e] = d.file[f]

Holds(d, v) == \A e \in Data : d.file[e] \in {v, NoVersion}

\* The files of d are files of c.
Shrunk(d, c) == \A e \in Data : d.file[e] \in {c.file[e], NoVersion}

\* From the mkdir of a build to its os.replace.
Writing == {"tiles", "coco", "meta", "publish", "rmold", "replace"}

VersionInv ==
  /\ TypeOK
  /\ \A k \in Keys : OfOneVersion(final[k]) /\ OfOneVersion(building[k])
  /\ \A r \in Runs : bpc[r] \in Writing => Holds(building[Id(r)], raw)

\* A file that is written holds the version it is written with; the others stay.
LEMMA WrittenData ==
  ASSUME NEW d \in Dirs, NEW e \in Entries, NEW v \in Versions, NEW f \in Data
  PROVE  Written(d, e, v).file[f] \in {d.file[f], v}
<1>1. f \in Entries
  BY DEF Data, Entries
<1>2. CASE f = e
  <2>1. Written(d, e, v).file[e] = v
    BY WrittenFacts
  <2> QED BY <1>2, <2>1
<1>3. CASE f # e
  <2>1. Written(d, e, v).file[f] = d.file[f]
    BY <1>1, <1>3, WrittenFacts
  <2> QED BY <2>1
<1> QED BY <1>2, <1>3

LEMMA HoldsFacts ==
  ASSUME NEW c \in Dirs, NEW d \in Dirs
  PROVE  /\ \A v \in Versions : Holds(d, v) => OfOneVersion(d)
         /\ Shrunk(d, c) /\ OfOneVersion(c) => OfOneVersion(d)
         /\ \A v \in Versions : Shrunk(d, c) /\ Holds(c, v) => Holds(d, v)
<1> USE DEF Data, Entries, Listing
<1>1. \A v \in Versions : Holds(d, v) => OfOneVersion(d)
  BY DEF Holds, OfOneVersion
<1>2. Shrunk(d, c) /\ OfOneVersion(c) => OfOneVersion(d)
  <2> SUFFICES ASSUME Shrunk(d, c), OfOneVersion(c), NEW e \in Data \cap Listing(d), NEW f \in Data \cap Listing(d)
               PROVE  d.file[e] = d.file[f]
    BY DEF OfOneVersion
  <2>1. d.file[e] = c.file[e] /\ d.file[f] = c.file[f]
    BY DEF Shrunk
  <2>2. e \in Data \cap Listing(c) /\ f \in Data \cap Listing(c)
    BY <2>1
  <2> QED BY <2>1, <2>2 DEF OfOneVersion
<1>3. \A v \in Versions : Shrunk(d, c) /\ Holds(c, v) => Holds(d, v)
  BY DEF Shrunk, Holds
<1> QED BY <1>1, <1>2, <1>3

LEMMA EmptiedFacts ==
  /\ \A d : Shrunk(d, d)
  /\ \A d \in Dirs : /\ Shrunk(Closed(d), d)
                    /\ \A e \in Entries : Shrunk(Removed(d, e), d)
  /\ \A v : Holds(Empty, v) /\ Holds(Absent, v)
  /\ OfOneVersion(Empty) /\ OfOneVersion(Absent)
<1> USE DEF Data
<1>1. \A d : Shrunk(d, d)
  BY DEF Shrunk
<1>2. ASSUME NEW d \in Dirs PROVE Shrunk(Closed(d), d)
  BY DirFacts DEF Closed, Shrunk, Entries
<1>3. ASSUME NEW d \in Dirs, NEW e \in Entries PROVE Shrunk(Removed(d, e), d)
  BY DEF Removed, Dirs, Shrunk, Entries
<1>4. \A v : Holds(Empty, v) /\ Holds(Absent, v)
  BY DirFacts DEF Holds, Entries
<1>5. OfOneVersion(Empty) /\ OfOneVersion(Absent)
  BY DirFacts DEF OfOneVersion
<1> QED BY <1>1, <1>2, <1>3, <1>4, <1>5

\* A build writes nothing but files of the raw dataset, into its own directory;
\* what stands under a key after a step stood there or in .building before.
LEMMA BuildWrites ==
  ASSUME TypeOK, NEW r \in Runs, Build(r), NEW k \in Keys
  PROVE  /\ \/ Shrunk(building'[k], building[k])
            \/ building'[k] \in {Empty, Absent}
            \/ /\ bpc[r] \in Writing /\ k = Id(r)
               /\ \A e \in Data : building'[k].file[e] \in {building[k].file[e], raw}
         /\ Shrunk(final'[k], final[k]) \/ final'[k] = building[k]
<1>1. /\ Id(r) \in Keys /\ hash[r] \in Versions /\ raw \in Versions
      /\ final \in [Keys -> Dirs] /\ building \in [Keys -> Dirs] /\ todo[r] \subseteq Entries
      /\ final[k] \in Dirs /\ building[k] \in Dirs
  BY KeyFacts DEF TypeOK
<1>2. CASE RemoveFinal(r)
  BY <1>1, <1>2, EmptiedFacts DEF RemoveFinal
<1>3. CASE RemoveBuilding(r)
  BY <1>1, <1>3, EmptiedFacts DEF RemoveBuilding
<1>4. CASE MakeBuilding(r)
  BY <1>1, <1>4, EmptiedFacts DEF MakeBuilding
<1>5. CASE EnrichTile(r)
  <2>1. PICK e \in todo[r] : building' = [building EXCEPT ![Id(r)] = Written(@, e, raw)]
    BY <1>5 DEF EnrichTile
  <2>2. \A f \in Data : Written(building[Id(r)], e, raw).file[f] \in {building[Id(r)].file[f], raw}
    <3>1. building[Id(r)] \in Dirs /\ e \in Entries
      BY <1>1, <2>1
    <3> QED BY <1>1, <3>1, WrittenData
  <2>3. bpc[r] \in Writing /\ final' = final
    BY <1>5 DEF EnrichTile, Writing
  <2> QED BY <1>1, <2>1, <2>2, <2>3, EmptiedFacts
<1>6. CASE EnrichAnnotations(r)
  <2>1. \A f \in Data : Written(building[Id(r)], "coco", raw).file[f] \in {building[Id(r)].file[f], raw}
    <3>1. building[Id(r)] \in Dirs /\ "coco" \in Entries
      BY <1>1 DEF Entries
    <3> QED BY <1>1, <3>1, WrittenData
  <2>2. bpc[r] \in Writing /\ final' = final /\ building' = [building EXCEPT ![Id(r)] = Written(@, "coco", raw)]
    BY <1>6 DEF EnrichAnnotations, Writing
  <2> QED BY <1>1, <2>1, <2>2, EmptiedFacts
<1>7. CASE WriteMeta(r)
  <2>1. "meta" \in Entries /\ "meta" \notin Data
    BY ConstantsAssumption DEF Entries, Data
  <2>2. \A f \in Data : Written(building[Id(r)], "meta", hash[r]).file[f] = building[Id(r)].file[f]
    BY <1>1, <2>1, WrittenFacts DEF Data, Entries
  <2>3. /\ final' = final
        /\ \/ building' = building
           \/ building' = [building EXCEPT ![Id(r)] = Written(@, "meta", hash[r])]
    BY <1>7 DEF WriteMeta
  <2>4. building'[k] = building[k] \/ (building'[k] = Written(building[k], "meta", hash[r]) /\ k = Id(r))
    BY <1>1, <2>3
  <2>5. Shrunk(building'[k], building[k])
    BY <2>2, <2>4 DEF Shrunk
  <2> QED BY <2>3, <2>5, EmptiedFacts
<1>8. CASE Replace(r)
  <2>1. CASE UNCHANGED <<final, building>>
    BY <2>1, EmptiedFacts
  <2>2. CASE /\ final' = [final EXCEPT ![Id(r)] = building[Id(r)]]
             /\ building' = [building EXCEPT ![Id(r)] = Absent]
    BY <1>1, <2>2, EmptiedFacts
  <2> QED BY <1>8, <2>1, <2>2 DEF Replace
<1>9. CASE CheckValid(r) \/ FindLeftover(r) \/ Publish(r) \/ WriteBreadcrumb(r)
  BY <1>9, EmptiedFacts DEF CheckValid, FindLeftover, Publish, WriteBreadcrumb
<1> QED BY <1>2, <1>3, <1>4, <1>5, <1>6, <1>7, <1>8, <1>9 DEF Build

\* Who may write after a step of a build might do so before, or has just made the
\* directory.
LEMMA BuildMayWrite ==
  ASSUME TypeOK, NEW r \in Runs, Build(r), NEW s \in Runs, bpc'[s] \in Writing
  PROVE  bpc[s] \in Writing \/ building'[Id(s)] = Empty
<1> USE DEF TypeOK, Goto, Writing
<1>1. CASE MakeBuilding(r)
  BY <1>1, KeyFacts DEF MakeBuilding
<1>2. CASE CheckValid(r) \/ RemoveFinal(r) \/ FindLeftover(r) \/ RemoveBuilding(r)
  BY <1>2 DEF CheckValid, RemoveFinal, FindLeftover, RemoveBuilding
<1>3. CASE EnrichTile(r) \/ EnrichAnnotations(r) \/ WriteMeta(r) \/ Publish(r) \/ Replace(r) \/ WriteBreadcrumb(r)
  BY <1>3 DEF EnrichTile, EnrichAnnotations, WriteMeta, Publish, Replace, WriteBreadcrumb
<1> QED BY <1>1, <1>2, <1>3 DEF Build

LEMMA VersionBuild ==
  ASSUME VersionInv, NEW r \in Runs, Build(r) PROVE VersionInv'
<1>1. /\ TypeOK /\ TypeOK' /\ raw' = raw /\ hash' = hash /\ raw \in Versions
  BY TypeBuild DEF VersionInv, TypeOK, Build, CheckValid, RemoveFinal, FindLeftover, RemoveBuilding, MakeBuilding,
     EnrichTile, EnrichAnnotations, WriteMeta, Publish, Replace, WriteBreadcrumb, BuildFrame
<1>2. \A s \in Runs : Id(s)' = Id(s) /\ Id(s) \in Keys
  BY <1>1, KeyFacts DEF Id
<1>3. \A k \in Keys : /\ final[k] \in Dirs /\ final'[k] \in Dirs
                     /\ building[k] \in Dirs /\ building'[k] \in Dirs
  BY <1>1 DEF TypeOK
<1>4. ASSUME NEW k \in Keys, bpc[r] \in Writing, k = Id(r),
             \A e \in Data : building'[k].file[e] \in {building[k].file[e], raw}
      PROVE  Holds(building'[k], raw)
  BY <1>4 DEF VersionInv, Holds
<1>5. ASSUME NEW k \in Keys PROVE OfOneVersion(building'[k]) /\ OfOneVersion(final'[k])
  <2>1. OfOneVersion(building[k]) /\ OfOneVersion(final[k])
    BY DEF VersionInv
  <2>2. OfOneVersion(building'[k])
    BY <1>1, <1>3, <1>4, <2>1, BuildWrites, HoldsFacts, EmptiedFacts
  <2>3. OfOneVersion(final'[k])
    BY <1>1, <1>3, <2>1, BuildWrites, HoldsFacts
  <2> QED BY <2>2, <2>3
<1>6. ASSUME NEW s \in Runs, bpc'[s] \in Writing PROVE Holds(building'[Id(s)], raw)
  <2>1. CASE building'[Id(s)] \in {Empty, Absent}
    BY <2>1, EmptiedFacts
  <2>2. CASE bpc[s] \in Writing /\ building'[Id(s)] \notin {Empty, Absent}
    <3>1. Holds(building[Id(s)], raw)
      BY <2>2 DEF VersionInv
    <3> QED BY <1>1, <1>2, <1>3, <1>4, <2>2, <3>1, BuildWrites, HoldsFacts
  <2> QED BY <1>1, <1>6, <2>1, <2>2, BuildMayWrite
<1> QED BY <1>1, <1>2, <1>5, <1>6 DEF VersionInv

LEMMA VersionStep == VersionInv /\ [Next]_vars => VersionInv'
<1> SUFFICES ASSUME VersionInv, [Next]_vars PROVE VersionInv'
  OBVIOUS
<1>1. TypeOK /\ TypeOK'
  BY TypeStep DEF VersionInv
<1>2. ASSUME UNCHANGED <<raw, final, building>>, \A r \in Runs : bpc'[r] \in Writing => bpc[r] \in Writing /\ hash'[r] = hash[r]
      PROVE  VersionInv'
  BY <1>1, <1>2 DEF VersionInv, Id
<1>3. CASE UNCHANGED vars
  BY <1>2, <1>3 DEF vars
<1>4. ASSUME NEW r \in Runs, ComputeHashes(r) PROVE VersionInv'
  <2>1. \A s \in Runs : bpc'[s] \in Writing => bpc[s] \in Writing /\ hash'[s] = hash[s]
    BY <1>1, <1>4 DEF ComputeHashes, Goto, TypeOK, Writing
  <2> QED BY <1>2, <1>4, <2>1 DEF ComputeHashes
<1>5. ASSUME NEW r \in Runs, Build(r) PROVE VersionInv'
  BY <1>5, VersionBuild
<1>6. ASSUME NEW r \in Runs, BuildFails(r) PROVE VersionInv'
  <2>1. \A s \in Runs : bpc'[s] \in Writing => bpc[s] \in Writing /\ hash'[s] = hash[s]
    BY <1>1, <1>6 DEF BuildFails, Goto, TypeOK, Writing
  <2> QED BY <1>2, <1>6, <2>1 DEF BuildFails, BuildFrame
<1>7. ASSUME NEW r \in Runs, Train(r) PROVE VersionInv'
  BY <1>2, <1>7 DEF Train
<1>8. ASSUME NEW v \in Versions, EditDataset(v) PROVE VersionInv'
  <2>1. \A s \in Runs : bpc[s] \notin Writing
    BY <1>1, <1>8 DEF EditDataset, Building, Writing
  <2> QED BY <1>1, <1>8, <2>1 DEF EditDataset, VersionInv
<1>9. ASSUME NEW k \in Keys, CollectStart(k) PROVE VersionInv'
  BY <1>2, <1>9 DEF CollectStart
<1>10. ASSUME UNCHANGED <<raw, building, bpc, hash>>, \A k \in Keys : Shrunk(final'[k], final[k])
       PROVE  VersionInv'
  <2>1. \A k \in Keys : final[k] \in Dirs /\ final'[k] \in Dirs
    BY <1>1 DEF TypeOK
  <2> QED BY <1>1, <1>10, <2>1, HoldsFacts DEF VersionInv, Id
<1>11. CASE CollectFile
  <2>1. PICK e \in gc.left : final' = [final EXCEPT ![gc.key] = Removed(@, e)]
    BY <1>11 DEF CollectFile
  <2>2. e \in Entries /\ gc.key \in Keys /\ final \in [Keys -> Dirs]
    BY <1>1 DEF TypeOK
  <2> QED BY <1>10, <1>11, <2>1, <2>2, EmptiedFacts DEF CollectFile
<1>12. CASE CollectEnd
  <2>1. gc.key \in Keys /\ final \in [Keys -> Dirs]
    BY <1>1 DEF TypeOK
  <2>2. final' = final \/ final' = [final EXCEPT ![gc.key] = Closed(@)]
    BY <1>12 DEF CollectEnd
  <2> QED BY <1>10, <1>12, <2>1, <2>2, EmptiedFacts DEF CollectEnd
<1> QED BY <1>3, <1>4, <1>5, <1>6, <1>7, <1>8, <1>9, <1>11, <1>12 DEF Next

\* However builds and removals overlap and fail, the files of one cache directory
\* are made from one version of the dataset.
THEOREM OneVersionHolds == Spec => []OneVersion
<1>1. Init => VersionInv
  BY TypeInit, EmptiedFacts DEF Init, VersionInv, Writing
<1>2. VersionInv => OneVersion
  BY DEF VersionInv, OneVersion, OfOneVersion
<1> QED BY <1>1, <1>2, VersionStep, PTL DEF Spec
=============================================================================
