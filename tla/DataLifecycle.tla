---------------------------- MODULE DataLifecycle ----------------------------
(***************************************************************************)
(* The data of the pipeline, together: imports into datasets/raw, the      *)
(* stages of run_all that read the dataset and write the registry, caches, *)
(* checkpoints and exports, and gc passes, all side by side.  A failed     *)
(* stage does not end the run; the records of the run itself are those of  *)
(* RunTracking.                                                            *)
(***************************************************************************)
EXTENDS Export, Retention

\* What users ask for: imports, attempts at runs and gc passes, over the staging
\* directories and the raw datasets there are.
CONSTANT Scenarios

\* The stages of run_all that these records and files depend on.
STAGES_ORDER ==
  <<"create_pipeline_run", "validate_raw_dataset", "register_dataset", "build_or_reuse_tile_cache",
    "train_yolox", "evaluate_model", "export_onnx", "export_trt_fp16", "export_trt_int8",
    "register_artifacts", "update_pipeline_run_status">>
Stages == {STAGES_ORDER[i] : i \in DOMAIN STAGES_ORDER}
Place == [s \in Stages |-> CHOOSE i \in DOMAIN STAGES_ORDER : STAGES_ORDER[i] = s]

\* Whatever the selection, a run goes through its stages in that order.
InOrder(stages) == \A i, j \in DOMAIN stages : i < j => Place[stages[i]] < Place[stages[j]]

Attempts == [run : RunIds, dataset : DatasetIds, cache : CacheIds, replace : BOOLEAN,
             stages : {stages \in Seq(Stages) : InOrder(stages)}]
ASSUME ScenariosAssumption ==
  \A sc \in Scenarios :
    /\ DOMAIN sc.staging = StagingIds /\ \A s \in StagingIds : StagingOK(sc.staging[s])
    /\ \A d \in DOMAIN sc.raw : LeftBefore(sc.raw[d])
    /\ sc.jobs \in Seq(Jobs) /\ sc.attempts \in Seq(Attempts)
    /\ sc.passes \in Nat /\ sc.expired \subseteq StagingIds

\* What the capture and earlier imports write.
ASSUME CapturesAssumption ==
  \A sc \in Scenarios :
    /\ \A s \in StagingIds : Whole(sc.staging[s].coco) => OnceEach(sc.staging[s].coco.doc)
    /\ \A d \in DOMAIN sc.raw : Regular(sc.raw[d])

VARIABLES
  attempts,  \* the runs still to be started
  pipe,      \* run_all
  att        \* how many attempts have begun: the clock

pipeVars == <<attempts, pipe, att>>
vars == <<datasetVars, registryVars, exportVars, retentionVars, pipeVars>>

NoResults == [s \in Stages |-> "none"]
PipeOff == [pc |-> "off", run |-> Null, results |-> NoResults]

Init ==
  /\ \E sc \in Scenarios :
       /\ staging = sc.staging /\ jobs = sc.jobs /\ expired = sc.expired
       /\ attempts = sc.attempts /\ passes = sc.passes
       /\ raw = [d \in DatasetIds |-> IF d \in DOMAIN sc.raw THEN sc.raw[d] ELSE AbsentDir]
  /\ InitImport /\ InitRegistry /\ InitExport /\ InitRetention
  /\ pipe = PipeOff /\ att = 0

Begin ==
  /\ pipe.pc = "off" /\ attempts # <<>>
  /\ LET a == Head(attempts)
     IN /\ pipe' = [pc |-> "stage", run |-> a.run, dataset |-> a.dataset, cache |-> a.cache,
                    replace |-> a.replace, left |-> a.stages, results |-> NoResults]
        /\ runDirs' = runDirs \cup {a.run}
  /\ attempts' = Tail(attempts) /\ att' = att + 1
  /\ UNCHANGED <<datasetVars, registryVars, exportVars, gc, passes, cacheDirs, expired>>

Stage == Head(pipe.left)
Executes(s) == pipe.pc = "stage" /\ proc.pc = "idle" /\ pipe.left # <<>> /\ Stage = s

ValidateRaw ==
  /\ Exits(IF Validates(raw[pipe.dataset]) THEN "ok" ELSE "failed")
  /\ UNCHANGED <<db, kept>>

BuildCache ==
  /\ cacheDirs' = cacheDirs \cup {pipe.cache}
  /\ Exits("ok")
  /\ UNCHANGED <<db, kept, gc, passes, runDirs, expired>>

\* The command of each stage.
RegistryStage ==
  /\ \/ Executes("create_pipeline_run") /\ CreateDelete(pipe.run)
     \/ Executes("validate_raw_dataset") /\ ValidateRaw
     \/ Executes("register_dataset") /\ RegisterHash(pipe.dataset, pipe.replace)
     \/ Executes("update_pipeline_run_status") /\ CloseRun(pipe.run)
     \/ CreateInsert(pipe.run, pipe.dataset, att)
     \/ RegisterSteps
  /\ UNCHANGED <<datasetVars, exportVars, retentionVars, pipeVars>>

CacheStage ==
  /\ Executes("build_or_reuse_tile_cache") /\ BuildCache
  /\ UNCHANGED <<datasetVars, exportVars, pipeVars>>

ExportStage ==
  /\ \/ Executes("train_yolox") /\ Train(pipe.run, att)
     \/ Executes("evaluate_model") /\ Evaluate(pipe.run)
     \/ Executes("export_onnx") /\ ExportOnnx(pipe.run)
     \/ Executes("export_trt_fp16") /\ BuildEngine(pipe.run, "fp16", pipe.dataset)
     \/ Executes("export_trt_int8") /\ BuildEngine(pipe.run, "int8", pipe.dataset)
     \/ Executes("register_artifacts") /\ RegisterArtifacts(pipe.run)
     \/ ExportSteps \/ ArtifactSteps
  /\ UNCHANGED <<datasetVars, retentionVars, pipeVars>>

\* run_all goes on to the next stage whatever this one came to.
StageEnds ==
  /\ proc.pc = "exit"
  /\ proc' = [pc |-> "idle", result |-> "none"]
  /\ pipe' = [pipe EXCEPT !.results[Stage] = proc.result, !.left = Tail(@),
                !.pc = IF Stage = "build_or_reuse_tile_cache" /\ proc.result = "ok"
                       THEN "set_tile_cache" ELSE "stage"]
  /\ UNCHANGED <<datasetVars, db, kept, exportVars, retentionVars, attempts, att>>

\* _track_tile_cache: the row of the run first, then that of the cache.
TrackCache ==
  /\ \/ /\ pipe.pc = "set_tile_cache"
        /\ db' = UpdateRun(pipe.run, [cache |-> pipe.cache])
        /\ pipe' = [pipe EXCEPT !.pc = "register_tile_cache"]
     \/ /\ pipe.pc = "register_tile_cache"
        /\ db' = WithTileCache(pipe.cache, pipe.dataset, att)
        /\ pipe' = [pipe EXCEPT !.pc = "stage"]
  /\ UNCHANGED <<datasetVars, proc, kept, exportVars, retentionVars, attempts, att>>

PipeEnds ==
  /\ pipe.pc = "stage" /\ proc.pc = "idle" /\ pipe.left = <<>>
  /\ pipe' = [pc |-> "off", run |-> pipe.run, results |-> pipe.results]
  /\ UNCHANGED <<datasetVars, registryVars, exportVars, retentionVars, attempts, att>>

\* A stage that raises, or the end of the whole process.
StageFails ==
  /\ proc.pc \notin {"idle", "exit"} /\ crashes < MaxCrashes
  /\ crashes' = crashes + 1 /\ Exits("failed")
  /\ UNCHANGED <<staging, raw, jobs, imp, stamp, origin, broken, givenUp, db, kept,
                 exportVars, retentionVars, pipeVars>>

PipeDies ==
  /\ pipe.pc # "off" /\ crashes < MaxCrashes
  /\ crashes' = crashes + 1
  /\ proc' = [pc |-> "idle", result |-> "none"]
  /\ pipe' = [pc |-> "off", run |-> Null, results |-> NoResults]
  /\ UNCHANGED <<staging, raw, jobs, imp, stamp, origin, broken, givenUp, db, kept,
                 exportVars, retentionVars, attempts, att>>

Import ==
  /\ ImportSteps \/ ImportCrash
  /\ UNCHANGED <<registryVars, exportVars, retentionVars, pipeVars>>

Collect ==
  /\ GcRuns \/ GcCaches \/ GcPlan(att) \/ GcDryRun \/ GcDone
  /\ UNCHANGED <<datasetVars, registryVars, exportVars, pipeVars>>

Sweep ==
  /\ GcRemove
  /\ UNCHANGED <<raw, jobs, imp, stamp, origin, crashes, registryVars, exportVars, pipeVars>>

Pipeline ==
  Begin \/ RegistryStage \/ CacheStage \/ ExportStage \/ StageEnds \/ TrackCache \/ PipeEnds

Next == Import \/ Pipeline \/ StageFails \/ PipeDies \/ Collect \/ Sweep

Spec == Init /\ [][Next]_vars

(***************************************************************************)
(* Properties                                                              *)
(***************************************************************************)
TypeOK ==
  /\ DatasetTypeOK /\ ExportTypeOK
  /\ runDirs \subseteq RunIds /\ cacheDirs \subseteq CacheIds
  /\ pipe.pc \in {"off", "stage", "set_tile_cache", "register_tile_cache"}
  /\ pipe.pc = "off" => proc.pc = "idle"

Running(r) == pipe.pc # "off" /\ r.id = pipe.run /\ r.started = att

\* A pass never plans to remove the directory of the run that is going on, unless
\* it has read the runs before this attempt wrote its row.  Nor does it plan to
\* remove the tile cache that the row of the run names by now, unless it has read
\* the row before the cache was recorded in it; and even then only if the policy
\* keeps no spare caches, or the cache is an older one that this attempt took
\* over and the pass has read the caches before it was registered again.  (An
\* attempt that could not replace the row of an earlier one has no row.)
RetentionSafe ==
  /\ PlanConsistent
  /\ gc.pc = "apply" /\ pipe.pc # "off" =>
       LET seen == {r \in gc.runs : Running(r)} IN
       /\ Doomed("run", pipe.run) => seen = {}
       /\ \A row \in db.runs : Running(row) /\ row.cache # Null /\ Doomed("tile_cache", row.cache) =>
            /\ \A r \in seen : r.cache = Null
            /\ KeepCaches = 0 \/ \E c \in gc.caches : c.id = row.cache /\ c.created < att

Done(s) == pipe.pc = "off" /\ pipe.results[s] = "ok"

ExportSound ==
  /\ ReportsMatch
  /\ Done("export_onnx") /\ Done("export_trt_fp16") /\ Done("export_trt_int8") => ExportedWhole(pipe.run)
  /\ Done("register_artifacts") /\ Has(db.runs, pipe.run) => ArtifactRowsTrue(pipe.run)
=============================================================================
