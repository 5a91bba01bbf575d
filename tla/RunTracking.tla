----------------------------- MODULE RunTracking -----------------------------
(***************************************************************************)
(* One pipeline run and its records: the stage loop of run_all, the file   *)
(* status.json that run_all and the training subprocess both merge into,   *)
(* the event log, the row of the run in SQLite, and a viewer that polls    *)
(* the files until it believes the run is over.  A run id may be used      *)
(* again: an attempt that failed or died is followed by another one over   *)
(* the files and rows it left.                                             *)
(***************************************************************************)
EXTENDS Integers, Sequences, FiniteSets

CONSTANTS
  Selections,   \* the stage lists a user may ask for (_select_stages)
  MaxAttempts,  \* bound: how often the run id is used
  MaxFaults,    \* bound: how many failures happen in a behaviour
  Watchers,     \* the viewers considered: "live" (run_live), "room" (ControlRoomApp)
  Faults        \* the failures considered, of AllFaults

STAGES_ORDER == <<
  "validate_config", "init_metadata_db", "create_pipeline_run", "dcs_capture",
  "validate_raw_dataset", "register_dataset", "build_or_reuse_tile_cache",
  "train_yolox", "evaluate_model", "export_onnx", "export_trt_fp16",
  "export_trt_int8", "register_artifacts", "update_pipeline_run_status">>
StageNames == {STAGES_ORDER[i] : i \in 1..14}
Canonical(s) == CHOOSE i \in 1..14 : STAGES_ORDER[i] = s

CleanupStages == {"update_pipeline_run_status"}

\* The stages whose subprocess touches the records of the run.
RecordStages == {"create_pipeline_run", "build_or_reuse_tile_cache", "train_yolox",
                 "register_artifacts", "update_pipeline_run_status"}

AllFaults == {
  "stage",    \* a stage exits with an error
  "write",    \* a write of status.json raises
  "mirror",   \* a best-effort update of the SQLite row raises
  "die",      \* the run_all process is killed, its subprocess with it
  "orphan",   \* ... and a training subprocess survives it
  "attached"} \* the viewer is the main thread of the run_all process (--watch)

ASSUME ConstantsAssumption ==
  /\ MaxAttempts \in Nat /\ MaxFaults \in Nat
  /\ Watchers \subseteq {"live", "room"}
  /\ Faults \subseteq AllFaults
  /\ \A s \in Selections : /\ s \in Seq(StageNames)
                           /\ \A i, j \in DOMAIN s :
                                i < j => Canonical(s[i]) < Canonical(s[j])

Attempts == 1..MaxAttempts
Writers == Attempts \cup {0}   \* 0 is run_all, a is the training of attempt a

VARIABLES
  att,        \* number of the current attempt
  pc,         \* position of run_all
  sel, idx,   \* its stages, and the one it is at
  results,    \* what each stage of this attempt came to (RunResult.stages)
  st, tmp,    \* status.json and status.json.tmp
  mg,         \* per writer: where its read-modify-write of status.json is
  latest,     \* events.jsonl: the last status logged for each stage
  row, arts,  \* the row of the run; whether artifact rows refer to it
  missed,     \* the closing update of the row failed in this attempt
  crumb,      \* the run's tile_cache.json: the attempt that wrote it
  train,      \* per attempt: position of its training subprocess
  watch,      \* the viewer
  disturbed,  \* a training of an earlier attempt was alive in this one
  faults      \* how many failures have happened

run == <<att, pc, sel, idx, results, disturbed>>
file == <<st, tmp, mg>>
sql == <<row, arts, missed>>
vars == <<run, file, latest, sql, crumb, train, watch, faults>>

NoStage == "none"
NoRow == [status |-> "none", cache |-> 0]
NoStatus == [status |-> "none", stage |-> NoStage, cache |-> 0, model |-> 0, iter |-> 0]
Status == [status : {"none", "running", "success", "failed"},
           stage : StageNames \cup {NoStage},
           cache : Writers, model : Writers, iter : 0..1]
Idle == [at |-> "idle", copy |-> NoStatus]

Stage == sel[idx]
Merging == {"init_run", "set_current_stage", "merge_running", "merge_outcome",
            "set_tile_cache", "finish"}
Working == Merging \cup {"emit_running", "execute", "insert_row", "training",
                         "emit_outcome", "mirror_cache", "mirror_finish"}
Over == {"off", "done", "dead"}

Selected == {sel[i] : i \in DOMAIN sel}
\* RunResult.success: a cleanup stage that fails does not count.
Success == \A s \in Selected \ CleanupStages : results[s] # "failed"
Outcome == IF Success THEN "success" ELSE "failed"

Fail(f) == /\ f \in Faults /\ faults < MaxFaults
           /\ faults' = faults + 1
NoFail == UNCHANGED faults

Init ==
  /\ att = 0 /\ pc = "off" /\ sel = <<>> /\ idx = 1
  /\ results = [s \in StageNames |-> "none"]
  /\ st = NoStatus /\ tmp = NoStatus
  /\ mg = [w \in Writers |-> Idle]
  /\ latest = [s \in StageNames |-> "none"]
  /\ row = NoRow /\ arts = FALSE /\ missed = FALSE /\ crumb = 0
  /\ train = [a \in Attempts |-> "off"]
  /\ watch = "on"
  /\ disturbed = FALSE /\ faults = 0

(***************************************************************************)
(* status.json.  A merge reads the file, puts the changed fields over what *)
(* it read, writes status.json.tmp and renames it; the lock around it is   *)
(* that of one process.  All writers of a run use the same .tmp name.      *)
(***************************************************************************)
Merged_Bug(old, change) ==
  [f \in DOMAIN old |-> IF f \in DOMAIN change THEN change[f] ELSE NoStatus[f]]

Merged(old, change) ==
  [f \in DOMAIN old |-> IF f \in DOMAIN change THEN change[f] ELSE old[f]]

MergeRead(w, change) ==
  /\ mg[w].at = "idle"
  /\ mg' = [mg EXCEPT ![w] = [at |-> "read", copy |-> Merged(st, change)]]
  /\ UNCHANGED <<st, tmp>>

MergeWrite(w) ==
  /\ mg[w].at = "read"
  /\ mg' = [mg EXCEPT ![w].at = "written"]
  /\ tmp' = mg[w].copy
  /\ UNCHANGED st

MergeReplace(w) ==
  /\ mg[w].at = "written" /\ tmp # NoStatus
  /\ st' = tmp /\ tmp' = NoStatus
  /\ mg' = [mg EXCEPT ![w] = Idle]

\* Another writer has renamed the .tmp file away.
TmpGone(w) == mg[w].at = "written" /\ tmp = NoStatus

MergeRaises(w) ==
  /\ \/ TmpGone(w) /\ NoFail
     \/ mg[w].at # "idle" /\ ~TmpGone(w) /\ Fail("write")
  /\ mg' = [mg EXCEPT ![w] = Idle]
  /\ UNCHANGED <<st, tmp>>

(***************************************************************************)
(* run_all                                                                 *)
(***************************************************************************)
Seed == [NoStatus EXCEPT !.status = "running"]

Change_Bug ==
  CASE pc = "init_run" -> Seed
    [] pc = "set_current_stage" -> [stage |-> Stage]
    [] pc = "merge_running" -> [status |-> "running", stage |-> Stage]
    [] pc = "merge_outcome" -> [status |-> results[Stage], stage |-> Stage]
    [] pc = "set_tile_cache" -> [cache |-> crumb]
    [] pc = "finish" -> [stage |-> NoStage]

\* What the operation at pc merges into status.json.
Change ==
  CASE pc = "init_run" -> Seed
    [] pc = "set_current_stage" -> [stage |-> Stage]
    [] pc = "merge_running" -> [status |-> "running", stage |-> Stage]
    [] pc = "merge_outcome" -> [status |-> results[Stage], stage |-> Stage]
    [] pc = "set_tile_cache" -> [cache |-> crumb]
    [] pc = "finish" -> [status |-> Outcome]

StageOrFinish(i) == IF i \in DOMAIN sel THEN "set_current_stage" ELSE "finish"

TracksCache == Stage = "build_or_reuse_tile_cache" /\ results[Stage] = "success"

AfterMerge ==
  CASE pc = "init_run" -> StageOrFinish(idx)
    [] pc = "set_current_stage" -> "emit_running"
    [] pc = "merge_running" -> "execute"
    [] pc = "merge_outcome" -> IF TracksCache THEN "set_tile_cache" ELSE StageOrFinish(idx + 1)
    [] pc = "set_tile_cache" -> "mirror_cache"
    [] pc = "finish" -> "mirror_finish"

Begin_Bug ==
  /\ pc \in Over /\ att < MaxAttempts
  /\ att' = att + 1 /\ pc' = "init_run"
  /\ sel' \in Selections /\ idx' = idx
  /\ results' = [s \in StageNames |-> "none"]
  /\ disturbed' = \E a \in Attempts : train[a] # "off"
  /\ watch' = IF "attached" \in Faults THEN "on" ELSE watch
  /\ missed' = FALSE
  /\ UNCHANGED <<file, latest, row, arts, crumb, train, faults>>

Begin ==
  /\ pc \in Over /\ att < MaxAttempts
  /\ att' = att + 1 /\ pc' = "init_run"
  /\ sel' \in Selections /\ idx' = 1
  /\ results' = [s \in StageNames |-> "none"]
  /\ disturbed' = \E a \in Attempts : train[a] # "off"
  /\ watch' = IF "attached" \in Faults THEN "on" ELSE watch
  /\ missed' = FALSE
  /\ UNCHANGED <<file, latest, row, arts, crumb, train, faults>>

RunMerge ==
  /\ pc \in Merging
  /\ \/ MergeRead(0, Change) /\ UNCHANGED <<pc, idx>>
     \/ MergeWrite(0) /\ UNCHANGED <<pc, idx>>
     \/ /\ MergeReplace(0)
        /\ pc' = AfterMerge
        /\ idx' = IF pc = "merge_outcome" /\ ~TracksCache THEN idx + 1 ELSE idx
  /\ UNCHANGED <<att, sel, results, disturbed, latest, sql, crumb, train, watch, faults>>

\* tracking.strict: the exception of a write ends run_all.
RunMergeRaises ==
  /\ pc \in Merging /\ MergeRaises(0)
  /\ pc' = "dead"
  /\ UNCHANGED <<att, sel, idx, results, disturbed, latest, sql, crumb, train, watch>>

\* emit_stage appends the event first and then merges the status.
EmitRunning ==
  /\ pc = "emit_running" /\ pc' = "merge_running"
  /\ latest' = [latest EXCEPT ![Stage] = "running"]
  /\ UNCHANGED <<att, sel, idx, results, disturbed, file, sql, crumb, train, watch, faults>>

EmitOutcome_Bug ==
  /\ pc = "emit_outcome" /\ pc' = "merge_outcome"
  /\ latest' = IF results[Stage] = "failed" THEN latest ELSE [latest EXCEPT ![Stage] = "success"]
  /\ UNCHANGED <<att, sel, idx, results, disturbed, file, sql, crumb, train, watch, faults>>

EmitOutcome ==
  /\ pc = "emit_outcome" /\ pc' = "merge_outcome"
  /\ latest' = [latest EXCEPT ![Stage] = results[Stage]]
  /\ UNCHANGED <<att, sel, idx, results, disturbed, file, sql, crumb, train, watch, faults>>

\* set_tile_cache has updated status.json; the row follows if it can.
MirrorCache ==
  /\ pc = "mirror_cache"
  /\ pc' = StageOrFinish(idx + 1) /\ idx' = idx + 1
  /\ \/ row # NoRow /\ row' = [row EXCEPT !.cache = crumb] /\ NoFail
     \/ row = NoRow /\ UNCHANGED row /\ NoFail
     \/ UNCHANGED row /\ Fail("mirror")
  /\ UNCHANGED <<att, sel, results, disturbed, file, latest, arts, missed, crumb, train, watch>>

MirrorFinish ==
  /\ pc = "mirror_finish" /\ pc' = "done"
  /\ \/ row # NoRow /\ row' = [row EXCEPT !.status = Outcome] /\ NoFail /\ UNCHANGED missed
     \/ row = NoRow /\ UNCHANGED <<row, missed>> /\ NoFail
     \/ UNCHANGED row /\ Fail("mirror") /\ missed' = TRUE
  /\ UNCHANGED <<att, sel, idx, results, disturbed, file, latest, arts, crumb, train, watch>>

(***************************************************************************)
(* The subprocess of a stage.                                              *)
(***************************************************************************)
Exits(status) ==
  /\ results' = [results EXCEPT ![Stage] = status]
  /\ pc' = "emit_outcome"
  /\ UNCHANGED <<att, sel, idx, disturbed>>

At(stage) == pc = "execute" /\ Stage = stage

\* A stage that touches no record, and a failure before any record is touched.
ExecuteOther ==
  /\ pc = "execute" /\ Stage \notin RecordStages
  /\ Exits("success") /\ NoFail
  /\ UNCHANGED <<file, latest, sql, crumb, train, watch>>

\* register_artifacts removes the old rows before it inserts any.
StageFails ==
  /\ pc \in {"execute", "insert_row"} /\ Exits("failed") /\ Fail("stage")
  /\ IF Stage = "register_artifacts" THEN arts' \in {arts, FALSE} ELSE UNCHANGED arts
  /\ UNCHANGED <<file, latest, row, missed, crumb, train, watch>>

\* create --replace: two transactions; artifact rows refer to the old row.
DeleteRow ==
  /\ At("create_pipeline_run") /\ NoFail
  /\ \/ row # NoRow /\ arts /\ Exits("failed") /\ UNCHANGED row
     \/ /\ ~(row # NoRow /\ arts)
        /\ row' = NoRow /\ pc' = "insert_row"
        /\ UNCHANGED <<att, sel, idx, results, disturbed>>
  /\ UNCHANGED <<file, latest, arts, missed, crumb, train, watch>>

InsertRow ==
  /\ pc = "insert_row" /\ Exits("success") /\ NoFail
  /\ row' = [NoRow EXCEPT !.status = "running"]
  /\ UNCHANGED <<file, latest, arts, missed, crumb, train, watch>>

BuildCache ==
  /\ At("build_or_reuse_tile_cache") /\ Exits("success") /\ NoFail
  /\ crumb' = att
  /\ UNCHANGED <<file, latest, sql, train, watch>>

\* An insert that fails is skipped: without a row nothing can refer to it.
RegisterArtifacts ==
  /\ At("register_artifacts") /\ Exits("success") /\ NoFail
  /\ arts' \in {FALSE, row # NoRow}
  /\ UNCHANGED <<file, latest, row, missed, crumb, train, watch>>

UpdateRow_Bug ==
  /\ At("update_pipeline_run_status") /\ NoFail
  /\ Exits("success") /\ UNCHANGED row
  /\ UNCHANGED <<file, latest, arts, missed, crumb, train, watch>>

\* The command is always called with "success".
UpdateRow ==
  /\ At("update_pipeline_run_status") /\ NoFail
  /\ \/ row = NoRow /\ Exits("failed") /\ UNCHANGED row
     \/ row # NoRow /\ Exits("success") /\ row' = [row EXCEPT !.status = "success"]
  /\ UNCHANGED <<file, latest, arts, missed, crumb, train, watch>>

StartTraining ==
  /\ At("train_yolox") /\ pc' = "training"
  /\ train' = [train EXCEPT ![att] = "set_model"]
  /\ UNCHANGED <<att, sel, idx, results, disturbed, file, latest, sql, crumb, watch, faults>>

TrainChange(a) == IF train[a] = "set_model" THEN [model |-> a] ELSE [iter |-> 1]

TrainMerge(a) ==
  /\ train[a] \in {"set_model", "progress"}
  /\ \/ MergeRead(a, TrainChange(a)) /\ UNCHANGED train
     \/ MergeWrite(a) /\ UNCHANGED train
     \/ /\ MergeReplace(a)
        /\ train' = [train EXCEPT ![a] = IF @ = "set_model" THEN "progress" ELSE "emit"]
  /\ UNCHANGED <<run, latest, sql, crumb, watch, faults>>

\* The tracker of the training is not strict: it logs and goes on.
TrainMergeRaises(a) ==
  /\ train[a] \in {"set_model", "progress"} /\ MergeRaises(a)
  /\ train' = [train EXCEPT ![a] = IF @ = "set_model" THEN "progress" ELSE "emit"]
  /\ UNCHANGED <<run, latest, sql, crumb, watch>>

EmitProgress(a) ==
  /\ train[a] = "emit" /\ train' = [train EXCEPT ![a] = "trained"]
  /\ latest' = [latest EXCEPT !["train_yolox"] = "running"]
  /\ UNCHANGED <<run, file, sql, crumb, watch, faults>>

TrainEnds_Bug(a) ==
  /\ \/ train[a] = "trained" /\ NoFail
     \/ train[a] # "off" /\ Fail("stage")
  /\ train' = [train EXCEPT ![a] = "off"]
  /\ mg' = [mg EXCEPT ![a] = Idle]
  /\ IF pc = "training" /\ a = att /\ faults' = faults
     THEN Exits("success")
     ELSE UNCHANGED run
  /\ UNCHANGED <<st, tmp, latest, sql, crumb, watch>>

\* Whose training it is: run_all waits for it, or is dead and nobody does.
TrainEnds(a) ==
  /\ \/ train[a] = "trained" /\ NoFail
     \/ train[a] # "off" /\ Fail("stage")
  /\ train' = [train EXCEPT ![a] = "off"]
  /\ mg' = [mg EXCEPT ![a] = Idle]
  /\ IF pc = "training" /\ a = att
     THEN Exits(IF faults' = faults THEN "success" ELSE "failed")
     ELSE UNCHANGED run
  /\ UNCHANGED <<st, tmp, latest, sql, crumb, watch>>

(***************************************************************************)
(* The end of the run_all process, and the viewer.                         *)
(***************************************************************************)
\* Every stage is a subprocess of its own, and may end with run_all or go on; of
\* those that go on only the training is modelled, which writes status.json.
Killed ==
  /\ pc' = "dead"
  /\ UNCHANGED <<att, sel, idx, results, disturbed, st, tmp, latest, sql, crumb>>
  /\ \/ /\ pc = "training" /\ "orphan" \in Faults
        /\ mg' = [mg EXCEPT ![0] = Idle]
        /\ UNCHANGED train
     \/ /\ mg' = [w \in Writers |-> IF w \in {0, att} THEN Idle ELSE mg[w]]
        /\ train' = [a \in Attempts |-> IF a = att THEN "off" ELSE train[a]]

Die == /\ pc \in Working /\ Fail("die") /\ Killed
       /\ watch' = IF "attached" \in Faults THEN "gone" ELSE watch

\* What a reader sees before the file exists: a missing status is "running".
Overall == IF st.status = "none" THEN "running" ELSE st.status
Terminal_Bug == Overall \in {"success"}

Terminal == Overall \in {"success", "failed"}

\* run_live stops at the first terminal status, the control room at a second
\* one at least two seconds later.
WatchPoll ==
  /\ Terminal
  /\ \/ watch = "on" /\ "live" \in Watchers /\ watch' = "left"
     \/ watch = "on" /\ "room" \in Watchers /\ watch' = "seen"
     \/ watch = "seen" /\ watch' = "left"
  /\ UNCHANGED <<run, file, latest, sql, crumb, train, faults>>

\* stop_event: the live viewer of run --watch knows that the worker has ended.
WatchStops ==
  /\ "attached" \in Faults /\ "live" \in Watchers
  /\ watch = "on" /\ pc \in {"done", "dead"}
  /\ watch' = "left"
  /\ UNCHANGED <<run, file, latest, sql, crumb, train, faults>>

\* run --watch joins the worker for ten seconds and returns: the process
\* ends, and the worker, a daemon thread, with it.  Counted as a failure to
\* bound it.
CutOff ==
  /\ watch = "left" /\ pc \in Working
  /\ Fail("attached") /\ Killed
  /\ UNCHANGED watch

RunSteps ==
  \/ RunMerge \/ RunMergeRaises \/ EmitRunning \/ EmitOutcome \/ MirrorCache \/ MirrorFinish
  \/ ExecuteOther \/ DeleteRow \/ InsertRow \/ BuildCache \/ RegisterArtifacts \/ UpdateRow
  \/ StartTraining

TrainSteps(a) == TrainMerge(a) \/ TrainMergeRaises(a) \/ EmitProgress(a) \/ TrainEnds(a)

Next ==
  \/ Begin \/ RunSteps \/ StageFails \/ Die
  \/ \E a \in Attempts : TrainSteps(a)
  \/ WatchPoll \/ WatchStops \/ CutOff

Spec == Init /\ [][Next]_vars

\* The processes run until they end; the viewer keeps polling.
FairSpec == /\ Spec
            /\ WF_vars(RunSteps)
            /\ \A a \in Attempts : WF_vars(TrainSteps(a))
            /\ WF_vars(WatchPoll)

(***************************************************************************)
(* Properties                                                              *)
(***************************************************************************)
TypeOK ==
  /\ att \in 0..MaxAttempts /\ pc \in Working \cup Over
  /\ sel \in Selections \cup {<<>>} /\ idx \in 1..(Len(sel) + 1)
  /\ results \in [StageNames -> {"none", "success", "failed"}]
  /\ st \in Status /\ tmp \in Status
  /\ mg \in [Writers -> [at : {"idle", "read", "written"}, copy : Status]]
  /\ latest \in [StageNames -> {"none", "running", "success", "failed"}]
  /\ row \in [status : {"none", "running", "success", "failed"}, cache : Writers]
  /\ arts \in BOOLEAN /\ missed \in BOOLEAN /\ disturbed \in BOOLEAN
  /\ crumb \in Writers
  /\ train \in [Attempts -> {"off", "set_model", "progress", "emit", "trained"}]
  /\ watch \in {"on", "seen", "left", "gone"}
  /\ faults \in 0..MaxFaults

\* When run_all has returned, status.json says how the attempt went and which
\* cache it used, although two processes have merged into it and the stages
\* have put their own statuses into the same field; unless the training of a
\* dead attempt was still writing (status_tracker.py:129-155).
LastWord ==
  pc = "done" /\ ~disturbed =>
    /\ st.status = Outcome
    /\ st.cache = IF results["build_or_reuse_tile_cache"] = "success" THEN att ELSE 0

\* "a writer cannot clobber fields another writer set": within an attempt the
\* cache, the model and the progress, once set, survive every later merge
\* (status_tracker.py:17-19, 224-228).
NoClobber ==
  [][ att' = att /\ ~disturbed /\ pc # "init_run" =>
        \A f \in {"cache", "model", "iter"} : st[f] # 0 => st'[f] = st[f] ]_vars

\* The row is closed twice, by the update stage and by finish; either is
\* enough to close it, and without the second it may only err towards
\* "success" (run_all.py:335-344, 166-168).
RegistryClosed ==
  pc = "done" /\ row # NoRow =>
    /\ ~missed => row.status = Outcome
    /\ results["update_pipeline_run_status"] = "success" =>
         row.status \in {Outcome, "success"}

\* The checklist (tui.py:build_view): one row per stage, inferred from the
\* whole log, as the control room reads it (run_live reads the last 8 events).
RowState(s) ==
  CASE latest[s] = "failed" -> "failed"
    [] latest[s] = "success" -> "done"
    [] latest[s] \in {"none", "running"} /\ s = st.stage ->
         IF Overall = "failed" THEN "failed" ELSE IF Overall = "success" THEN "done" ELSE "active"
    [] latest[s] = "running" /\ s # st.stage /\ Overall = "running" -> "active"
    [] OTHER -> IF st.stage # NoStage /\ Canonical(s) < Canonical(st.stage)
                THEN "done" ELSE "pending"

\* In the first attempt the checklist, inferred from two files that are
\* written one after the other by two processes, never lies about a selected
\* stage that has ended, is being executed or is still to come.
RowsHonest ==
  att = 1 => \A i \in DOMAIN sel :
    /\ i < idx => RowState(sel[i]) = IF results[sel[i]] = "success" THEN "done" ELSE "failed"
    /\ i > idx => RowState(sel[i]) = "pending"
    /\ i = idx /\ pc \in {"execute", "insert_row", "training"} => RowState(sel[i]) = "active"

\* Every attempt ends: run_all waits for nothing that does not end.
RunEnds == []<>(pc \in Over)

\* A viewer of a run whose last attempt has returned stops (tui.py:385-396).
WatchEnds == <>[](pc = "done" /\ ~disturbed) => <>(watch \in {"left", "gone"})

\* "Live-refresh the TUI until the run reaches a terminal status": a viewer
\* that has stopped has seen the end of the run (tui.py:362).
WatchEndsWithRun == watch = "left" => pc \notin Working
=============================================================================
