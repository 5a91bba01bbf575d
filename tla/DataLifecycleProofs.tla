-------------------------- MODULE DataLifecycleProofs --------------------------
(***************************************************************************)
(* Runs and gc.  What a pipeline run has left when the stages from the     *)
(* export on have succeeded, for all numbers of runs and attempts, every   *)
(* selection of stages, and failures and deaths of the process at any      *)
(* step; then what gc never plans to remove, for every policy that keeps   *)
(* at least one run.                                                       *)
(***************************************************************************)
EXTENDS DataLifecycle, TLAPS, SequenceTheorems, FiniteSetTheorems

(***************************************************************************)
(* Exports: the inductive invariant                                        *)
(***************************************************************************)
Contents == [weights : Nat, table : Nat]
Numbered == {Missing} \cup {Doc(n) : n \in Nat}
ModelFiles == {Missing, Torn} \cup {Doc(c) : c \in Contents}
RunFiles == [ckpt : Numbered, model : [Models -> ModelFiles], report : [Models -> ModelFiles],
             table : Numbered, summary : Numbered]

\* No file of a run has weights from later than its checkpoint.
FilesOK ==
  /\ att \in Nat /\ files \in [RunIds -> RunFiles]
  /\ \A r \in RunIds :
       /\ Whole(files[r].ckpt) => files[r].ckpt.doc <= att
       /\ Whole(files[r].model["onnx"]) =>
            Whole(files[r].ckpt) /\ files[r].model["onnx"].doc.weights <= files[r].ckpt.doc
       /\ Whole(files[r].table) => Whole(files[r].ckpt) /\ files[r].table.doc <= files[r].ckpt.doc

Outcomes == {"ok", "failed"}

\* The stages still to come, the one at the head included, have no result yet.
PipeOK ==
  /\ attempts \in Seq(Attempts)
  /\ {"pc", "run", "results"} \subseteq DOMAIN pipe /\ pipe.results \in [Stages -> {"none"} \cup Outcomes]
  /\ pipe.pc = "off" => pipe.run \in RunIds \/ pipe.results = NoResults
  /\ pipe.pc # "off" =>
       /\ "left" \in DOMAIN pipe
       /\ pipe.run \in RunIds /\ pipe.left \in Seq(Stages) /\ InOrder(pipe.left)
       /\ pipe.left # <<>> => \A s \in Stages : Place[Stage] <= Place[s] => pipe.results[s] = "none"

StageOf == [m \in Models |-> CASE m = "onnx" -> "export_onnx"
                                [] m = "fp16" -> "export_trt_fp16"
                                [] m = "int8" -> "export_trt_int8"]
Exporting == {"calibrate", "model", "model_open", "report"}
Registering == {"reg_open", "reg_upsert", "reg_rows"}

\* Where the subprocess is tells the stage.
ProcOK ==
  /\ "pc" \in DOMAIN proc
  /\ proc.pc \in {"idle", "exit", "create_insert", "art_rows"} \cup Registering \cup Exporting
  /\ proc.pc # "idle" => pipe.pc = "stage" /\ pipe.left # <<>>
  /\ proc.pc = "exit" => proc.result \in Outcomes
  /\ proc.pc = "create_insert" => Stage = "create_pipeline_run"
  /\ proc.pc \in Registering => Stage = "register_dataset"
  /\ proc.pc = "art_rows" =>
       /\ Stage = "register_artifacts" /\ proc.run = pipe.run
       /\ proc = [pc |-> "art_rows", run |-> proc.run, todo |-> proc.todo]
       /\ proc.todo \in Seq(Range(ToRegister))
  /\ proc.pc \in Exporting =>
       /\ proc \in [pc : Exporting, what : Models, run : {pipe.run}, content : Contents]
       /\ Stage = StageOf[proc.what]

\* The content an export is about to write comes from the files it has read.
WorkOK ==
  proc.pc \in Exporting =>
    LET its == files[proc.run]
    IN /\ proc.what = "onnx" => Whole(its.ckpt) /\ proc.content = OnnxOf(its.ckpt.doc)
       /\ proc.what # "onnx" => Whole(its.model["onnx"])
                                 /\ proc.content.weights = its.model["onnx"].doc.weights
       /\ proc.what = "int8" /\ proc.pc # "calibrate" => Whole(its.table) /\ proc.content.table = its.table.doc
       /\ proc.pc = "calibrate" => proc.what = "int8"
       /\ proc.pc = "report" => its.model[proc.what] = Doc(proc.content)

\* The rows there are are true, and those that are missing are still to come.
RowTrue(r, a) ==
  /\ a.name \in Range(Exports) \cup {Summary}
  /\ IsFile(FileNamed(r, a.name)) /\ a.hash = FileNamed(r, a.name)
RowsOK ==
  proc.pc = "art_rows" =>
    /\ \A a \in db.artifacts : a.run = pipe.run => RowTrue(pipe.run, a)
    /\ Has(db.runs, pipe.run) =>
         \A n \in Range(Exports) \cup {Summary} : IsFile(FileNamed(pipe.run, n)) =>
           \/ Entry("artifacts", n) \in Range(proc.todo)
           \/ \E a \in db.artifacts : a.run = pipe.run /\ a.name = n

\* What a stage that has ended well has left.
Finished(s) ==
  \/ pipe.results[s] = "ok"
  \/ proc.pc = "exit" /\ proc.result = "ok" /\ Stage = s

OnnxLeft(r) == Whole(files[r].ckpt) /\ files[r].model["onnx"] = Doc(OnnxOf(files[r].ckpt.doc))
EngineLeft(r, p) ==
  /\ Whole(files[r].model["onnx"]) /\ Whole(files[r].model[p])
  /\ files[r].model[p].doc.weights = files[r].model["onnx"].doc.weights
TableLeft(r) == Whole(files[r].table) /\ files[r].model["int8"].doc.table = files[r].table.doc

LeftOK ==
  /\ Finished("export_onnx") => OnnxLeft(pipe.run)
  /\ Finished("export_trt_fp16") => EngineLeft(pipe.run, "fp16")
  /\ Finished("export_trt_int8") => EngineLeft(pipe.run, "int8") /\ TableLeft(pipe.run)
  /\ Finished("register_artifacts") /\ Has(db.runs, pipe.run) => ArtifactRowsTrue(pipe.run)

\* The tables there are, and the key of a run.
DbOK == {"runs", "artifacts", "checkpoints", "reports"} \subseteq DOMAIN db /\ \A row \in db.runs : "id" \in DOMAIN row

ExportInv == DbOK /\ FilesOK /\ PipeOK /\ ProcOK /\ WorkOK /\ RowsOK /\ LeftOK /\ ReportsMatch

(***************************************************************************)
(* Documents and places                                                    *)
(***************************************************************************)
LEMMA NumberedDoc ==
  ASSUME NEW f \in Numbered
  PROVE  /\ Whole(f) <=> \E n \in Nat : f = Doc(n)
         /\ Whole(f) => f = Doc(f.doc) /\ f.doc \in Nat
         /\ IsFile(f) <=> Whole(f)
BY DEF Numbered, Missing, Doc, Whole, IsFile

LEMMA ModelDoc ==
  ASSUME NEW f \in ModelFiles
  PROVE  Whole(f) => /\ f = Doc(f.doc) /\ f.doc \in Contents
                     /\ f.doc.weights \in Nat /\ f.doc.table \in Nat
BY DEF ModelFiles, Missing, Torn, Doc, Whole, Contents

LEMMA DocFacts ==
  ASSUME NEW x
  PROVE  Whole(Doc(x)) /\ Doc(x).doc = x /\ IsFile(Doc(x)) /\ ~Whole(Torn) /\ ~Whole(Missing) /\ IsFile(Torn)
BY DEF Whole, IsFile, Doc, Torn, Missing

LEMMA Places ==
  /\ {"create_pipeline_run", "validate_raw_dataset", "register_dataset", "build_or_reuse_tile_cache",
      "train_yolox", "evaluate_model", "export_onnx", "export_trt_fp16", "export_trt_int8",
      "register_artifacts", "update_pipeline_run_status"} = Stages
  /\ \A s \in Stages : Place[s] \in Nat
  /\ Place["create_pipeline_run"] = 1 /\ Place["validate_raw_dataset"] = 2
  /\ Place["register_dataset"] = 3 /\ Place["build_or_reuse_tile_cache"] = 4
  /\ Place["train_yolox"] = 5 /\ Place["evaluate_model"] = 6 /\ Place["export_onnx"] = 7
  /\ Place["export_trt_fp16"] = 8 /\ Place["export_trt_int8"] = 9
  /\ Place["register_artifacts"] = 10 /\ Place["update_pipeline_run_status"] = 11
<1>1. DOMAIN STAGES_ORDER = 1..11
  BY DEF STAGES_ORDER
<1>2. /\ STAGES_ORDER[1] = "create_pipeline_run" /\ STAGES_ORDER[2] = "validate_raw_dataset"
      /\ STAGES_ORDER[3] = "register_dataset" /\ STAGES_ORDER[4] = "build_or_reuse_tile_cache"
      /\ STAGES_ORDER[5] = "train_yolox" /\ STAGES_ORDER[6] = "evaluate_model"
      /\ STAGES_ORDER[7] = "export_onnx" /\ STAGES_ORDER[8] = "export_trt_fp16"
      /\ STAGES_ORDER[9] = "export_trt_int8" /\ STAGES_ORDER[10] = "register_artifacts"
      /\ STAGES_ORDER[11] = "update_pipeline_run_status"
  BY DEF STAGES_ORDER
<1>3. \A i, j \in 1..11 : STAGES_ORDER[i] = STAGES_ORDER[j] => i = j
  BY <1>2
<1>4. ASSUME NEW i \in 1..11
      PROVE  STAGES_ORDER[i] \in Stages /\ Place[STAGES_ORDER[i]] = i
  <2>1. STAGES_ORDER[i] \in Stages
    BY <1>1 DEF Stages
  <2>2. Place[STAGES_ORDER[i]] = CHOOSE k \in DOMAIN STAGES_ORDER : STAGES_ORDER[k] = STAGES_ORDER[i]
    BY <2>1 DEF Place
  <2> QED
    BY <1>1, <1>3, <2>1, <2>2
<1>5. ASSUME NEW s \in Stages PROVE \E i \in 1..11 : s = STAGES_ORDER[i]
  BY <1>1 DEF Stages
<1>6. \A s \in Stages : Place[s] \in Nat
  BY <1>4, <1>5
<1>7. \A i \in 1..11 : i = 1 \/ i = 2 \/ i = 3 \/ i = 4 \/ i = 5 \/ i = 6 \/ i = 7 \/ i = 8 \/ i = 9 \/ i = 10 \/ i = 11
  OBVIOUS
<1>8. Stages = {STAGES_ORDER[1], STAGES_ORDER[2], STAGES_ORDER[3], STAGES_ORDER[4], STAGES_ORDER[5],
               STAGES_ORDER[6], STAGES_ORDER[7], STAGES_ORDER[8], STAGES_ORDER[9], STAGES_ORDER[10],
               STAGES_ORDER[11]}
  BY <1>4, <1>5, <1>7
<1> QED
  BY <1>2, <1>4, <1>6, <1>8

\* A stage that is being executed, and those that come after it, have not ended well.
LEMMA NotYet ==
  ASSUME PipeOK, pipe.pc = "stage", pipe.left # <<>>, proc.pc # "exit",
         NEW s \in Stages, Place[Stage] <= Place[s]
  PROVE  ~Finished(s)
BY DEF PipeOK, Finished

\* After the step of a subprocess only the stage it belongs to can have ended.
LEMMA FinishedNext ==
  ASSUME pipe' = pipe, NEW s \in Stages, Finished(s)'
  PROVE  Finished(s) \/ (proc'.pc = "exit" /\ proc'.result = "ok" /\ Stage = s)
BY DEF Finished, Stage

(***************************************************************************)
(* Steps of a subprocess                                                   *)
(***************************************************************************)
\* Runs, pipeline and clock are as they were.
Still == UNCHANGED <<pipe, attempts, att>>

\* What the properties take from the files of a run.
LEMMA SameFiles ==
  ASSUME NEW r, files' = files
  PROVE  /\ OnnxLeft(r)' <=> OnnxLeft(r)
         /\ \A p : EngineLeft(r, p)' <=> EngineLeft(r, p)
         /\ TableLeft(r)' <=> TableLeft(r)
         /\ \A n : FileNamed(r, n)' = FileNamed(r, n)
BY DEF OnnxLeft, EngineLeft, TableLeft, FileNamed

LEMMA SameRows ==
  ASSUME NEW r, files' = files, db'.artifacts = db.artifacts
  PROVE  ArtifactRowsTrue(r)' <=> ArtifactRowsTrue(r)
BY SameFiles DEF ArtifactRowsTrue

\* A stage that leaves the files and the artifacts alone.
LEMMA QuietStep ==
  ASSUME ExportInv, Still, pipe.pc = "stage", pipe.left # <<>>, UNCHANGED <<files, shaken>>,
         DbOK', db'.artifacts = db.artifacts,
         Has(db.runs, pipe.run)' => Has(db.runs, pipe.run) \/ ~Finished("register_artifacts"),
         Stage \notin {"export_onnx", "export_trt_fp16", "export_trt_int8", "register_artifacts"},
         "pc" \in DOMAIN proc',
         \/ proc'.pc = "exit" /\ proc'.result \in Outcomes
         \/ proc'.pc = "create_insert" /\ Stage = "create_pipeline_run"
         \/ proc'.pc \in Registering /\ Stage = "register_dataset"
  PROVE  ExportInv'
<1>1. FilesOK' /\ PipeOK'
  BY DEF ExportInv, FilesOK, PipeOK, Stage, Still
<1>2. ProcOK' /\ WorkOK' /\ RowsOK'
  BY DEF ExportInv, ProcOK, WorkOK, RowsOK, Stage, Still, Registering, Exporting
<1>3. ReportsMatch'
  BY DEF ExportInv, ReportsMatch
<1>4. \A s \in {"export_onnx", "export_trt_fp16", "export_trt_int8", "register_artifacts"} :
        Finished(s)' => Finished(s)
  BY Places, FinishedNext DEF Still
<1>5. LeftOK'
  BY <1>4, SameFiles, SameRows DEF ExportInv, LeftOK, Still
<1> QED
  BY <1>1, <1>2, <1>3, <1>5 DEF ExportInv

\* The commands that write the registry, up to the artifacts.
LEMMA RegistryStep == ExportInv /\ RegistryStage => ExportInv'
<1> SUFFICES ASSUME ExportInv, RegistryStage PROVE ExportInv'
  OBVIOUS
<1>0. Still /\ UNCHANGED <<files, shaken>>
  BY DEF RegistryStage, pipeVars, exportVars, Still
<1>E. ASSUME NEW f \in Outcomes, Exits(f)
      PROVE  "pc" \in DOMAIN proc' /\ proc'.pc = "exit" /\ proc'.result \in Outcomes
  BY <1>E DEF Exits
<1>F. Exits("ok") \/ Exits("failed") => "pc" \in DOMAIN proc' /\ proc'.pc = "exit" /\ proc'.result \in Outcomes
  BY <1>E DEF Outcomes
<1>N. ASSUME pipe.pc = "stage", pipe.left # <<>>, proc.pc # "exit", Place[Stage] <= 10
      PROVE  ~Finished("register_artifacts")
  BY <1>N, NotYet, Places DEF ExportInv
<1>1. CASE Executes("create_pipeline_run") /\ CreateDelete(pipe.run)
  <2>1. pipe.pc = "stage" /\ pipe.left # <<>> /\ Stage = "create_pipeline_run" /\ proc.pc = "idle"
    BY <1>1 DEF Executes
  <2>2. ~Finished("register_artifacts")
    BY <1>N, <2>1, Places
  <2>3. /\ DbOK' /\ db'.artifacts = db.artifacts
        /\ \/ Exits("failed")
           \/ proc' = [pc |-> "create_insert", result |-> "none"]
    BY <1>1 DEF CreateDelete, ExportInv, DbOK
  <2> QED
    BY <1>0, <1>F, <2>1, <2>2, <2>3, QuietStep
<1>2. CASE Executes("validate_raw_dataset") /\ ValidateRaw
  <2>1. pipe.pc = "stage" /\ pipe.left # <<>> /\ Stage = "validate_raw_dataset" /\ db' = db
    BY <1>2 DEF Executes, ValidateRaw
  <2>2. (Exits("ok") \/ Exits("failed"))
    BY <1>2 DEF ValidateRaw
  <2>3. DbOK' /\ (Has(db.runs, pipe.run)' => Has(db.runs, pipe.run))
    BY <1>0, <2>1 DEF ExportInv, DbOK, Has, Still
  <2> QED
    BY <1>0, <1>F, <2>1, <2>2, <2>3, QuietStep
<1>3. CASE Executes("register_dataset") /\ RegisterHash(pipe.dataset, pipe.replace)
  <2>1. pipe.pc = "stage" /\ pipe.left # <<>> /\ Stage = "register_dataset" /\ db' = db
    BY <1>3 DEF Executes, RegisterHash
  <2>2. Exits("failed") \/ ("pc" \in DOMAIN proc' /\ proc'.pc = "reg_open")
    BY <1>3 DEF RegisterHash
  <2>3. DbOK' /\ (Has(db.runs, pipe.run)' => Has(db.runs, pipe.run))
    BY <1>0, <2>1 DEF ExportInv, DbOK, Has, Still
  <2> QED
    BY <1>0, <1>F, <2>1, <2>2, <2>3, QuietStep DEF Registering
<1>4. CASE Executes("update_pipeline_run_status") /\ CloseRun(pipe.run)
  <2>1. pipe.pc = "stage" /\ pipe.left # <<>> /\ Stage = "update_pipeline_run_status"
    BY <1>4 DEF Executes
  <2>2. db' = UpdateRun(pipe.run, [status |-> "success"]) /\ (Exits("ok") \/ Exits("failed"))
    BY <1>4 DEF CloseRun
  <2>3. DbOK' /\ db'.artifacts = db.artifacts
    BY <2>2 DEF UpdateRun, ExportInv, DbOK
  <2>4. Has(db.runs, pipe.run)' => Has(db.runs, pipe.run)
    BY <1>0, <2>2 DEF UpdateRun, ExportInv, DbOK, Has, Still
  <2> QED
    BY <1>0, <1>F, <2>1, <2>2, <2>3, <2>4, QuietStep
<1>5. CASE CreateInsert(pipe.run, pipe.dataset, att)
  <2>1. pipe.pc = "stage" /\ pipe.left # <<>> /\ Stage = "create_pipeline_run" /\ proc.pc = "create_insert"
    BY <1>5 DEF CreateInsert, ExportInv, ProcOK
  <2>2. ~Finished("register_artifacts")
    BY <1>N, <2>1, Places
  <2>3. DbOK' /\ db'.artifacts = db.artifacts /\ Exits("ok")
    BY <1>5 DEF CreateInsert, ExportInv, DbOK
  <2> QED
    BY <1>0, <1>F, <2>1, <2>2, <2>3, QuietStep
<1>6. CASE RegisterSteps
  <2>1. /\ proc.pc \in Registering /\ "pc" \in DOMAIN proc'
        /\ DOMAIN db' = DOMAIN db /\ db'.runs = db.runs /\ db'.artifacts = db.artifacts
        /\ (proc'.pc = "exit" /\ proc'.result \in Outcomes) \/ proc'.pc \in Registering
    <3>1. CASE RegisterOpen
      <4>1. /\ proc.pc = "reg_open"
            /\ Exits("failed") \/ proc' = [proc EXCEPT !.pc = "reg_upsert"]
            /\ db' = db \/ db' = DropDatasetRows(proc.dataset)
        BY <3>1 DEF RegisterOpen
      <4>2. DOMAIN db' = DOMAIN db /\ db'.runs = db.runs /\ db'.artifacts = db.artifacts
        BY <4>1 DEF DropDatasetRows, ExportInv, DbOK
      <4>3. ASSUME proc' = [proc EXCEPT !.pc = "reg_upsert"]
            PROVE  "pc" \in DOMAIN proc' /\ proc'.pc = "reg_upsert"
        BY <4>3 DEF ExportInv, ProcOK
      <4> QED
        BY <1>F, <4>1, <4>2, <4>3 DEF Registering
    <3>2. CASE RegisterUpsert
      <4>1. CASE Exits("failed") /\ db' = db
        BY <1>F, <3>2, <4>1 DEF RegisterUpsert, Registering
      <4>2. CASE /\ db' = [db EXCEPT !.datasets = Upsert(@, [id |-> proc.dataset, hash |-> proc.hash])]
                 /\ proc' = [pc |-> "reg_rows", dataset |-> proc.dataset, left |-> SPLITS, rows |-> <<>>]
        BY <3>2, <4>2 DEF RegisterUpsert, Registering, ExportInv, DbOK
      <4> QED
        BY <3>2, <4>1, <4>2 DEF RegisterUpsert
    <3>3. CASE RegisterSplit
      <4>1. /\ proc.pc = "reg_rows" /\ db' = db
            /\ Exits("failed") \/ \E d, l, r : proc' = [pc |-> "reg_rows", dataset |-> d, left |-> l, rows |-> r]
        BY <3>3, Zenon DEF RegisterSplit
      <4> QED
        BY <1>F, <4>1 DEF Registering
    <3>4. CASE RegisterRow
      <4>1. /\ proc.pc = "reg_rows"
            /\ Exits("failed") \/ proc' = [proc EXCEPT !.rows = Tail(@)]
            /\ \/ db' = db
               \/ \E row : \/ db' = [db EXCEPT !.images = @ \cup {row}]
                           \/ db' = [db EXCEPT !.anns = @ \cup {row}]
        BY <3>4, Zenon DEF RegisterRow
      <4>2. DOMAIN db' = DOMAIN db /\ db'.runs = db.runs /\ db'.artifacts = db.artifacts
        BY <4>1 DEF ExportInv, DbOK
      <4>3. ASSUME proc' = [proc EXCEPT !.rows = Tail(@)]
            PROVE  "pc" \in DOMAIN proc' /\ proc'.pc = "reg_rows"
        BY <4>1, <4>3 DEF ExportInv, ProcOK
      <4> QED
        BY <1>F, <4>1, <4>2, <4>3 DEF Registering
    <3>5. CASE RegisterEnd
      BY <1>F, <3>5 DEF RegisterEnd, Registering
    <3> QED
      BY <1>6, <3>1, <3>2, <3>3, <3>4, <3>5 DEF RegisterSteps
  <2>2. pipe.pc = "stage" /\ pipe.left # <<>> /\ Stage = "register_dataset"
    BY <2>1 DEF ExportInv, ProcOK, Registering
  <2>3. DbOK' /\ (Has(db.runs, pipe.run)' => Has(db.runs, pipe.run))
    BY <1>0, <2>1 DEF ExportInv, DbOK, Has, Still
  <2> QED
    BY <1>0, <2>1, <2>2, <2>3, QuietStep
<1> QED
  BY <1>1, <1>2, <1>3, <1>4, <1>5, <1>6 DEF RegistryStage

(***************************************************************************)
(* The commands that write the files of a run                              *)
(***************************************************************************)
\* What a file of a run becomes, and what stays.
WithModel(r, m, x) == [files EXCEPT ![r].model[m] = x]
WithReport(r, m, x) == [files EXCEPT ![r].report[m] = x]

LEMMA PutModel ==
  ASSUME FilesOK, NEW r \in RunIds, NEW m \in Models, NEW x \in ModelFiles,
         files' = WithModel(r, m, x)
  PROVE  /\ files' \in [RunIds -> RunFiles]
         /\ files'[r].model[m] = x
         /\ \A k \in Models : k # m => files'[r].model[k] = files[r].model[k]
         /\ files'[r].ckpt = files[r].ckpt /\ files'[r].table = files[r].table
         /\ files'[r].report = files[r].report
         /\ \A q \in RunIds : q # r => files'[q] = files[q]
<1>1. files[r] \in RunFiles /\ files \in [RunIds -> RunFiles]
  BY DEF FilesOK
<1> DEFINE g == [files[r].model EXCEPT ![m] = x]
           h == [files[r] EXCEPT !.model = g]
<1>2. /\ g \in [Models -> ModelFiles] /\ g[m] = x
      /\ \A k \in Models : k # m => g[k] = files[r].model[k]
  BY <1>1 DEF RunFiles
<1>3. files' = [files EXCEPT ![r] = h]
  BY <1>1 DEF WithModel
<1> HIDE DEF g
<1>4. /\ h \in RunFiles /\ h.model = g /\ h.ckpt = files[r].ckpt /\ h.table = files[r].table
      /\ h.report = files[r].report
  BY <1>1, <1>2 DEF RunFiles
<1> HIDE DEF h
<1>5. files' \in [RunIds -> RunFiles] /\ files'[r] = h /\ \A q \in RunIds : q # r => files'[q] = files[q]
  BY <1>1, <1>3, <1>4
<1> QED
  BY <1>2, <1>4, <1>5

LEMMA PutReport ==
  ASSUME FilesOK, NEW r \in RunIds, NEW m \in Models, NEW x \in ModelFiles,
         files' = WithReport(r, m, x)
  PROVE  /\ files' \in [RunIds -> RunFiles]
         /\ files'[r].report[m] = x
         /\ \A k \in Models : k # m => files'[r].report[k] = files[r].report[k]
         /\ files'[r].ckpt = files[r].ckpt /\ files'[r].table = files[r].table
         /\ files'[r].model = files[r].model
         /\ \A q \in RunIds : q # r => files'[q] = files[q]
<1>1. files[r] \in RunFiles /\ files \in [RunIds -> RunFiles]
  BY DEF FilesOK
<1> DEFINE g == [files[r].report EXCEPT ![m] = x]
           h == [files[r] EXCEPT !.report = g]
<1>2. /\ g \in [Models -> ModelFiles] /\ g[m] = x
      /\ \A k \in Models : k # m => g[k] = files[r].report[k]
  BY <1>1 DEF RunFiles
<1>3. files' = [files EXCEPT ![r] = h]
  BY <1>1 DEF WithReport
<1> HIDE DEF g
<1>4. /\ h \in RunFiles /\ h.report = g /\ h.ckpt = files[r].ckpt /\ h.table = files[r].table
      /\ h.model = files[r].model
  BY <1>1, <1>2 DEF RunFiles
<1> HIDE DEF h
<1>5. files' \in [RunIds -> RunFiles] /\ files'[r] = h /\ \A q \in RunIds : q # r => files'[q] = files[q]
  BY <1>1, <1>3, <1>4
<1> QED
  BY <1>2, <1>4, <1>5

\* A new checkpoint is of the attempt going on, which is the latest.
LEMMA TrainStep == ExportInv /\ Executes("train_yolox") /\ Train(pipe.run, att) /\ Still => ExportInv'
<1> SUFFICES ASSUME ExportInv, Executes("train_yolox"), Train(pipe.run, att), Still PROVE ExportInv'
  OBVIOUS
<1> DEFINE r == pipe.run
<1>1. /\ pipe.pc = "stage" /\ pipe.left # <<>> /\ Stage = "train_yolox" /\ proc.pc = "idle"
      /\ r \in RunIds
  BY DEF Executes, ExportInv, PipeOK
<1>2. files' = [files EXCEPT ![r].ckpt = Doc(att)] /\ Exits("ok") /\ UNCHANGED <<db, shaken>>
  BY DEF Train
<1>3. Doc(att) \in Numbered /\ att \in Nat /\ files[r] \in RunFiles /\ files \in [RunIds -> RunFiles]
  BY <1>1 DEF ExportInv, FilesOK, Numbered
<1>4. /\ files' \in [RunIds -> RunFiles] /\ files'[r].ckpt = Doc(att)
      /\ files'[r].model = files[r].model /\ files'[r].report = files[r].report
      /\ files'[r].table = files[r].table
      /\ \A q \in RunIds : q # r => files'[q] = files[q]
  BY <1>1, <1>2, <1>3 DEF RunFiles
<1>5. /\ files[r].ckpt \in Numbered /\ files[r].table \in Numbered
      /\ files[r].model["onnx"] \in ModelFiles
  BY <1>3 DEF RunFiles, Models
<1>6. FilesOK'
  <2>1. Whole(files[r].model["onnx"]) => files[r].model["onnx"].doc.weights <= att
    <3>1. ASSUME Whole(files[r].model["onnx"])
          PROVE  /\ files[r].model["onnx"].doc.weights \in Nat /\ files[r].ckpt.doc \in Nat
                 /\ files[r].ckpt.doc <= att /\ files[r].model["onnx"].doc.weights <= files[r].ckpt.doc
      BY <1>1, <1>5, <3>1, ModelDoc, NumberedDoc DEF ExportInv, FilesOK
    <3> QED
      BY <1>3, <3>1
  <2>2. Whole(files[r].table) => files[r].table.doc <= att
    <3>1. ASSUME Whole(files[r].table)
          PROVE  /\ files[r].table.doc \in Nat /\ files[r].ckpt.doc \in Nat
                 /\ files[r].ckpt.doc <= att /\ files[r].table.doc <= files[r].ckpt.doc
      BY <1>1, <1>5, <3>1, NumberedDoc DEF ExportInv, FilesOK
    <3> QED
      BY <1>3, <3>1
  <2>3. Whole(files'[r].ckpt) /\ files'[r].ckpt.doc = att
    BY <1>4, DocFacts
  <2>4. ASSUME NEW q \in RunIds
        PROVE  /\ Whole(files'[q].ckpt) => files'[q].ckpt.doc <= att
               /\ Whole(files'[q].model["onnx"]) =>
                    Whole(files'[q].ckpt) /\ files'[q].model["onnx"].doc.weights <= files'[q].ckpt.doc
               /\ Whole(files'[q].table) => Whole(files'[q].ckpt) /\ files'[q].table.doc <= files'[q].ckpt.doc
    <3>1. CASE q = r
      BY <1>3, <1>4, <2>1, <2>2, <2>3, <3>1
    <3>2. CASE q # r
      BY <1>4, <3>2 DEF ExportInv, FilesOK
    <3> QED
      BY <3>1, <3>2
  <2> QED
    BY <1>3, <1>4, <2>4 DEF FilesOK, Still
<1>7. PipeOK'
  BY DEF ExportInv, PipeOK, Stage, Still
<1>8. "pc" \in DOMAIN proc' /\ proc'.pc = "exit" /\ proc'.result \in Outcomes
  BY <1>2 DEF Exits, Outcomes
<1>9. ProcOK' /\ WorkOK' /\ RowsOK'
  BY <1>1, <1>8 DEF ExportInv, ProcOK, WorkOK, RowsOK, Stage, Still, Registering, Exporting
<1>10. ReportsMatch'
  BY <1>1, <1>2, <1>4 DEF ExportInv, ReportsMatch
<1>11. ASSUME NEW s \in {"export_onnx", "export_trt_fp16", "export_trt_int8", "register_artifacts"}
       PROVE  ~Finished(s)'
  <2>1. s \in Stages /\ Place[Stage] <= Place[s] /\ Stage # s
    BY <1>1, Places
  <2>2. ~Finished(s)
    BY <1>1, <2>1, NotYet DEF ExportInv
  <2> QED
    BY <2>1, <2>2, FinishedNext DEF Still
<1>12. LeftOK'
  BY <1>11 DEF LeftOK
<1>13. DbOK'
  BY <1>2 DEF ExportInv, DbOK
<1> QED
  BY <1>6, <1>7, <1>9, <1>10, <1>12, <1>13 DEF ExportInv

\* The evaluation writes only its summary.
LEMMA EvaluateStep == ExportInv /\ Executes("evaluate_model") /\ Evaluate(pipe.run) /\ Still => ExportInv'
<1> SUFFICES ASSUME ExportInv, Executes("evaluate_model"), Evaluate(pipe.run), Still PROVE ExportInv'
  OBVIOUS
<1> DEFINE r == pipe.run
<1>1. /\ pipe.pc = "stage" /\ pipe.left # <<>> /\ Stage = "evaluate_model" /\ proc.pc = "idle"
      /\ r \in RunIds
  BY DEF Executes, ExportInv, PipeOK
<1>2. /\ \/ Whole(files[r].ckpt) /\ files' = [files EXCEPT ![r].summary = Doc(files[r].ckpt.doc)]
         \/ files' = files
      /\ Exits("ok") \/ Exits("failed")
      /\ UNCHANGED <<db, shaken>>
  BY DEF Evaluate
<1>3. files[r] \in RunFiles /\ files \in [RunIds -> RunFiles] /\ files[r].ckpt \in Numbered
  BY <1>1 DEF ExportInv, FilesOK, RunFiles
<1>4. Whole(files[r].ckpt) => Doc(files[r].ckpt.doc) \in Numbered
  BY <1>3, NumberedDoc DEF Numbered
<1>5. /\ files' \in [RunIds -> RunFiles]
      /\ \A q \in RunIds : /\ files'[q].model = files[q].model /\ files'[q].report = files[q].report
                           /\ files'[q].table = files[q].table /\ files'[q].ckpt = files[q].ckpt
  <2>1. CASE Whole(files[r].ckpt) /\ files' = [files EXCEPT ![r].summary = Doc(files[r].ckpt.doc)]
    <3> DEFINE h == [files[r] EXCEPT !.summary = Doc(files[r].ckpt.doc)]
    <3>1. files' = [files EXCEPT ![r] = h]
      BY <1>3, <2>1
    <3>2. /\ h \in RunFiles /\ h.model = files[r].model /\ h.report = files[r].report
          /\ h.table = files[r].table /\ h.ckpt = files[r].ckpt
      BY <1>3, <1>4, <2>1 DEF RunFiles
    <3> HIDE DEF h
    <3> QED
      BY <1>1, <1>3, <3>1, <3>2
  <2> QED
    BY <1>2, <1>3, <2>1
<1>6. FilesOK'
  BY <1>5 DEF ExportInv, FilesOK, Still
<1>7. PipeOK'
  BY DEF ExportInv, PipeOK, Stage, Still
<1>8. "pc" \in DOMAIN proc' /\ proc'.pc = "exit" /\ proc'.result \in Outcomes
  BY <1>2 DEF Exits, Outcomes
<1>9. ProcOK' /\ WorkOK' /\ RowsOK'
  BY <1>1, <1>8 DEF ExportInv, ProcOK, WorkOK, RowsOK, Stage, Still, Registering, Exporting
<1>10. ReportsMatch'
  BY <1>2, <1>5 DEF ExportInv, ReportsMatch
<1>11. ASSUME NEW s \in {"export_onnx", "export_trt_fp16", "export_trt_int8", "register_artifacts"}
       PROVE  ~Finished(s)'
  <2>1. s \in Stages /\ Place[Stage] <= Place[s] /\ Stage # s
    BY <1>1, Places
  <2>2. ~Finished(s)
    BY <1>1, <2>1, NotYet DEF ExportInv
  <2> QED
    BY <2>1, <2>2, FinishedNext DEF Still
<1>12. LeftOK' /\ DbOK'
  BY <1>2, <1>11 DEF LeftOK, ExportInv, DbOK
<1> QED
  BY <1>6, <1>7, <1>9, <1>10, <1>12 DEF ExportInv

\* The model a stage is about.
LEMMA ModelStages ==
  /\ Models = {"onnx", "fp16", "int8"}
  /\ StageOf["onnx"] = "export_onnx" /\ StageOf["fp16"] = "export_trt_fp16" /\ StageOf["int8"] = "export_trt_int8"
BY DEF Models, StageOf

\* An export reads its input, and keeps what it is to write.
LEMMA StartStep ==
  ASSUME ExportInv, Still,
         \/ Executes("export_onnx") /\ ExportOnnx(pipe.run)
         \/ Executes("export_trt_fp16") /\ BuildEngine(pipe.run, "fp16", pipe.dataset)
         \/ Executes("export_trt_int8") /\ BuildEngine(pipe.run, "int8", pipe.dataset)
  PROVE  ExportInv'
<1> DEFINE r == pipe.run
<1>1. /\ pipe.pc = "stage" /\ pipe.left # <<>> /\ proc.pc = "idle" /\ r \in RunIds
      /\ Stage \in {"export_onnx", "export_trt_fp16", "export_trt_int8"}
      /\ UNCHANGED <<db, files, shaken>>
  BY DEF Executes, ExportOnnx, BuildEngine, ExportInv, PipeOK
<1>2. /\ files[r] \in RunFiles /\ files[r].ckpt \in Numbered /\ files[r].model["onnx"] \in ModelFiles
  BY <1>1 DEF ExportInv, FilesOK, RunFiles, Models
<1>3. FilesOK' /\ DbOK' /\ ReportsMatch'
  BY <1>1 DEF ExportInv, FilesOK, DbOK, ReportsMatch, Still
<1>4. PipeOK'
  BY DEF ExportInv, PipeOK, Stage, Still
<1>5. \/ Exits("failed")
      \/ /\ Stage = "export_onnx" /\ Whole(files[r].ckpt)
         /\ proc' = [pc |-> "model", what |-> "onnx", run |-> r, content |-> OnnxOf(files[r].ckpt.doc)]
      \/ /\ Stage = "export_trt_fp16" /\ Whole(files[r].model["onnx"])
         /\ proc' = [pc |-> "model", what |-> "fp16", run |-> r, content |-> EngineOf(files[r].model["onnx"].doc, 0)]
      \/ /\ Stage = "export_trt_int8" /\ Whole(files[r].model["onnx"])
         /\ proc' = [pc |-> "calibrate", what |-> "int8", run |-> r, content |-> EngineOf(files[r].model["onnx"].doc, 0)]
  BY DEF Executes, ExportOnnx, BuildEngine
<1>6. ProcOK' /\ WorkOK' /\ RowsOK' /\ ~(proc'.pc = "exit" /\ proc'.result = "ok")
  <2>1. CASE Exits("failed")
    <3>1. "pc" \in DOMAIN proc' /\ proc'.pc = "exit" /\ proc'.result = "failed"
      BY <2>1 DEF Exits
    <3> QED
      BY <1>1, <3>1 DEF ExportInv, ProcOK, WorkOK, RowsOK, Stage, Still, Registering, Exporting, Outcomes
  <2>2. CASE /\ Stage = "export_onnx" /\ Whole(files[r].ckpt)
             /\ proc' = [pc |-> "model", what |-> "onnx", run |-> r, content |-> OnnxOf(files[r].ckpt.doc)]
    <3>1. OnnxOf(files[r].ckpt.doc) \in Contents
      BY <1>2, <2>2, NumberedDoc DEF OnnxOf, Contents
    <3>2. ProcOK'
      BY <1>1, <2>2, <3>1, ModelStages DEF ProcOK, Stage, Still, Registering, Exporting
    <3> QED
      BY <1>1, <2>2, <3>2 DEF WorkOK, RowsOK, Still
  <2>3. CASE /\ Stage = "export_trt_fp16" /\ Whole(files[r].model["onnx"])
             /\ proc' = [pc |-> "model", what |-> "fp16", run |-> r, content |-> EngineOf(files[r].model["onnx"].doc, 0)]
    <3>1. EngineOf(files[r].model["onnx"].doc, 0) \in Contents
      BY <1>2, <2>3, ModelDoc DEF EngineOf, Contents
    <3>2. ProcOK'
      BY <1>1, <2>3, <3>1, ModelStages DEF ProcOK, Stage, Still, Registering, Exporting
    <3> QED
      BY <1>1, <2>3, <3>2 DEF WorkOK, RowsOK, Still, EngineOf
  <2>4. CASE /\ Stage = "export_trt_int8" /\ Whole(files[r].model["onnx"])
             /\ proc' = [pc |-> "calibrate", what |-> "int8", run |-> r, content |-> EngineOf(files[r].model["onnx"].doc, 0)]
    <3>1. EngineOf(files[r].model["onnx"].doc, 0) \in Contents
      BY <1>2, <2>4, ModelDoc DEF EngineOf, Contents
    <3>2. ProcOK'
      BY <1>1, <2>4, <3>1, ModelStages DEF ProcOK, Stage, Still, Registering, Exporting
    <3> QED
      BY <1>1, <2>4, <3>2 DEF WorkOK, RowsOK, Still, EngineOf
  <2> QED
    BY <1>5, <2>1, <2>2, <2>3, <2>4
<1>7. \A s \in {"export_onnx", "export_trt_fp16", "export_trt_int8", "register_artifacts"} :
        Finished(s)' => Finished(s)
  BY <1>6, Places, FinishedNext DEF Still
<1>8. LeftOK'
  BY <1>1, <1>7, SameFiles, SameRows DEF ExportInv, LeftOK, Still
<1> QED
  BY <1>3, <1>4, <1>6, <1>8 DEF ExportInv

\* What is known while an export runs.
LEMMA WhileExporting ==
  ASSUME ExportInv, proc.pc \in Exporting
  PROVE  /\ pipe.pc = "stage" /\ pipe.left # <<>> /\ pipe.run \in RunIds /\ proc.run = pipe.run
         /\ proc \in [pc : Exporting, what : Models, run : {pipe.run}, content : Contents]
         /\ proc.what \in Models /\ Stage = StageOf[proc.what] /\ proc.content \in Contents
         /\ files \in [RunIds -> RunFiles] /\ files[pipe.run] \in RunFiles
         /\ files[pipe.run].ckpt \in Numbered /\ files[pipe.run].table \in Numbered
         /\ \A m \in Models : files[pipe.run].model[m] \in ModelFiles
         /\ ~Finished("register_artifacts") /\ ~Finished("export_trt_int8")
         /\ proc.what \in {"onnx", "fp16"} => ~Finished("export_trt_fp16")
         /\ proc.what = "onnx" => ~Finished("export_onnx")
<1>1. pipe.pc = "stage" /\ pipe.left # <<>>
  BY DEF ExportInv, ProcOK, Exporting
<1>2. pipe.run \in RunIds
  BY <1>1 DEF ExportInv, PipeOK
<1>3. /\ proc \in [pc : Exporting, what : Models, run : {pipe.run}, content : Contents]
      /\ Stage = StageOf[proc.what]
  BY DEF ExportInv, ProcOK
<1>4. proc.what \in Models /\ proc.content \in Contents /\ proc.run = pipe.run
  BY <1>3
<1>5. files \in [RunIds -> RunFiles] /\ files[pipe.run] \in RunFiles
  BY <1>2 DEF ExportInv, FilesOK
<1>6. /\ files[pipe.run].ckpt \in Numbered /\ files[pipe.run].table \in Numbered
      /\ \A m \in Models : files[pipe.run].model[m] \in ModelFiles
  BY <1>5 DEF RunFiles
<1>7. proc.pc # "exit"
  BY DEF Exporting
<1>8. ASSUME NEW s \in Stages, Place[Stage] <= Place[s] PROVE ~Finished(s)
  BY <1>1, <1>7, <1>8, NotYet DEF ExportInv
<1>9. /\ ~Finished("register_artifacts") /\ ~Finished("export_trt_int8")
      /\ proc.what \in {"onnx", "fp16"} => ~Finished("export_trt_fp16")
      /\ proc.what = "onnx" => ~Finished("export_onnx")
  BY <1>3, <1>4, <1>8, Places, ModelStages
<1> QED
  BY <1>1, <1>2, <1>3, <1>4, <1>5, <1>6, <1>9

\* The table of the int8 engine is of the checkpoint or of an earlier one.
LEMMA CalibrateStep == ExportInv /\ Calibrate /\ Still => ExportInv'
<1> SUFFICES ASSUME ExportInv, Calibrate, Still PROVE ExportInv'
  OBVIOUS
<1> DEFINE r == pipe.run
           its == files[r]
           t == IF IsFile(its.table) THEN its.table.doc ELSE proc.content.weights
<1>1. proc.pc = "calibrate" /\ proc.pc \in Exporting /\ proc.what = "int8"
  BY DEF Calibrate, Exporting, ExportInv, WorkOK
<1>2. /\ pipe.pc = "stage" /\ pipe.left # <<>> /\ r \in RunIds /\ proc.run = r
      /\ proc \in [pc : Exporting, what : Models, run : {r}, content : Contents]
      /\ Stage = "export_trt_int8" /\ proc.content \in Contents
      /\ files \in [RunIds -> RunFiles] /\ its \in RunFiles
      /\ its.ckpt \in Numbered /\ its.table \in Numbered /\ its.model["onnx"] \in ModelFiles
      /\ ~Finished("register_artifacts") /\ ~Finished("export_trt_int8")
  BY <1>1, WhileExporting, ModelStages
<1>3. /\ files' = [files EXCEPT ![r].table = Doc(t)]
      /\ proc' = [proc EXCEPT !.pc = "model", !.content.table = t]
      /\ UNCHANGED <<db, shaken>>
  BY <1>2 DEF Calibrate
<1>4. /\ Whole(its.model["onnx"]) /\ proc.content.weights = its.model["onnx"].doc.weights
      /\ Whole(its.ckpt) /\ its.model["onnx"].doc.weights <= its.ckpt.doc
      /\ Whole(its.table) => its.table.doc <= its.ckpt.doc
  BY <1>1, <1>2 DEF ExportInv, WorkOK, FilesOK
<1>5. t \in Nat /\ t <= its.ckpt.doc /\ Doc(t) \in Numbered
  BY <1>2, <1>4, NumberedDoc, ModelDoc DEF Numbered
<1> HIDE DEF t
<1>6. /\ files' \in [RunIds -> RunFiles] /\ files'[r].table = Doc(t)
      /\ files'[r].model = its.model /\ files'[r].report = its.report /\ files'[r].ckpt = its.ckpt
      /\ \A q \in RunIds : q # r => files'[q] = files[q]
  <2> DEFINE h == [files[r] EXCEPT !.table = Doc(t)]
  <2>1. files' = [files EXCEPT ![r] = h]
    BY <1>2, <1>3
  <2>2. /\ h \in RunFiles /\ h.model = its.model /\ h.report = its.report /\ h.ckpt = its.ckpt
        /\ h.table = Doc(t)
    BY <1>2, <1>5 DEF RunFiles
  <2> HIDE DEF h
  <2> QED
    BY <1>2, <2>1, <2>2
<1>7. FilesOK'
  <2>1. Whole(files'[r].table) /\ files'[r].table.doc = t
    BY <1>6, DocFacts
  <2>2. ASSUME NEW q \in RunIds
        PROVE  /\ Whole(files'[q].ckpt) => files'[q].ckpt.doc <= att
               /\ Whole(files'[q].model["onnx"]) =>
                    Whole(files'[q].ckpt) /\ files'[q].model["onnx"].doc.weights <= files'[q].ckpt.doc
               /\ Whole(files'[q].table) => Whole(files'[q].ckpt) /\ files'[q].table.doc <= files'[q].ckpt.doc
    <3>1. CASE q = r
      BY <1>2, <1>4, <1>5, <1>6, <2>1, <3>1 DEF ExportInv, FilesOK
    <3>2. CASE q # r
      BY <1>6, <3>2 DEF ExportInv, FilesOK
    <3> QED
      BY <3>1, <3>2
  <2> QED
    BY <1>6, <2>2 DEF ExportInv, FilesOK, Still
<1>8. PipeOK' /\ DbOK'
  BY <1>3 DEF ExportInv, PipeOK, DbOK, Stage, Still
<1>9. /\ proc' \in [pc : Exporting, what : Models, run : {r}, content : Contents]
      /\ proc'.pc = "model" /\ proc'.what = "int8" /\ proc'.run = r
      /\ proc'.content.weights = proc.content.weights /\ proc'.content.table = t
  <2> DEFINE c == [proc.content EXCEPT !.table = t]
  <2>1. c \in Contents /\ c.weights = proc.content.weights /\ c.table = t
    BY <1>2, <1>5 DEF Contents
  <2>2. proc' = [proc EXCEPT !.pc = "model", !.content = c]
    BY <1>2, <1>3
  <2> HIDE DEF c
  <2> QED
    BY <1>1, <1>2, <2>1, <2>2 DEF Exporting
<1>10. ProcOK'
  BY <1>2, <1>9, ModelStages DEF ProcOK, Stage, Still, Registering, Exporting
<1>11. WorkOK' /\ RowsOK'
  BY <1>4, <1>6, <1>9, DocFacts DEF WorkOK, RowsOK, Still
<1>12. ReportsMatch'
  BY <1>2, <1>3, <1>6 DEF ExportInv, ReportsMatch
<1>13. ASSUME NEW s \in Stages, Finished(s)' PROVE Finished(s)
  BY <1>9, <1>13, FinishedNext DEF Still
<1>14. LeftOK'
  BY <1>2, <1>6, <1>13, Places DEF ExportInv, LeftOK, OnnxLeft, EngineLeft, Still
<1> QED
  BY <1>7, <1>8, <1>10, <1>11, <1>12, <1>14 DEF ExportInv

\* A model is torn until it has the content that its inputs gave it.
LEMMA WriteModelStep == ExportInv /\ WriteModel /\ Still => ExportInv'
<1> SUFFICES ASSUME ExportInv, WriteModel, Still PROVE ExportInv'
  OBVIOUS
<1> DEFINE r == pipe.run
           m == proc.what
           x == IF proc.pc = "model" THEN Torn ELSE Doc(proc.content)
           next == IF proc.pc = "model" THEN "model_open" ELSE "report"
<1>1. proc.pc \in {"model", "model_open"} /\ proc.pc \in Exporting
  BY DEF WriteModel, Exporting
<1>2. /\ pipe.pc = "stage" /\ pipe.left # <<>> /\ r \in RunIds /\ proc.run = r
      /\ proc \in [pc : Exporting, what : Models, run : {r}, content : Contents]
      /\ m \in Models /\ Stage = StageOf[m] /\ proc.content \in Contents
      /\ files[r].ckpt \in Numbered
      /\ ~Finished("register_artifacts") /\ ~Finished("export_trt_int8")
      /\ m \in {"onnx", "fp16"} => ~Finished("export_trt_fp16")
      /\ m = "onnx" => ~Finished("export_onnx")
  BY <1>1, WhileExporting
<1>3. /\ files' = WithModel(r, m, x)
      /\ proc' = [proc EXCEPT !.pc = next]
      /\ shaken' = shaken \cup {<<r, m>>} /\ db' = db
  BY <1>2 DEF WriteModel, WithModel
<1>4. x \in ModelFiles /\ (Whole(x) => x = Doc(proc.content)) /\ (next = "report" => x = Doc(proc.content))
  BY <1>1, <1>2, DocFacts DEF ModelFiles
<1>5. FilesOK
  BY DEF ExportInv
<1> HIDE DEF x
<1>6. /\ files' \in [RunIds -> RunFiles] /\ files'[r].model[m] = x
      /\ \A k \in Models : k # m => files'[r].model[k] = files[r].model[k]
      /\ files'[r].ckpt = files[r].ckpt /\ files'[r].table = files[r].table
      /\ files'[r].report = files[r].report
      /\ \A q \in RunIds : q # r => files'[q] = files[q]
  BY <1>2, <1>3, <1>4, <1>5, PutModel
<1>7. /\ m = "onnx" => Whole(files[r].ckpt) /\ proc.content = OnnxOf(files[r].ckpt.doc)
      /\ m # "onnx" => Whole(files[r].model["onnx"])
                       /\ proc.content.weights = files[r].model["onnx"].doc.weights
      /\ m = "int8" => Whole(files[r].table) /\ proc.content.table = files[r].table.doc
  BY <1>1, <1>2 DEF ExportInv, WorkOK
<1>8. FilesOK'
  <2>1. ASSUME m = "onnx", Whole(x)
        PROVE  Whole(files[r].ckpt) /\ x.doc.weights = files[r].ckpt.doc /\ files[r].ckpt.doc \in Nat
    BY <1>2, <1>4, <1>7, <2>1, DocFacts, NumberedDoc DEF OnnxOf
  <2>2. "onnx" \in Models
    BY ModelStages
  <2>3. ASSUME NEW q \in RunIds
        PROVE  /\ Whole(files'[q].ckpt) => files'[q].ckpt.doc <= att
               /\ Whole(files'[q].model["onnx"]) =>
                    Whole(files'[q].ckpt) /\ files'[q].model["onnx"].doc.weights <= files'[q].ckpt.doc
               /\ Whole(files'[q].table) => Whole(files'[q].ckpt) /\ files'[q].table.doc <= files'[q].ckpt.doc
    <3>1. CASE q = r /\ m = "onnx"
      BY <1>2, <1>5, <1>6, <2>1, <3>1 DEF FilesOK
    <3>2. CASE q = r /\ m # "onnx"
      BY <1>2, <1>5, <1>6, <2>2, <3>2 DEF FilesOK
    <3>3. CASE q # r
      BY <1>5, <1>6, <3>3 DEF FilesOK
    <3> QED
      BY <3>1, <3>2, <3>3
  <2> QED
    BY <1>5, <1>6, <2>3 DEF FilesOK, Still
<1>9. PipeOK' /\ DbOK'
  BY <1>3 DEF ExportInv, PipeOK, DbOK, Stage, Still
<1>10. /\ proc' \in [pc : Exporting, what : Models, run : {r}, content : Contents]
       /\ proc'.pc = next /\ next \in {"model_open", "report"} /\ proc'.what = m /\ proc'.run = r
       /\ proc'.content = proc.content
  BY <1>1, <1>2, <1>3 DEF Exporting
<1> HIDE DEF next
<1>11. ProcOK'
  BY <1>2, <1>10 DEF ProcOK, Stage, Still, Registering, Exporting
<1>12. WorkOK' /\ RowsOK'
  <2>1. files'[r].model["onnx"] = files[r].model["onnx"] \/ m = "onnx"
    BY <1>6, ModelStages
  <2> QED
    BY <1>2, <1>4, <1>6, <1>7, <1>10, <2>1 DEF WorkOK, RowsOK, Still
<1>13. ReportsMatch'
  <2>1. ASSUME NEW q \in RunIds, NEW k \in Models, files'[q].report[k] # files'[q].model[k]
        PROVE  <<q, k>> \in shaken'
    <3>1. CASE q = r /\ k = m
      BY <1>3, <3>1
    <3>2. CASE ~(q = r /\ k = m)
      <4>1. files[q].report[k] # files[q].model[k]
        BY <1>6, <2>1, <3>2
      <4> QED
        BY <1>3, <4>1 DEF ExportInv, ReportsMatch
    <3> QED
      BY <3>1, <3>2
  <2> QED
    BY <2>1 DEF ReportsMatch
<1>14. ASSUME NEW s \in Stages, Finished(s)' PROVE Finished(s)
  BY <1>10, <1>14, FinishedNext DEF Still
<1>15. LeftOK'
  <2>1. Finished("export_onnx")' => OnnxLeft(r)'
    BY <1>2, <1>6, <1>14, Places, ModelStages DEF ExportInv, LeftOK, OnnxLeft, Still
  <2>2. Finished("export_trt_fp16")' => EngineLeft(r, "fp16")'
    BY <1>2, <1>6, <1>14, Places, ModelStages DEF ExportInv, LeftOK, EngineLeft, Still
  <2>3. ~Finished("export_trt_int8")' /\ ~Finished("register_artifacts")'
    BY <1>2, <1>14, Places
  <2> QED
    BY <2>1, <2>2, <2>3 DEF LeftOK, Still
<1> QED
  BY <1>8, <1>9, <1>11, <1>12, <1>13, <1>15 DEF ExportInv

\* The report names the file as it is, which ends the stage.
LEMMA WriteReportStep == ExportInv /\ WriteReport /\ Still => ExportInv'
<1> SUFFICES ASSUME ExportInv, WriteReport, Still PROVE ExportInv'
  OBVIOUS
<1> DEFINE r == pipe.run
           m == proc.what
<1>1. proc.pc = "report" /\ proc.pc \in Exporting
  BY DEF WriteReport, Exporting
<1>2. /\ pipe.pc = "stage" /\ pipe.left # <<>> /\ r \in RunIds /\ proc.run = r
      /\ m \in Models /\ Stage = StageOf[m] /\ proc.content \in Contents
      /\ files[r].model[m] \in ModelFiles
      /\ ~Finished("register_artifacts") /\ ~Finished("export_trt_int8")
      /\ m \in {"onnx", "fp16"} => ~Finished("export_trt_fp16")
      /\ m = "onnx" => ~Finished("export_onnx")
  BY <1>1, WhileExporting
<1>3. /\ files' = WithReport(r, m, files[r].model[m])
      /\ shaken' = shaken \ {<<r, m>>} /\ db' = db
      /\ "pc" \in DOMAIN proc' /\ proc'.pc = "exit" /\ proc'.result = "ok"
  BY <1>2 DEF WriteReport, WithReport, Exits
<1>4. FilesOK
  BY DEF ExportInv
<1>5. /\ files' \in [RunIds -> RunFiles] /\ files'[r].report[m] = files[r].model[m]
      /\ \A k \in Models : k # m => files'[r].report[k] = files[r].report[k]
      /\ files'[r].ckpt = files[r].ckpt /\ files'[r].table = files[r].table
      /\ files'[r].model = files[r].model
      /\ \A q \in RunIds : q # r => files'[q] = files[q]
  BY <1>2, <1>3, <1>4, PutReport
<1>6. \A q \in RunIds : /\ files'[q].ckpt = files[q].ckpt /\ files'[q].table = files[q].table
                        /\ files'[q].model = files[q].model
  BY <1>5
<1>7. FilesOK'
  BY <1>4, <1>5, <1>6 DEF FilesOK, Still
<1>8. PipeOK' /\ DbOK'
  BY <1>3 DEF ExportInv, PipeOK, DbOK, Stage, Still
<1>9. ProcOK' /\ WorkOK' /\ RowsOK'
  BY <1>2, <1>3 DEF ProcOK, WorkOK, RowsOK, Stage, Still, Registering, Exporting, Outcomes
<1>10. ReportsMatch'
  <2>1. ASSUME NEW q \in RunIds, NEW k \in Models, files'[q].report[k] # files'[q].model[k]
        PROVE  <<q, k>> \in shaken'
    <3>1. ~(q = r /\ k = m)
      BY <1>5, <2>1
    <3>2. files[q].report[k] # files[q].model[k]
      BY <1>5, <2>1, <3>1
    <3>3. <<q, k>> \in shaken /\ <<q, k>> # <<r, m>>
      BY <3>1, <3>2 DEF ExportInv, ReportsMatch
    <3> QED
      BY <1>3, <3>3
  <2> QED
    BY <2>1 DEF ReportsMatch
<1>11. ASSUME NEW s \in Stages, Finished(s)' PROVE Finished(s) \/ s = StageOf[m]
  BY <1>2, <1>11, FinishedNext DEF Still
<1>12. /\ m = "onnx" => Whole(files[r].ckpt) /\ proc.content = OnnxOf(files[r].ckpt.doc)
       /\ m # "onnx" => Whole(files[r].model["onnx"])
                        /\ proc.content.weights = files[r].model["onnx"].doc.weights
       /\ m = "int8" => Whole(files[r].table) /\ proc.content.table = files[r].table.doc
       /\ files[r].model[m] = Doc(proc.content)
  BY <1>1, <1>2 DEF ExportInv, WorkOK
<1>13. LeftOK'
  <2>1. Finished("export_onnx")' => OnnxLeft(r)'
    BY <1>2, <1>6, <1>11, <1>12, Places, ModelStages DEF ExportInv, LeftOK, OnnxLeft, Still
  <2>2. Finished("export_trt_fp16")' => EngineLeft(r, "fp16")'
    <3>1. ASSUME m = "fp16" PROVE EngineLeft(r, "fp16")
      BY <1>12, <3>1, DocFacts DEF EngineLeft
    <3>2. Finished("export_trt_fp16")' => EngineLeft(r, "fp16")
      BY <1>2, <1>11, <3>1, Places, ModelStages DEF ExportInv, LeftOK
    <3> QED
      BY <1>2, <1>6, <3>2 DEF EngineLeft, Still
  <2>3. Finished("export_trt_int8")' => EngineLeft(r, "int8")' /\ TableLeft(r)'
    <3>1. ASSUME m = "int8" PROVE EngineLeft(r, "int8") /\ TableLeft(r)
      BY <1>12, <3>1, DocFacts DEF EngineLeft, TableLeft
    <3>2. Finished("export_trt_int8")' => EngineLeft(r, "int8") /\ TableLeft(r)
      BY <1>2, <1>11, <3>1, Places, ModelStages
    <3> QED
      BY <1>2, <1>6, <3>2 DEF EngineLeft, TableLeft, Still
  <2>4. ~Finished("register_artifacts")'
    BY <1>2, <1>11, Places, ModelStages
  <2> QED
    BY <2>1, <2>2, <2>3, <2>4 DEF LeftOK, Still
<1> QED
  BY <1>7, <1>8, <1>9, <1>10, <1>13 DEF ExportInv

(***************************************************************************)
(* The registration of the files                                           *)
(***************************************************************************)
Names == Range(Exports) \cup {Summary}

LEMMA Entries ==
  /\ ToRegister \in Seq(Range(ToRegister))
  /\ \A n \in Names : Entry("artifacts", n) \in Range(ToRegister)
  /\ \A e \in Range(ToRegister) :
       /\ e.table \in {"checkpoints", "reports", "artifacts"} /\ e = Entry(e.table, e.name)
       /\ e.table = "artifacts" => e.name \in Names
<1> DEFINE first == <<Entry("checkpoints", Ckpt), Entry("reports", Summary), Entry("artifacts", Summary)>>
           rest == [i \in DOMAIN Exports |-> Entry("artifacts", Exports[i])]
           U == {Entry("checkpoints", Ckpt), Entry("reports", Summary), Entry("artifacts", Summary)}
                  \cup {Entry("artifacts", Exports[i]) : i \in DOMAIN Exports}
<1>1. DOMAIN Exports = 1..7
  BY DEF Exports
<1>2. rest \in Seq(U) /\ Len(rest) = 7
  BY <1>1
<1>3. first \in Seq(U) /\ Len(first) = 3
  OBVIOUS
<1>4. /\ first[1] = Entry("checkpoints", Ckpt) /\ first[2] = Entry("reports", Summary)
      /\ first[3] = Entry("artifacts", Summary)
  OBVIOUS
<1>5. ToRegister = first \o rest
  BY DEF ToRegister
<1>R. \A i \in 1..7 : rest[i] = Entry("artifacts", Exports[i])
  BY <1>1
<1> HIDE DEF first, rest, U
<1>6. /\ ToRegister \in Seq(U) /\ DOMAIN ToRegister = 1..10
      /\ \A i \in 1..3 : ToRegister[i] = first[i]
      /\ \A i \in 1..7 : ToRegister[i + 3] = rest[i]
  <2>1. /\ first \o rest \in Seq(U) /\ Len(first \o rest) = Len(first) + Len(rest)
        /\ \A i \in 1..Len(first) + Len(rest) : (first \o rest)[i] = IF i <= Len(first) THEN first[i] ELSE rest[i - Len(first)]
    BY <1>2, <1>3, ConcatProperties
  <2>2. /\ ToRegister \in Seq(U) /\ Len(ToRegister) = 10
        /\ \A i \in 1..10 : ToRegister[i] = IF i <= 3 THEN first[i] ELSE rest[i - 3]
    <3>1. Len(first) = 3 /\ Len(rest) = 7 /\ 3 + 7 = 10
      BY <1>2, <1>3
    <3>2. /\ Len(first \o rest) = 3 + 7
          /\ \A i \in 1..(3 + 7) : (first \o rest)[i] = IF i <= 3 THEN first[i] ELSE rest[i - 3]
      BY <2>1, <3>1, Zenon
    <3>3. ToRegister \in Seq(U) /\ Len(ToRegister) = 3 + 7
      BY <1>5, <2>1, <3>2, Zenon
    <3>4. \A i \in 1..(3 + 7) : ToRegister[i] = IF i <= 3 THEN first[i] ELSE rest[i - 3]
      BY <1>5, <3>2, Zenon
    <3> QED
      BY <3>3, <3>4
  <2>3. DOMAIN ToRegister = 1..10
    BY <2>2, LenProperties
  <2>4. \A i \in 1..7 : i + 3 \in 1..10 /\ ~(i + 3 <= 3) /\ (i + 3) - 3 = i
    OBVIOUS
  <2>5. \A i \in 1..3 : i \in 1..10 /\ i <= 3
    OBVIOUS
  <2> QED
    BY <2>2, <2>3, <2>4, <2>5
<1>7. ASSUME NEW n \in Names PROVE Entry("artifacts", n) \in Range(ToRegister)
  <2>1. CASE n = Summary
    BY <1>4, <1>6, <2>1 DEF Range
  <2>2. CASE n \in Range(Exports)
    <3>1. PICK i \in 1..7 : n = Exports[i]
      BY <1>1, <2>2 DEF Range
    <3>2. rest[i] = Entry("artifacts", n) /\ i + 3 \in 1..10
      BY <1>R, <3>1
    <3> QED
      BY <1>6, <3>1, <3>2 DEF Range
  <2> QED
    BY <2>1, <2>2 DEF Names
<1>8. ASSUME NEW e \in Range(ToRegister)
      PROVE  /\ e.table \in {"checkpoints", "reports", "artifacts"} /\ e = Entry(e.table, e.name)
             /\ e.table = "artifacts" => e.name \in Names
  <2>1. e \in U
    <3>1. PICK i \in 1..10 : e = ToRegister[i]
      BY <1>6 DEF Range
    <3> QED
      BY <1>6, <3>1, ElementOfSeq, LenProperties
  <2>2. \A t, n : Entry(t, n).table = t /\ Entry(t, n).name = n
    BY DEF Entry
  <2>3. \A i \in DOMAIN Exports : Exports[i] \in Names
    BY DEF Names, Range
  <2>4. Summary \in Names
    BY DEF Names
  <2> QED
    BY <2>1, <2>2, <2>3, <2>4 DEF U
<1>9. ToRegister \in Seq(Range(ToRegister))
  <2>1. ToRegister \in [1..10 -> Range(ToRegister)]
    <3>1. ToRegister \in [1..10 -> U]
      BY <1>6, LenProperties
    <3>2. \A i \in 1..10 : ToRegister[i] \in Range(ToRegister)
      BY <1>6 DEF Range
    <3> QED
      BY <3>1, <3>2
  <2> QED
    BY <2>1, SeqDef
<1> QED
  BY <1>7, <1>8, <1>9

\* The old rows of the run go; the files to be registered are still to come.
LEMMA RegisterArtifactsStep ==
  ExportInv /\ Executes("register_artifacts") /\ RegisterArtifacts(pipe.run) /\ Still => ExportInv'
<1> SUFFICES ASSUME ExportInv, Executes("register_artifacts"), RegisterArtifacts(pipe.run), Still PROVE ExportInv'
  OBVIOUS
<1> DEFINE r == pipe.run
<1>1. pipe.pc = "stage" /\ pipe.left # <<>> /\ Stage = "register_artifacts" /\ proc.pc = "idle"
  BY DEF Executes
<1>2. /\ UNCHANGED <<files, shaken>> /\ DOMAIN db' = DOMAIN db /\ db'.runs = db.runs
      /\ db'.artifacts = {a \in db.artifacts : a.run # r}
      /\ proc' = [pc |-> "art_rows", run |-> r, todo |-> ToRegister]
  BY DEF RegisterArtifacts, ExportInv, DbOK
<1>3. FilesOK' /\ PipeOK' /\ DbOK' /\ ReportsMatch'
  BY <1>2 DEF ExportInv, FilesOK, PipeOK, DbOK, ReportsMatch, Stage, Still
<1>4. ProcOK'
  BY <1>1, <1>2, Entries DEF ProcOK, Registering, Exporting, Stage, Still
<1>5. WorkOK' /\ RowsOK'
  BY <1>2, Entries DEF WorkOK, RowsOK, Exporting, Names, Still
<1>6. ASSUME NEW s \in Stages, Finished(s)' PROVE Finished(s) /\ s # "register_artifacts"
  <2>1. Finished(s)
    BY <1>2, <1>6, FinishedNext DEF Still
  <2>2. ~Finished("register_artifacts")
    BY <1>1, Places, NotYet DEF ExportInv
  <2> QED
    BY <2>1, <2>2
<1>7. LeftOK'
  BY <1>2, <1>6, Places, SameFiles DEF ExportInv, LeftOK, Still
<1> QED
  BY <1>3, <1>4, <1>5, <1>7 DEF ExportInv

LEMMA RegisterArtifactStep == ExportInv /\ RegisterArtifact /\ Still => ExportInv'
<1> SUFFICES ASSUME ExportInv, RegisterArtifact, Still PROVE ExportInv'
  OBVIOUS
<1> DEFINE r == pipe.run
           e == Head(proc.todo)
           file == FileNamed(r, e.name)
           taken == \E a \in db[e.table] : a.run = r /\ a.name = e.name
           row == [run |-> r, name |-> e.name, hash |-> file]
<1>1. /\ proc.pc = "art_rows" /\ proc.todo # <<>> /\ proc.run = r /\ proc.todo \in Seq(Range(ToRegister))
      /\ proc = [pc |-> "art_rows", run |-> r, todo |-> proc.todo]
      /\ pipe.pc = "stage" /\ pipe.left # <<>> /\ Stage = "register_artifacts"
  BY DEF RegisterArtifact, ExportInv, ProcOK
<1>2. /\ e \in Range(ToRegister) /\ Tail(proc.todo) \in Seq(Range(ToRegister))
      /\ \A y \in Range(proc.todo) : y = e \/ y \in Range(Tail(proc.todo))
  <2>1. e \in Range(ToRegister) /\ Tail(proc.todo) \in Seq(Range(ToRegister))
    BY <1>1
  <2>2. ASSUME NEW i \in 1..Len(proc.todo) PROVE proc.todo[i] = e \/ proc.todo[i] \in Range(Tail(proc.todo))
    <3>1. CASE i = 1
      BY <1>1, <3>1
    <3>2. CASE i # 1
      <4>1. i - 1 \in DOMAIN Tail(proc.todo) /\ Tail(proc.todo)[i - 1] = proc.todo[i]
        BY <1>1, <3>2
      <4> QED
        BY <4>1 DEF Range
    <3> QED
      BY <3>1, <3>2
  <2>3. DOMAIN proc.todo = 1..Len(proc.todo)
    BY <1>1
  <2> QED
    BY <2>1, <2>2, <2>3 DEF Range
<1>3. /\ e.table \in {"checkpoints", "reports", "artifacts"} /\ e = Entry(e.table, e.name)
      /\ e.table = "artifacts" => e.name \in Names
  BY <1>2, Entries
<1>4. /\ proc' = [proc EXCEPT !.todo = Tail(@)] /\ UNCHANGED <<files, shaken>>
      /\ db' = IF ~IsFile(file) \/ taken \/ ~Has(db.runs, r) THEN db
               ELSE CASE e.table = "checkpoints" -> [db EXCEPT !.checkpoints = @ \cup {row}]
                      [] e.table = "reports" -> [db EXCEPT !.reports = @ \cup {row}]
                      [] OTHER -> [db EXCEPT !.artifacts = @ \cup {row}]
  BY <1>1 DEF RegisterArtifact
<1>5. proc' = [pc |-> "art_rows", run |-> r, todo |-> Tail(proc.todo)]
  BY <1>1, <1>4
<1> HIDE DEF e
<1>6. /\ DOMAIN db' = DOMAIN db /\ db'.runs = db.runs
      /\ \/ db'.artifacts = db.artifacts /\ (e.table = "artifacts" /\ IsFile(file) /\ Has(db.runs, r) => taken)
         \/ /\ e.table = "artifacts" /\ IsFile(file) /\ db'.artifacts = db.artifacts \cup {row}
  <2>1. CASE ~IsFile(file) \/ taken \/ ~Has(db.runs, r)
    BY <1>4, <2>1
  <2>2. CASE ~(~IsFile(file) \/ taken \/ ~Has(db.runs, r))
    <3>1. CASE e.table = "checkpoints"
      BY <1>4, <2>2, <3>1 DEF ExportInv, DbOK
    <3>2. CASE e.table = "reports"
      BY <1>4, <2>2, <3>2 DEF ExportInv, DbOK
    <3>3. CASE e.table = "artifacts"
      BY <1>4, <2>2, <3>3 DEF ExportInv, DbOK
    <3> QED
      BY <1>3, <3>1, <3>2, <3>3
  <2> QED
    BY <2>1, <2>2
<1>7. FilesOK' /\ PipeOK' /\ DbOK' /\ ReportsMatch'
  BY <1>4, <1>6 DEF ExportInv, FilesOK, PipeOK, DbOK, ReportsMatch, Stage, Still
<1>8. ProcOK' /\ WorkOK'
  BY <1>1, <1>2, <1>5 DEF ProcOK, WorkOK, Registering, Exporting, Stage, Still
<1>9. RowsOK'
  <2>0. \A n : FileNamed(r, n)' = FileNamed(r, n) /\ r' = r
    BY <1>4, SameFiles DEF Still
  <2>1. ASSUME NEW a \in db'.artifacts, a.run = r PROVE RowTrue(r, a)
    <3>1. CASE a \in db.artifacts
      BY <1>1, <2>1, <3>1 DEF ExportInv, RowsOK
    <3>2. CASE a = row /\ e.table = "artifacts" /\ IsFile(file)
      BY <1>3, <3>2 DEF RowTrue, Names
    <3> QED
      BY <1>6, <3>1, <3>2
  <2>2. ASSUME Has(db.runs, r), NEW n \in Names, IsFile(FileNamed(r, n))
        PROVE  \/ Entry("artifacts", n) \in Range(Tail(proc.todo))
               \/ \E a \in db'.artifacts : a.run = r /\ a.name = n
    <3>1. CASE Entry("artifacts", n) = e
      <4>1. e.table = "artifacts" /\ e.name = n
        BY <3>1 DEF Entry
      <4>2. CASE db'.artifacts = db.artifacts
        <5>1. taken \/ row \in db'.artifacts
          BY <1>6, <2>2, <4>1
        <5> QED
          BY <4>1, <4>2, <5>1
      <4>3. CASE db'.artifacts = db.artifacts \cup {row}
        <5>1. row.run = r /\ row.name = n /\ row \in db'.artifacts
          BY <4>1, <4>3
        <5> QED
          BY <5>1
      <4> QED
        BY <1>6, <4>2, <4>3
    <3>2. CASE Entry("artifacts", n) \in Range(proc.todo) /\ Entry("artifacts", n) # e
      BY <1>2, <3>2
    <3>3. CASE \E a \in db.artifacts : a.run = r /\ a.name = n
      BY <1>6, <3>3
    <3>4. \/ Entry("artifacts", n) \in Range(proc.todo)
          \/ \E a \in db.artifacts : a.run = r /\ a.name = n
      BY <1>1, <2>2 DEF ExportInv, RowsOK, Names
    <3> QED
      BY <3>1, <3>2, <3>3, <3>4
  <2>3. \A a \in db'.artifacts : a.run = r => RowTrue(r, a)'
    BY <2>0, <2>1 DEF RowTrue
  <2>4. Has(db.runs, r)' => Has(db.runs, r)
    BY <1>6, <2>0 DEF Has
  <2> QED
    BY <1>5, <2>0, <2>2, <2>3, <2>4 DEF RowsOK, Names
<1>10. ASSUME NEW s \in Stages, Finished(s)' PROVE Finished(s) /\ s # "register_artifacts"
  <2>1. Finished(s)
    BY <1>5, <1>10, FinishedNext DEF Still
  <2>2. ~Finished("register_artifacts")
    BY <1>1, Places, NotYet DEF ExportInv
  <2> QED
    BY <2>1, <2>2
<1>11. LeftOK'
  BY <1>4, <1>10, Places, SameFiles DEF ExportInv, LeftOK, Still
<1> QED
  BY <1>7, <1>8, <1>9, <1>11 DEF ExportInv

LEMMA ArtifactsEndStep == ExportInv /\ ArtifactsEnd /\ Still => ExportInv'
<1> SUFFICES ASSUME ExportInv, ArtifactsEnd, Still PROVE ExportInv'
  OBVIOUS
<1> DEFINE r == pipe.run
<1>1. /\ proc.pc = "art_rows" /\ proc.todo = <<>>
      /\ pipe.pc = "stage" /\ pipe.left # <<>> /\ Stage = "register_artifacts"
      /\ "pc" \in DOMAIN proc' /\ proc'.pc = "exit" /\ proc'.result = "ok"
      /\ UNCHANGED <<db, files, shaken>>
  BY DEF ArtifactsEnd, Exits, ExportInv, ProcOK
<1>2. FilesOK' /\ PipeOK' /\ DbOK' /\ ReportsMatch'
  BY <1>1 DEF ExportInv, FilesOK, PipeOK, DbOK, ReportsMatch, Stage, Still
<1>3. ProcOK' /\ WorkOK' /\ RowsOK'
  BY <1>1 DEF ProcOK, WorkOK, RowsOK, Registering, Exporting, Outcomes, Stage, Still
<1>4. Has(db.runs, r) => ArtifactRowsTrue(r)
  <2>1. ASSUME Has(db.runs, r) PROVE ArtifactRowsTrue(r)
    <3>1. Range(proc.todo) = {}
      BY <1>1 DEF Range
    <3>2. \A a \in db.artifacts : a.run = r => RowTrue(r, a)
      BY <1>1 DEF ExportInv, RowsOK
    <3>3. \A n \in Range(Exports) \cup {Summary} : IsFile(FileNamed(r, n)) =>
            \E a \in db.artifacts : a.run = r /\ a.name = n
      BY <1>1, <2>1, <3>1 DEF ExportInv, RowsOK
    <3> DEFINE rows == {[name |-> a.name, hash |-> a.hash] : a \in {b \in db.artifacts : b.run = r}}
               want == {[name |-> n, hash |-> FileNamed(r, n)] :
                          n \in {x \in Range(Exports) \cup {Summary} : IsFile(FileNamed(r, x))}}
    <3>4. ASSUME NEW a \in db.artifacts, a.run = r PROVE [name |-> a.name, hash |-> a.hash] \in want
      BY <3>2, <3>4 DEF RowTrue
    <3>5. ASSUME NEW n \in Range(Exports) \cup {Summary}, IsFile(FileNamed(r, n))
          PROVE  [name |-> n, hash |-> FileNamed(r, n)] \in rows
      <4>1. PICK a \in db.artifacts : a.run = r /\ a.name = n
        BY <3>3, <3>5
      <4>2. a.hash = FileNamed(r, n)
        BY <3>2, <4>1 DEF RowTrue
      <4> QED
        BY <4>1, <4>2
    <3>6. rows = want
      BY <3>4, <3>5
    <3> QED
      BY <3>6 DEF ArtifactRowsTrue
  <2> QED
    BY <2>1
<1>5. ASSUME NEW s \in Stages, Finished(s)' PROVE Finished(s) \/ s = "register_artifacts"
  BY <1>1, <1>5, FinishedNext DEF Still
<1>6. Has(db.runs, r)' <=> Has(db.runs, r)
  BY <1>1 DEF Has, Still
<1>7. LeftOK'
  BY <1>1, <1>4, <1>5, <1>6, Places, SameFiles, SameRows DEF ExportInv, LeftOK, Still
<1> QED
  BY <1>2, <1>3, <1>7 DEF ExportInv

(***************************************************************************)
(* run_all                                                                 *)
(***************************************************************************)
\* A new attempt has no results; the files of earlier ones are still there.
LEMMA BeginStep == ExportInv /\ Begin => ExportInv'
<1> SUFFICES ASSUME ExportInv, Begin PROVE ExportInv'
  OBVIOUS
<1> DEFINE a == Head(attempts)
<1>1. /\ pipe.pc = "off" /\ attempts # <<>> /\ attempts' = Tail(attempts) /\ att' = att + 1
      /\ pipe' = [pc |-> "stage", run |-> a.run, dataset |-> a.dataset, cache |-> a.cache,
                  replace |-> a.replace, left |-> a.stages, results |-> NoResults]
      /\ UNCHANGED <<db, proc, files, shaken>>
  BY DEF Begin, registryVars, exportVars
<1>2. a \in Attempts /\ Tail(attempts) \in Seq(Attempts)
  BY <1>1 DEF ExportInv, PipeOK
<1>3. a.run \in RunIds /\ a.stages \in Seq(Stages) /\ InOrder(a.stages)
  BY <1>2 DEF Attempts
<1> HIDE DEF a
<1>4. /\ pipe'.pc = "stage" /\ pipe'.run = a.run /\ pipe'.left = a.stages /\ pipe'.results = NoResults
      /\ {"pc", "run", "results", "left"} \subseteq DOMAIN pipe'
  BY <1>1
<1>5. NoResults \in [Stages -> {"none"} \cup Outcomes] /\ \A s \in Stages : NoResults[s] = "none"
  BY DEF NoResults
<1>6. proc.pc = "idle"
  BY <1>1 DEF ExportInv, ProcOK
<1>7. FilesOK'
  <2>1. att' \in Nat /\ files' = files /\ \A n \in Nat : n <= att => n <= att'
    BY <1>1 DEF ExportInv, FilesOK
  <2>2. ASSUME NEW r \in RunIds, Whole(files[r].ckpt) PROVE files[r].ckpt.doc <= att'
    <3>1. files[r].ckpt \in Numbered
      BY DEF ExportInv, FilesOK, RunFiles
    <3> QED
      BY <2>1, <2>2, <3>1, NumberedDoc DEF ExportInv, FilesOK
  <2> QED
    BY <2>1, <2>2 DEF ExportInv, FilesOK
<1>8. PipeOK'
  BY <1>1, <1>2, <1>3, <1>4, <1>5 DEF PipeOK
<1>9. ProcOK' /\ WorkOK' /\ RowsOK'
  BY <1>1, <1>6 DEF ExportInv, ProcOK, WorkOK, RowsOK, Registering, Exporting
<1>10. DbOK' /\ ReportsMatch'
  BY <1>1 DEF ExportInv, DbOK, ReportsMatch
<1>11. \A s \in Stages : ~Finished(s)'
  BY <1>1, <1>4, <1>5, <1>6 DEF Finished
<1>12. LeftOK'
  BY <1>11, Places DEF LeftOK
<1> QED
  BY <1>7, <1>8, <1>9, <1>10, <1>12 DEF ExportInv

\* A step of run_all itself between two commands, or the end of the process.
LEMMA BetweenStages ==
  ASSUME ExportInv, UNCHANGED <<files, shaken, attempts, att>>, DbOK', db'.artifacts = db.artifacts,
         PipeOK', "pc" \in DOMAIN proc', proc'.pc = "idle",
         \/ pipe'.results = NoResults
         \/ /\ pipe'.run = pipe.run /\ \A s \in Stages : pipe'.results[s] = "ok" => Finished(s)
            /\ Has(db.runs, pipe.run)' => Has(db.runs, pipe.run)
  PROVE  ExportInv'
<1>1. FilesOK' /\ ReportsMatch'
  BY DEF ExportInv, FilesOK, ReportsMatch
<1>2. ProcOK' /\ WorkOK' /\ RowsOK'
  BY DEF ProcOK, WorkOK, RowsOK, Registering, Exporting
<1>3. LeftOK'
  <2>1. CASE pipe'.results = NoResults
    <3>1. \A s \in Stages : ~Finished(s)'
      BY <2>1 DEF Finished, NoResults
    <3> QED
      BY <3>1, Places DEF LeftOK
  <2>2. CASE /\ pipe'.run = pipe.run /\ \A s \in Stages : pipe'.results[s] = "ok" => Finished(s)
             /\ Has(db.runs, pipe.run)' => Has(db.runs, pipe.run)
    <3>1. \A s \in Stages : Finished(s)' => Finished(s)
      BY <2>2 DEF Finished
    <3> QED
      BY <2>2, <3>1, Places, SameFiles, SameRows DEF ExportInv, LeftOK
  <2> QED
    BY <2>1, <2>2
<1> QED
  BY <1>1, <1>2, <1>3 DEF ExportInv

LEMMA StageEndsStep == ExportInv /\ StageEnds => ExportInv'
<1> SUFFICES ASSUME ExportInv, StageEnds PROVE ExportInv'
  OBVIOUS
<1> DEFINE next == IF Stage = "build_or_reuse_tile_cache" /\ proc.result = "ok" THEN "set_tile_cache" ELSE "stage"
<1>1. /\ proc.pc = "exit" /\ proc.result \in Outcomes /\ pipe.pc = "stage" /\ pipe.left # <<>>
      /\ UNCHANGED <<db, files, shaken, attempts, att>>
      /\ "pc" \in DOMAIN proc' /\ proc'.pc = "idle"
      /\ pipe' = [pipe EXCEPT !.results[Stage] = proc.result, !.left = Tail(@), !.pc = next]
  BY DEF StageEnds, exportVars, ExportInv, ProcOK
<1>2. /\ pipe.left \in Seq(Stages) /\ InOrder(pipe.left) /\ Stage \in Stages
      /\ pipe.results \in [Stages -> {"none"} \cup Outcomes] /\ pipe.run \in RunIds
      /\ \A s \in Stages : Place[Stage] <= Place[s] => pipe.results[s] = "none"
  BY <1>1 DEF ExportInv, PipeOK, Stage
<1>3. /\ pipe'.results = [pipe.results EXCEPT ![Stage] = proc.result] /\ pipe'.left = Tail(pipe.left)
      /\ pipe'.pc = next /\ pipe'.pc # "off" /\ pipe'.run = pipe.run
      /\ {"pc", "run", "results", "left"} \subseteq DOMAIN pipe'
  BY <1>1 DEF ExportInv, PipeOK
<1> HIDE DEF next
<1>4. /\ pipe'.results \in [Stages -> {"none"} \cup Outcomes]
      /\ pipe'.results[Stage] = proc.result
      /\ \A s \in Stages : s # Stage => pipe'.results[s] = pipe.results[s]
  BY <1>1, <1>2, <1>3
<1>5. /\ pipe'.left \in Seq(Stages) /\ InOrder(pipe'.left)
      /\ pipe'.left # <<>> => Head(pipe'.left) \in Stages /\ Place[Stage] < Place[Head(pipe'.left)]
  <2>1. /\ Tail(pipe.left) \in Seq(Stages) /\ Len(Tail(pipe.left)) = Len(pipe.left) - 1
        /\ \A i \in 1..Len(Tail(pipe.left)) : Tail(pipe.left)[i] = pipe.left[i + 1]
    BY <1>1, <1>2, HeadTailProperties
  <2>2. ASSUME NEW i \in 1..Len(Tail(pipe.left)), NEW j \in 1..Len(Tail(pipe.left)), i < j
        PROVE  Place[Tail(pipe.left)[i]] < Place[Tail(pipe.left)[j]]
    <3>1. i + 1 \in 1..Len(pipe.left) /\ j + 1 \in 1..Len(pipe.left) /\ i + 1 < j + 1
      BY <1>2, <2>1, <2>2
    <3>2. Place[pipe.left[i + 1]] < Place[pipe.left[j + 1]]
      BY <1>2, <3>1 DEF InOrder
    <3> QED
      BY <2>1, <3>2
  <2>3. InOrder(Tail(pipe.left))
    BY <2>1, <2>2 DEF InOrder
  <2>4. ASSUME Tail(pipe.left) # <<>>
        PROVE  Head(Tail(pipe.left)) \in Stages /\ Place[Stage] < Place[Head(Tail(pipe.left))]
    <3>1. Head(Tail(pipe.left)) = pipe.left[2] /\ 2 \in 1..Len(pipe.left) /\ 1 \in 1..Len(pipe.left)
      BY <1>2, <2>1, <2>4
    <3>2. Place[pipe.left[1]] < Place[pipe.left[2]] /\ pipe.left[2] \in Stages
      BY <1>2, <3>1 DEF InOrder
    <3> QED
      BY <1>1, <1>2, <3>1, <3>2 DEF Stage
  <2> QED
    BY <1>3, <2>1, <2>3, <2>4
<1>6. ASSUME pipe'.left # <<>>, NEW s \in Stages, Place[Head(pipe'.left)] <= Place[s]
      PROVE  pipe'.results[s] = "none"
  <2>1. Place[Stage] < Place[s]
    BY <1>2, <1>5, <1>6, Places
  <2>2. s # Stage /\ Place[Stage] <= Place[s]
    BY <1>2, <2>1, Places
  <2> QED
    BY <1>2, <1>4, <2>2
<1>7. PipeOK'
  BY <1>1, <1>2, <1>3, <1>4, <1>5, <1>6 DEF ExportInv, PipeOK, Stage
<1>8. \A s \in Stages : pipe'.results[s] = "ok" => Finished(s)
  BY <1>1, <1>4 DEF Finished
<1>9. DbOK' /\ (Has(db.runs, pipe.run)' => Has(db.runs, pipe.run))
  BY <1>1, <1>3 DEF ExportInv, DbOK, Has
<1> QED
  BY <1>1, <1>3, <1>7, <1>8, <1>9, BetweenStages

LEMMA TrackCacheStep == ExportInv /\ TrackCache => ExportInv'
<1> SUFFICES ASSUME ExportInv, TrackCache PROVE ExportInv'
  OBVIOUS
<1>1. /\ pipe.pc \in {"set_tile_cache", "register_tile_cache"}
      /\ UNCHANGED <<proc, files, shaken, attempts, att>>
      /\ \/ pipe' = [pipe EXCEPT !.pc = "register_tile_cache"]
         \/ pipe' = [pipe EXCEPT !.pc = "stage"]
      /\ \/ db' = UpdateRun(pipe.run, [cache |-> pipe.cache])
         \/ db' = WithTileCache(pipe.cache, pipe.dataset, att)
  BY DEF TrackCache, exportVars
<1>2. /\ pipe'.pc \in {"register_tile_cache", "stage"} /\ pipe'.run = pipe.run
      /\ pipe'.left = pipe.left /\ pipe'.results = pipe.results
      /\ DOMAIN pipe' = DOMAIN pipe
  BY <1>1 DEF ExportInv, PipeOK
<1>3. proc.pc = "idle"
  BY <1>1 DEF ExportInv, ProcOK
<1>4. PipeOK'
  BY <1>1, <1>2 DEF ExportInv, PipeOK, Stage
<1>5. DbOK' /\ db'.artifacts = db.artifacts /\ (Has(db.runs, pipe.run)' => Has(db.runs, pipe.run))
  <2>1. CASE db' = UpdateRun(pipe.run, [cache |-> pipe.cache])
    BY <1>2, <2>1 DEF UpdateRun, ExportInv, DbOK, Has
  <2>2. CASE db' = WithTileCache(pipe.cache, pipe.dataset, att)
    <3>1. DOMAIN db' = DOMAIN db /\ db'.runs = db.runs /\ db'.artifacts = db.artifacts
      BY <2>2 DEF WithTileCache, ExportInv, DbOK
    <3> QED
      BY <1>2, <3>1 DEF ExportInv, DbOK, Has
  <2> QED
    BY <1>1, <2>1, <2>2
<1>6. "pc" \in DOMAIN proc' /\ proc'.pc = "idle"
  BY <1>1, <1>3 DEF ExportInv, ProcOK
<1>7. \A s \in Stages : pipe'.results[s] = "ok" => Finished(s)
  BY <1>2 DEF Finished
<1> QED
  BY <1>1, <1>2, <1>4, <1>5, <1>6, <1>7, BetweenStages

LEMMA PipeEndsStep == ExportInv /\ (PipeEnds \/ PipeDies) => ExportInv'
<1>1. ASSUME ExportInv, PipeEnds PROVE ExportInv'
  <2>1. /\ pipe.pc = "stage" /\ proc.pc = "idle"
        /\ UNCHANGED <<db, proc, files, shaken, attempts, att>>
        /\ pipe' = [pc |-> "off", run |-> pipe.run, results |-> pipe.results]
    BY <1>1 DEF PipeEnds, registryVars, exportVars
  <2>2. PipeOK'
    BY <1>1, <2>1 DEF ExportInv, PipeOK
  <2>3. DbOK' /\ (Has(db.runs, pipe.run)' => Has(db.runs, pipe.run))
    BY <1>1, <2>1 DEF ExportInv, DbOK, Has
  <2>4. \A s \in Stages : pipe'.results[s] = "ok" => Finished(s)
    BY <2>1 DEF Finished
  <2>5. "pc" \in DOMAIN proc' /\ proc'.pc = "idle"
    BY <1>1, <2>1 DEF ExportInv, ProcOK
  <2> QED
    BY <1>1, <2>1, <2>2, <2>3, <2>4, <2>5, BetweenStages
<1>2. ASSUME ExportInv, PipeDies PROVE ExportInv'
  <2>1. /\ UNCHANGED <<db, files, shaken, attempts, att>>
        /\ pipe' = [pc |-> "off", run |-> Null, results |-> NoResults]
        /\ "pc" \in DOMAIN proc' /\ proc'.pc = "idle"
    BY <1>2 DEF PipeDies, exportVars
  <2>2. PipeOK'
    BY <1>2, <2>1 DEF ExportInv, PipeOK, NoResults
  <2>3. DbOK'
    BY <1>2, <2>1 DEF ExportInv, DbOK
  <2> QED
    BY <1>2, <2>1, <2>2, <2>3, BetweenStages
<1> QED
  BY <1>1, <1>2

\* A command that raises has done only part of its work.
LEMMA StageFailsStep == ExportInv /\ StageFails => ExportInv'
<1> SUFFICES ASSUME ExportInv, StageFails PROVE ExportInv'
  OBVIOUS
<1>1. /\ proc.pc \notin {"idle", "exit"} /\ UNCHANGED <<db, files, shaken, pipe, attempts, att>>
      /\ "pc" \in DOMAIN proc' /\ proc'.pc = "exit" /\ proc'.result = "failed"
  BY DEF StageFails, Exits, exportVars, pipeVars
<1>2. FilesOK' /\ PipeOK' /\ DbOK' /\ ReportsMatch'
  BY <1>1 DEF ExportInv, FilesOK, PipeOK, DbOK, ReportsMatch, Stage
<1>3. ProcOK' /\ WorkOK' /\ RowsOK'
  BY <1>1 DEF ExportInv, ProcOK, WorkOK, RowsOK, Registering, Exporting, Outcomes, Stage
<1>4. \A s \in Stages : Finished(s)' => Finished(s)
  BY <1>1, FinishedNext
<1>5. Has(db.runs, pipe.run)' <=> Has(db.runs, pipe.run)
  BY <1>1 DEF Has
<1>6. LeftOK'
  BY <1>1, <1>4, <1>5, Places, SameFiles, SameRows DEF ExportInv, LeftOK
<1> QED
  BY <1>2, <1>3, <1>6 DEF ExportInv

\* Imports and gc touch neither the files of a run nor the records.
LEMMA OtherStep ==
  ASSUME ExportInv, UNCHANGED <<db, proc, files, shaken, pipe, attempts, att>>
  PROVE  ExportInv'
<1>1. FilesOK' /\ PipeOK' /\ DbOK' /\ ReportsMatch'
  BY DEF ExportInv, FilesOK, PipeOK, DbOK, ReportsMatch, Stage
<1>2. ProcOK' /\ WorkOK'
  BY DEF ExportInv, ProcOK, WorkOK, Stage
<1>3. RowsOK'
  <2>1. \A n : FileNamed(pipe.run, n)' = FileNamed(pipe.run, n)
    BY DEF FileNamed
  <2>2. \A a : RowTrue(pipe.run, a)' <=> RowTrue(pipe.run, a)
    BY <2>1 DEF RowTrue
  <2> QED
    BY <2>1, <2>2 DEF ExportInv, RowsOK, Has
<1>4. LeftOK'
  BY SameFiles, SameRows DEF ExportInv, LeftOK, Finished, Stage, Has
<1> QED
  BY <1>1, <1>2, <1>3, <1>4 DEF ExportInv

LEMMA Initially == Init => ExportInv
<1> SUFFICES ASSUME Init PROVE ExportInv
  OBVIOUS
<1>1. /\ att = 0 /\ pipe = PipeOff /\ db = EmptyDb /\ proc = [pc |-> "idle", result |-> "none"]
      /\ attempts \in Seq(Attempts) /\ files = [r \in RunIds |-> NoFiles] /\ shaken = {}
  BY ScenariosAssumption DEF Init, InitRegistry, InitExport
<1>2. NoFiles \in RunFiles
  BY DEF NoFiles, RunFiles, Numbered, ModelFiles
<1>3. /\ ~Whole(NoFiles.ckpt) /\ ~Whole(NoFiles.table) /\ ~Whole(NoFiles.model["onnx"])
      /\ \A m \in Models : NoFiles.report[m] = NoFiles.model[m]
  BY ModelStages DEF NoFiles, Whole, Missing
<1>4. FilesOK /\ ReportsMatch
  BY <1>1, <1>2, <1>3 DEF FilesOK, ReportsMatch
<1>5. PipeOK
  BY <1>1 DEF PipeOK, PipeOff, NoResults
<1>6. ProcOK /\ WorkOK /\ RowsOK
  BY <1>1 DEF ProcOK, WorkOK, RowsOK, Registering, Exporting
<1>7. \A s \in Stages : ~Finished(s)
  BY <1>1 DEF Finished, PipeOff, NoResults
<1>8. LeftOK /\ DbOK
  BY <1>1, <1>7, Places DEF LeftOK, DbOK, EmptyDb
<1> QED
  BY <1>4, <1>5, <1>6, <1>8 DEF ExportInv

LEMMA ExportInvariant == Spec => []ExportInv
<1>1. ExportInv /\ [Next]_vars => ExportInv'
  <2> SUFFICES ASSUME ExportInv, [Next]_vars PROVE ExportInv'
    OBVIOUS
  <2>1. CASE RegistryStage
    BY <2>1, RegistryStep
  <2>2. CASE CacheStage
    <3>1. /\ Executes("build_or_reuse_tile_cache") /\ Exits("ok")
          /\ UNCHANGED <<db, files, shaken, pipe, attempts, att>>
      BY <2>2 DEF CacheStage, BuildCache, exportVars, pipeVars
    <3>2. /\ pipe.pc = "stage" /\ pipe.left # <<>> /\ Stage = "build_or_reuse_tile_cache"
          /\ "pc" \in DOMAIN proc' /\ proc'.pc = "exit" /\ proc'.result \in Outcomes
      BY <3>1 DEF Executes, Exits, Outcomes
    <3>3. DbOK' /\ (Has(db.runs, pipe.run)' => Has(db.runs, pipe.run))
      BY <3>1 DEF ExportInv, DbOK, Has
    <3> QED
      BY <3>1, <3>2, <3>3, QuietStep DEF Still
  <2>3. CASE ExportStage
    <3>1. Still
      BY <2>3 DEF ExportStage, pipeVars, Still
    <3> QED
      BY <2>3, <3>1, TrainStep, EvaluateStep, StartStep, CalibrateStep, WriteModelStep, WriteReportStep,
         RegisterArtifactsStep, RegisterArtifactStep, ArtifactsEndStep DEF ExportStage, ExportSteps, ArtifactSteps
  <2>4. CASE Begin \/ StageEnds \/ TrackCache \/ PipeEnds \/ PipeDies \/ StageFails
    BY <2>4, BeginStep, StageEndsStep, TrackCacheStep, PipeEndsStep, StageFailsStep
  <2>5. CASE Import \/ Collect \/ Sweep \/ UNCHANGED vars
    <3>1. UNCHANGED <<db, proc, files, shaken, pipe, attempts, att>>
      BY <2>5 DEF Import, Collect, Sweep, vars, registryVars, exportVars, pipeVars
    <3> QED
      BY <3>1, OtherStep
  <2> QED
    BY <2>1, <2>2, <2>3, <2>4, <2>5 DEF Next, Pipeline
<1> QED
  BY <1>1, Initially, PTL DEF Spec

\* The report of a model never names another file than the one beside it unless
\* the export was cut off; once all stages from the export on have succeeded,
\* the model and both engines carry the weights of the checkpoint; once the
\* registration has succeeded, the rows of the run are its files, each with its
\* hash (export.py:174-193, 269-312, 423-426; register_artifacts.py:49-110).
THEOREM ExportSoundHolds == Spec => []ExportSound
<1>1. ExportInv => ExportSound
  <2> SUFFICES ASSUME ExportInv PROVE ExportSound
    OBVIOUS
  <2>1. ASSUME NEW s \in Stages, Done(s) PROVE Finished(s)
    BY <2>1 DEF Done, Finished
  <2>2. ASSUME Done("export_onnx"), Done("export_trt_fp16"), Done("export_trt_int8")
        PROVE  ExportedWhole(pipe.run)
    <3>1. /\ OnnxLeft(pipe.run) /\ EngineLeft(pipe.run, "fp16")
          /\ EngineLeft(pipe.run, "int8") /\ TableLeft(pipe.run)
      BY <2>1, <2>2, Places DEF ExportInv, LeftOK
    <3>2. pipe.run \in RunIds
      BY <2>2, Places DEF ExportInv, PipeOK, Done, NoResults
    <3>3. Whole(files[pipe.run].table) => files[pipe.run].table.doc <= files[pipe.run].ckpt.doc
      BY <3>2 DEF ExportInv, FilesOK
    <3>4. ASSUME NEW m \in Models
          PROVE  /\ Whole(files[pipe.run].model[m])
                 /\ files[pipe.run].model[m].doc.weights = files[pipe.run].ckpt.doc
      BY <3>1, ModelStages, DocFacts DEF OnnxLeft, EngineLeft, OnnxOf
    <3> QED
      BY <3>1, <3>3, <3>4 DEF ExportedWhole, TableLeft
  <2>3. Done("register_artifacts") /\ Has(db.runs, pipe.run) => ArtifactRowsTrue(pipe.run)
    BY <2>1, Places DEF ExportInv, LeftOK
  <2> QED
    BY <2>2, <2>3 DEF ExportSound, ExportInv
<1> QED
  BY ExportInvariant, <1>1, PTL

(***************************************************************************)
(* Retention: the inductive invariant                                      *)
(***************************************************************************)
\* The rows of runs: one for each id, none made by an attempt still to come; a
\* row that the attempt going on has made is that of its run, and the cache in
\* it, if any, is the one of this attempt.
Rows(rows) ==
  /\ \A r \in rows : r.id \in Nat /\ r.started \in Nat /\ r.started <= att
  /\ \A r, q \in rows : r.id = q.id => r = q
  /\ pipe.pc # "off" =>
       \A r \in rows : r.started = att => r.id = pipe.run /\ r.cache \in {Null, pipe.cache}

\* The rows of tile caches: the one the attempt going on has written is its own.
CacheRows(rows) ==
  \A c \in rows :
    /\ c.created \in Nat /\ c.created <= att
    /\ pipe.pc # "off" /\ c.created = att => c.id = pipe.cache

RowFields == \A r \in db.runs : {"id", "started", "cache"} \subseteq DOMAIN r

\* Where the pipeline and its subprocess may be.
PipeInv ==
  /\ att \in Nat /\ attempts \in Seq(Attempts)
  /\ {"pc", "run"} \subseteq DOMAIN pipe /\ (pipe.pc # "off" => pipe.run \in Nat)
  /\ pipe.pc # "off" => "cache" \in DOMAIN pipe /\ pipe.cache \in Nat
  /\ "pc" \in DOMAIN proc /\ {"runs", "caches"} \subseteq DOMAIN db
  /\ proc.pc = "create_insert" => pipe.pc = "stage" /\ ~Has(db.runs, pipe.run)
  /\ pipe.pc = "off" => proc.pc = "idle"

PassInv ==
  /\ gc.pc \in {"idle", "caches", "staging", "apply"}
  /\ gc.pc # "idle" => Rows(gc.runs)
  /\ gc.pc \in {"staging", "apply"} => CacheRows(gc.caches)
  /\ gc.pc = "apply" => {"pc", "runs", "caches", "plan"} \subseteq DOMAIN gc

\* What a plan keeps of the run going on: the directory, and the cache, of a row
\* that this attempt has made; and a row of a cache that this attempt has written.
PlanSeen ==
  gc.pc = "apply" => \A r \in gc.runs : Running(r) =>
    ~Doomed("run", r.id) /\ (r.cache # Null => ~Doomed("tile_cache", r.cache))
PlanCaches ==
  gc.pc = "apply" => \A id : Doomed("tile_cache", id) =>
    \E c \in gc.caches : c.id = id /\ (pipe.pc # "off" => KeepCaches = 0 \/ c.created < att)

PlanSafety == PlanConsistent /\ PlanSeen /\ PlanCaches

RetentionInv ==
  Rows(db.runs) /\ CacheRows(db.caches) /\ RowFields /\ PipeInv /\ PassInv /\ PlanSafety

(***************************************************************************)
(* Facts about a plan, whatever the rows                                   *)
(***************************************************************************)
\* An item of a plan is of the list its kind names.
LEMMA PlanItems ==
  ASSUME NEW runs, NEW caches, NEW old, NEW now, NEW i
  PROVE  /\ [kind |-> "run", id |-> i] \in PlanRetention(runs, caches, old, now) <=> i \in DoomedRuns(runs, now)
         /\ [kind |-> "tile_cache", id |-> i] \in PlanRetention(runs, caches, old, now)
              <=> i \in DoomedCaches(runs, caches, now)
<1>1. ASSUME NEW k, NEW k2, NEW S
      PROVE  [kind |-> k, id |-> i] \in Items(k2, S) <=> k = k2 /\ i \in S
  BY DEF Items
<1>2. "run" # "tile_cache" /\ "run" # "staging" /\ "tile_cache" # "staging"
  OBVIOUS
<1> QED
  BY <1>1, <1>2, Zenon DEF PlanRetention

\* The tile cache of a run that a plan keeps is not in that plan.
LEMMA KeptCaches ==
  ASSUME NEW runs, NEW caches, NEW now, NEW r \in KeptRuns(runs, now), r.cache # Null
  PROVE  r.cache \notin DoomedCaches(runs, caches, now)
<1>1. r.cache \in ReferencedCaches(runs, now)
  BY DEF ReferencedCaches
<1> QED
  BY <1>1 DEF DoomedCaches

\* The newest of the rows is kept.
LEMMA NewestKept ==
  ASSUME NEW runs, NEW now, NEW r \in runs, \A q \in runs : ~Newer(q, r)
  PROVE  r \in KeptRuns(runs, now)
<1>1. {q \in runs : Newer(q, r)} = {}
  OBVIOUS
<1>2. Cardinality({q \in runs : Newer(q, r)}) = 0
  BY <1>1, FS_EmptySet
<1>3. 0 < KeepLast
  BY PolicyAssumption
<1> QED
  BY <1>2, <1>3 DEF KeptRuns, Recent

\* A row that the attempt going on has made is the newest of any set of rows.
LEMMA RunningNewest ==
  ASSUME NEW runs, Rows(runs), att \in Nat, NEW r \in runs, Running(r)
  PROVE  \A q \in runs : ~Newer(q, r)
<1> SUFFICES ASSUME NEW q \in runs, Newer(q, r) PROVE FALSE
  OBVIOUS
<1>1. q.started = att /\ q.id < r.id
  BY DEF Newer, ListedBefore, Rows, Running
<1>2. q.id = r.id
  BY <1>1 DEF Rows, Running
<1> QED
  BY <1>1, <1>2 DEF Rows

\* Every plan made from such rows keeps what the running attempt uses.
LEMMA PlanSafe ==
  ASSUME NEW runs, NEW caches, NEW old, NEW now, NEW plan,
         plan = PlanRetention(runs, caches, old, now), att \in Nat, Rows(runs)
  PROVE  /\ \A r \in runs : r.path /\ r.cache # Null /\ [kind |-> "run", id |-> r.id] \notin plan
               => [kind |-> "tile_cache", id |-> r.cache] \notin plan
         /\ \A r \in runs : Running(r) => /\ [kind |-> "run", id |-> r.id] \notin plan
                                          /\ r.cache # Null => [kind |-> "tile_cache", id |-> r.cache] \notin plan
<1>1. ASSUME NEW r \in runs, r.path, r.cache # Null, [kind |-> "run", id |-> r.id] \notin plan
      PROVE  [kind |-> "tile_cache", id |-> r.cache] \notin plan
  <2>1. r.id \notin DoomedRuns(runs, now)
    BY <1>1, PlanItems
  <2>2. r \in KeptRuns(runs, now)
    BY <2>1, <1>1 DEF DoomedRuns
  <2>3. r.cache \notin DoomedCaches(runs, caches, now)
    BY <2>2, <1>1, KeptCaches
  <2> QED
    BY <2>3, PlanItems
<1>2. ASSUME NEW r \in runs, Running(r)
      PROVE  /\ [kind |-> "run", id |-> r.id] \notin plan
             /\ r.cache # Null => [kind |-> "tile_cache", id |-> r.cache] \notin plan
  <2>1. r \in KeptRuns(runs, now)
    BY <1>2, NewestKept, RunningNewest
  <2>2. r.id \notin DoomedRuns(runs, now)
    BY <2>1 DEF DoomedRuns, Rows
  <2>3. r.cache # Null => r.cache \notin DoomedCaches(runs, caches, now)
    BY <2>1, KeptCaches
  <2> QED
    BY <2>2, <2>3, PlanItems
<1> QED
  BY <1>1, <1>2

\* A cache that is in a plan is one of the rows; the row that the attempt going
\* on has written is the newest, so it is spared unless no spare caches are kept.
LEMMA PlanSparesNew ==
  ASSUME NEW runs, NEW caches, NEW old, NEW now, NEW plan,
         plan = PlanRetention(runs, caches, old, now), CacheRows(caches), PipeInv,
         NEW i, [kind |-> "tile_cache", id |-> i] \in plan
  PROVE  \E c \in caches : c.id = i /\ (pipe.pc # "off" => KeepCaches = 0 \/ c.created < att)
<1>1. PICK c \in caches \ SpareCaches(runs, caches, now) :
        c.id = i /\ c.id \notin ReferencedCaches(runs, now)
  <2>1. i \in DoomedCaches(runs, caches, now)
    BY PlanItems
  <2> QED
    BY <2>1 DEF DoomedCaches
<1>2. ASSUME pipe.pc # "off", KeepCaches # 0, ~(c.created < att) PROVE FALSE
  <2> DEFINE others == {d \in caches : d.id \notin ReferencedCaches(runs, now)}
             newer == {d \in others : d.dataset = c.dataset /\
                         (d.created > c.created \/ (d.created = c.created /\ d.id < c.id))}
  <2>1. c.created = att /\ c.id = pipe.cache /\ pipe.cache \in Nat
    BY <1>2 DEF CacheRows, PipeInv
  <2>2. newer = {}
    <3> SUFFICES ASSUME NEW d \in caches, d.created > c.created \/ (d.created = c.created /\ d.id < c.id)
                 PROVE  FALSE
      OBVIOUS
    <3>1. d.created \in Nat /\ d.created <= att /\ (d.created = att => d.id = pipe.cache)
      BY <1>2 DEF CacheRows
    <3> QED
      BY <2>1, <3>1 DEF PipeInv
  <2>3. Cardinality(newer) = 0
    BY <2>2, FS_EmptySet
  <2>4. 0 < KeepCaches
    BY <1>2, PolicyAssumption
  <2>5. c \in SpareCaches(runs, caches, now)
    BY <1>1, <2>3, <2>4 DEF SpareCaches
  <2> QED
    BY <1>1, <2>5
<1> QED
  BY <1>1, <1>2

\* A row of db.runs keeps its id, its start and its fields when others change.
LEMMA UpdateKeepsRows ==
  ASSUME RetentionInv, NEW r, NEW change, "id" \notin DOMAIN change, "started" \notin DOMAIN change,
         "cache" \notin DOMAIN change, db' = UpdateRun(r, change), UNCHANGED <<att, pipe>>
  PROVE  /\ Rows(db.runs)' /\ CacheRows(db.caches)' /\ RowFields' /\ DOMAIN db' = DOMAIN db /\ db'.caches = db.caches
         /\ \A q \in db'.runs : \E p \in db.runs : q.id = p.id
<1> DEFINE upd(row) == IF row.id = r
                       THEN [f \in DOMAIN row |-> IF f \in DOMAIN change THEN change[f] ELSE row[f]]
                       ELSE row
<1>1. /\ db'.runs = {upd(row) : row \in db.runs}
      /\ DOMAIN db' = DOMAIN db /\ db'.caches = db.caches
  BY DEF UpdateRun, RetentionInv, PipeInv
<1>2. ASSUME NEW row \in db.runs
      PROVE  /\ upd(row).id = row.id /\ upd(row).started = row.started /\ upd(row).cache = row.cache
             /\ {"id", "started", "cache"} \subseteq DOMAIN upd(row)
  BY DEF RetentionInv, RowFields
<1> HIDE DEF upd
<1>3. Rows(db.runs)' /\ CacheRows(db.caches)'
  BY <1>1, <1>2 DEF RetentionInv, Rows, CacheRows
<1>4. RowFields'
  BY <1>1, <1>2 DEF RowFields
<1> QED
  BY <1>1, <1>2, <1>3, <1>4

\* A step of the subprocess that leaves the runs, the pipeline and gc alone.
LEMMA RunsAlone ==
  ASSUME RetentionInv, UNCHANGED <<attempts, att, pipe, gc>>,
         db'.runs = db.runs, db'.caches = db.caches, DOMAIN db' = DOMAIN db, "pc" \in DOMAIN proc',
         proc'.pc # "create_insert", pipe.pc # "off"
  PROVE  RetentionInv'
<1>1. Rows(db.runs)' /\ CacheRows(db.caches)' /\ RowFields'
  BY DEF RetentionInv, Rows, CacheRows, RowFields
<1>2. PipeInv'
  BY DEF RetentionInv, PipeInv
<1>3. PassInv'
  BY DEF RetentionInv, PassInv, Rows, CacheRows
<1>4. PlanSafety'
  BY DEF RetentionInv, PlanSafety, PlanConsistent, PlanSeen, PlanCaches, Running, Doomed
<1> QED
  BY <1>1, <1>2, <1>3, <1>4 DEF RetentionInv

\* The commands that write the registry.
LEMMA RegistryKeepsRuns == RetentionInv /\ RegistryStage => RetentionInv'
<1> SUFFICES ASSUME RetentionInv, RegistryStage PROVE RetentionInv'
  OBVIOUS
<1>0. UNCHANGED <<attempts, att, pipe, gc>>
  BY DEF RegistryStage, pipeVars, retentionVars
<1>1. CASE Executes("create_pipeline_run") /\ CreateDelete(pipe.run)
  <2>1. pipe.pc = "stage"
    BY <1>1 DEF Executes
  <2>2. CASE Has(db.runs, pipe.run) /\ RunReferenced(pipe.run)
    <3>1. db' = db /\ "pc" \in DOMAIN proc' /\ proc'.pc = "exit"
      BY <1>1, <2>2 DEF CreateDelete, Exits
    <3> QED
      BY <1>0, <2>1, <3>1, RunsAlone DEF RetentionInv, PipeInv
  <2>3. CASE ~(Has(db.runs, pipe.run) /\ RunReferenced(pipe.run))
    <3>1. /\ db'.runs = {row \in db.runs : row.id # pipe.run} /\ DOMAIN db' = DOMAIN db /\ db'.caches = db.caches
          /\ proc' = [pc |-> "create_insert", result |-> "none"]
      BY <1>1, <2>3 DEF CreateDelete, RetentionInv, PipeInv
    <3>2. Rows(db.runs)' /\ CacheRows(db.caches)' /\ RowFields'
      BY <3>1, <1>0 DEF RetentionInv, Rows, CacheRows, RowFields
    <3>3. PipeInv'
      BY <3>1, <1>0, <2>1 DEF RetentionInv, PipeInv, Has
    <3>4. PassInv' /\ PlanSafety'
      BY <1>0 DEF RetentionInv, PassInv, Rows, CacheRows, PlanSafety, PlanConsistent, PlanSeen, PlanCaches, Running, Doomed
    <3> QED
      BY <3>2, <3>3, <3>4 DEF RetentionInv
  <2> QED
    BY <2>2, <2>3
<1>2. CASE Executes("validate_raw_dataset") /\ ValidateRaw
  BY <1>0, <1>2, RunsAlone DEF Executes, ValidateRaw, Exits, RetentionInv, PipeInv
<1>3. CASE Executes("register_dataset") /\ RegisterHash(pipe.dataset, pipe.replace)
  BY <1>0, <1>3, RunsAlone DEF Executes, RegisterHash, Exits, RetentionInv, PipeInv
<1>4. CASE Executes("update_pipeline_run_status") /\ CloseRun(pipe.run)
  <2>1. /\ db' = UpdateRun(pipe.run, [status |-> "success"])
        /\ "pc" \in DOMAIN proc' /\ proc'.pc = "exit" /\ pipe.pc = "stage"
    BY <1>4 DEF CloseRun, Executes, Exits
  <2>2. Rows(db.runs)' /\ CacheRows(db.caches)' /\ RowFields' /\ DOMAIN db' = DOMAIN db /\ db'.caches = db.caches
    BY <1>0, <2>1, UpdateKeepsRows
  <2>3. PipeInv'
    BY <1>0, <2>1, <2>2 DEF RetentionInv, PipeInv
  <2>4. PassInv' /\ PlanSafety'
    BY <1>0 DEF RetentionInv, PassInv, Rows, CacheRows, PlanSafety, PlanConsistent, PlanSeen, PlanCaches, Running, Doomed
  <2> QED
    BY <2>2, <2>3, <2>4 DEF RetentionInv
<1>5. CASE CreateInsert(pipe.run, pipe.dataset, att)
  <2>1. proc.pc = "create_insert" /\ pipe.pc = "stage" /\ ~Has(db.runs, pipe.run) /\ pipe.run \in Nat
    BY <1>5 DEF CreateInsert, RetentionInv, PipeInv
  <2>2. PICK d : /\ db'.runs = db.runs \cup {[id |-> pipe.run, dataset |-> d, started |-> att,
                                              status |-> "running", cache |-> Null]}
                 /\ DOMAIN db' = DOMAIN db /\ db'.caches = db.caches /\ "pc" \in DOMAIN proc' /\ proc'.pc = "exit"
    BY <1>5 DEF CreateInsert, Exits, RetentionInv, PipeInv
  <2>3. Rows(db.runs)' /\ CacheRows(db.caches)'
    BY <1>0, <2>1, <2>2 DEF RetentionInv, Rows, CacheRows, PipeInv, Has
  <2>4. RowFields'
    BY <2>2 DEF RetentionInv, RowFields
  <2>5. PipeInv'
    BY <1>0, <2>1, <2>2 DEF RetentionInv, PipeInv
  <2>6. PassInv' /\ PlanSafety'
    BY <1>0 DEF RetentionInv, PassInv, Rows, CacheRows, PlanSafety, PlanConsistent, PlanSeen, PlanCaches, Running, Doomed
  <2> QED
    BY <2>3, <2>4, <2>5, <2>6 DEF RetentionInv
<1>6. CASE RegisterSteps
  <2>1. /\ proc.pc \in {"reg_open", "reg_upsert", "reg_rows"}
        /\ db'.runs = db.runs /\ DOMAIN db' = DOMAIN db /\ db'.caches = db.caches
        /\ "pc" \in DOMAIN proc' /\ proc'.pc # "create_insert"
    <3>1. CASE RegisterOpen
      <4>1. /\ proc.pc = "reg_open"
            /\ Exits("failed") \/ proc' = [proc EXCEPT !.pc = "reg_upsert"]
            /\ db' = db \/ db' = DropDatasetRows(proc.dataset)
        BY <3>1 DEF RegisterOpen
      <4>2. db'.runs = db.runs /\ DOMAIN db' = DOMAIN db /\ db'.caches = db.caches
        BY <4>1 DEF DropDatasetRows, RetentionInv, PipeInv
      <4>3. ASSUME Exits("failed") PROVE "pc" \in DOMAIN proc' /\ proc'.pc = "exit"
        BY <4>3 DEF Exits
      <4>4. ASSUME proc' = [proc EXCEPT !.pc = "reg_upsert"]
            PROVE  "pc" \in DOMAIN proc' /\ proc'.pc = "reg_upsert"
        BY <4>4 DEF RetentionInv, PipeInv
      <4> QED
        BY <4>1, <4>2, <4>3, <4>4
    <3>2. CASE RegisterUpsert
      <4>1. CASE Exits("failed") /\ db' = db
        BY <3>2, <4>1 DEF RegisterUpsert, Exits
      <4>2. CASE /\ db' = [db EXCEPT !.datasets = Upsert(@, [id |-> proc.dataset, hash |-> proc.hash])]
                 /\ proc' = [pc |-> "reg_rows", dataset |-> proc.dataset, left |-> SPLITS, rows |-> <<>>]
        BY <3>2, <4>2 DEF RegisterUpsert, RetentionInv, PipeInv
      <4> QED
        BY <3>2, <4>1, <4>2 DEF RegisterUpsert
    <3>3. CASE RegisterSplit
      <4>1. /\ proc.pc = "reg_rows" /\ db' = db
            /\ \E f : Exits(f) \/ \E d, l, r : proc' = [pc |-> "reg_rows", dataset |-> d, left |-> l, rows |-> r]
        BY <3>3, Zenon DEF RegisterSplit
      <4>2. "pc" \in DOMAIN proc' /\ proc'.pc \in {"exit", "reg_rows"}
        BY <4>1 DEF Exits
      <4> QED
        BY <4>1, <4>2 DEF RetentionInv, PipeInv
    <3>4. CASE RegisterRow
      <4>1. /\ proc.pc = "reg_rows"
            /\ Exits("failed") \/ proc' = [proc EXCEPT !.rows = Tail(@)]
            /\ \/ db' = db
               \/ \E row : \/ db' = [db EXCEPT !.images = @ \cup {row}]
                           \/ db' = [db EXCEPT !.anns = @ \cup {row}]
        BY <3>4, Zenon DEF RegisterRow
      <4>2. db'.runs = db.runs /\ DOMAIN db' = DOMAIN db /\ db'.caches = db.caches
        BY <4>1 DEF RetentionInv, PipeInv
      <4>3. ASSUME Exits("failed") PROVE "pc" \in DOMAIN proc' /\ proc'.pc = "exit"
        BY <4>3 DEF Exits
      <4>4. ASSUME proc' = [proc EXCEPT !.rows = Tail(@)] PROVE "pc" \in DOMAIN proc' /\ proc'.pc = "reg_rows"
        BY <4>1, <4>4 DEF RetentionInv, PipeInv
      <4> QED
        BY <4>1, <4>2, <4>3, <4>4
    <3>5. CASE RegisterEnd
      BY <3>5 DEF RegisterEnd, Exits, RetentionInv, PipeInv
    <3> QED
      BY <1>6, <3>1, <3>2, <3>3, <3>4, <3>5 DEF RegisterSteps
  <2>2. pipe.pc # "off"
    BY <2>1 DEF RetentionInv, PipeInv
  <2> QED
    BY <1>0, <2>1, <2>2, RunsAlone
<1> QED
  BY <1>1, <1>2, <1>3, <1>4, <1>5, <1>6 DEF RegistryStage

\* The commands that write the files of a run, and those that register them.
LEMMA ExportKeepsRuns == RetentionInv /\ (ExportStage \/ CacheStage) => RetentionInv'
<1> SUFFICES ASSUME RetentionInv, ExportStage \/ CacheStage PROVE RetentionInv'
  OBVIOUS
<1>0. UNCHANGED <<attempts, att, pipe, gc>>
  BY DEF ExportStage, CacheStage, BuildCache, pipeVars, retentionVars
<1>E. ASSUME NEW f, Exits(f) PROVE "pc" \in DOMAIN proc' /\ proc'.pc = "exit"
  BY <1>E DEF Exits
<1>S. pipe.pc # "off" \/ proc.pc = "idle"
  BY DEF RetentionInv, PipeInv
<1>1. CASE CacheStage
  BY <1>0, <1>1, <1>E, RunsAlone DEF CacheStage, BuildCache, Executes, RetentionInv, PipeInv
<1>2. CASE \/ Executes("train_yolox") /\ Train(pipe.run, att)
           \/ Executes("evaluate_model") /\ Evaluate(pipe.run)
  <2>1. pipe.pc = "stage" /\ db' = db /\ \E f : Exits(f)
    BY <1>2 DEF Executes, Train, Evaluate
  <2> QED
    BY <1>0, <1>E, <2>1, RunsAlone DEF RetentionInv, PipeInv
<1>3. CASE \/ Executes("export_onnx") /\ ExportOnnx(pipe.run)
           \/ Executes("export_trt_fp16") /\ BuildEngine(pipe.run, "fp16", pipe.dataset)
           \/ Executes("export_trt_int8") /\ BuildEngine(pipe.run, "int8", pipe.dataset)
  <2>1. /\ pipe.pc = "stage" /\ db' = db
        /\ \/ Exits("failed")
           \/ \E pc \in {"model", "calibrate"} : \E w, r, c :
                proc' = [pc |-> pc, what |-> w, run |-> r, content |-> c]
    BY <1>3, Zenon DEF Executes, ExportOnnx, BuildEngine
  <2>2. "pc" \in DOMAIN proc' /\ proc'.pc # "create_insert"
    BY <2>1, <1>E
  <2> QED
    BY <1>0, <2>1, <2>2, RunsAlone DEF RetentionInv, PipeInv
<1>4. CASE ExportSteps
  <2>1. CASE Calibrate
    BY <1>0, <1>S, <2>1, RunsAlone DEF Calibrate, RetentionInv, PipeInv
  <2>2. CASE WriteModel
    BY <1>0, <1>S, <2>2, RunsAlone DEF WriteModel, RetentionInv, PipeInv
  <2>3. CASE WriteReport
    BY <1>0, <1>S, <1>E, <2>3, RunsAlone DEF WriteReport, RetentionInv, PipeInv
  <2> QED
    BY <1>4, <2>1, <2>2, <2>3 DEF ExportSteps
<1>5. CASE Executes("register_artifacts") /\ RegisterArtifacts(pipe.run)
  <2>1. db'.runs = db.runs /\ DOMAIN db' = DOMAIN db /\ db'.caches = db.caches
    BY <1>5 DEF RegisterArtifacts, RetentionInv, PipeInv
  <2>2. pipe.pc = "stage" /\ "pc" \in DOMAIN proc' /\ proc'.pc = "art_rows"
    BY <1>5 DEF Executes, RegisterArtifacts
  <2> QED
    BY <1>0, <2>1, <2>2, RunsAlone
<1>6. CASE ArtifactSteps
  <2>1. CASE RegisterArtifact
    <3>1. /\ proc.pc = "art_rows" /\ proc' = [proc EXCEPT !.todo = Tail(@)]
          /\ \/ db' = db
             \/ \E row : \/ db' = [db EXCEPT !.checkpoints = @ \cup {row}]
                         \/ db' = [db EXCEPT !.reports = @ \cup {row}]
                         \/ db' = [db EXCEPT !.artifacts = @ \cup {row}]
      BY <2>1, Zenon DEF RegisterArtifact
    <3>2. db'.runs = db.runs /\ DOMAIN db' = DOMAIN db /\ db'.caches = db.caches
      BY <3>1 DEF RetentionInv, PipeInv
    <3>3. "pc" \in DOMAIN proc' /\ proc'.pc = "art_rows"
      BY <3>1 DEF RetentionInv, PipeInv
    <3> QED
      BY <1>0, <1>S, <3>1, <3>2, <3>3, RunsAlone
  <2>2. CASE ArtifactsEnd
    BY <1>0, <1>S, <1>E, <2>2, RunsAlone DEF ArtifactsEnd, RetentionInv, PipeInv
  <2> QED
    BY <1>6, <2>1, <2>2 DEF ArtifactSteps
<1> QED
  BY <1>1, <1>2, <1>3, <1>4, <1>5, <1>6 DEF ExportStage

\* run_all itself: an attempt begins, goes from stage to stage, ends or dies.
LEMMA PipelineKeepsRuns ==
  RetentionInv /\ (Begin \/ StageEnds \/ TrackCache \/ PipeEnds \/ StageFails \/ PipeDies) => RetentionInv'
<1>1. ASSUME RetentionInv, Begin PROVE RetentionInv'
  <2> DEFINE a == Head(attempts)
  <2>1. /\ pipe.pc = "off" /\ att' = att + 1 /\ attempts' \in Seq(Attempts) /\ a.run \in Nat /\ a.cache \in Nat
        /\ UNCHANGED <<db, proc, gc>>
    <3>1. a \in Attempts /\ Tail(attempts) \in Seq(Attempts)
      BY <1>1 DEF Begin, RetentionInv, PipeInv
    <3>2. a.run \in RunIds /\ a.cache \in CacheIds
      BY <3>1 DEF Attempts
    <3> QED
      BY <1>1, <3>1, <3>2, PolicyAssumption DEF Begin, registryVars
  <2>2. /\ {"pc", "run", "cache"} \subseteq DOMAIN pipe' /\ pipe'.pc = "stage"
        /\ pipe'.run = a.run /\ pipe'.cache = a.cache
    BY <1>1 DEF Begin
  <2> HIDE DEF a
  <2>3. ASSUME NEW rows, Rows(rows)
        PROVE  \A r \in rows : r.id \in Nat /\ r.started \in Nat /\ r.started <= att' /\ r.started # att'
    BY <1>1, <2>1, <2>3 DEF Rows, RetentionInv, PipeInv
  <2>8. ASSUME NEW rows, CacheRows(rows)
        PROVE  \A c \in rows : c.created \in Nat /\ c.created < att' /\ c.created <= att'
    BY <1>1, <2>1, <2>8 DEF CacheRows, RetentionInv, PipeInv
  <2>4. Rows(db.runs)' /\ CacheRows(db.caches)' /\ RowFields'
    <3>1. Rows(db.runs)'
      BY <1>1, <2>1, <2>3 DEF RetentionInv, Rows
    <3>2. CacheRows(db.caches)'
      BY <1>1, <2>1, <2>8 DEF RetentionInv, CacheRows
    <3>3. RowFields'
      BY <1>1, <2>1 DEF RetentionInv, RowFields
    <3> QED
      BY <3>1, <3>2, <3>3
  <2>5. PipeInv'
    BY <1>1, <2>1, <2>2 DEF RetentionInv, PipeInv
  <2>6. PassInv'
    BY <1>1, <2>1, <2>3, <2>8 DEF RetentionInv, PassInv, Rows, CacheRows
  <2>7. PlanSafety'
    <3>1. PlanConsistent'
      BY <1>1, <2>1 DEF RetentionInv, PlanSafety, PlanConsistent, Doomed
    <3>2. PlanSeen'
      BY <1>1, <2>1, <2>3 DEF RetentionInv, PassInv, PlanSeen, Running
    <3>3. PlanCaches'
      BY <1>1, <2>1, <2>8 DEF RetentionInv, PassInv, PlanSafety, PlanCaches, Doomed
    <3> QED
      BY <3>1, <3>2, <3>3 DEF PlanSafety
  <2> QED
    BY <2>4, <2>5, <2>6, <2>7 DEF RetentionInv
<1>2. ASSUME RetentionInv, TrackCache PROVE RetentionInv'
  <2>0. UNCHANGED <<proc, gc, att, attempts>> /\ pipe.pc # "off" /\ pipe.pc # "stage"
    BY <1>2 DEF TrackCache, retentionVars
  <2>1. /\ {"pc", "run", "cache"} \subseteq DOMAIN pipe' /\ pipe'.run = pipe.run
        /\ pipe'.cache = pipe.cache /\ pipe'.pc \in {"register_tile_cache", "stage"}
    BY <1>2 DEF TrackCache, RetentionInv, PipeInv
  <2>2. Rows(db.runs)' /\ CacheRows(db.caches)' /\ RowFields' /\ DOMAIN db' = DOMAIN db
    <3>1. CASE pipe.pc = "set_tile_cache"
      <4> DEFINE upd(row) == IF row.id = pipe.run
                             THEN [f \in DOMAIN row |-> IF f \in DOMAIN [cache |-> pipe.cache]
                                                        THEN [cache |-> pipe.cache][f] ELSE row[f]]
                             ELSE row
      <4>1. db'.runs = {upd(row) : row \in db.runs} /\ DOMAIN db' = DOMAIN db /\ db'.caches = db.caches
        BY <1>2, <3>1 DEF TrackCache, UpdateRun, RetentionInv, PipeInv
      <4>2. ASSUME NEW row \in db.runs
            PROVE  /\ upd(row).id = row.id /\ upd(row).started = row.started
                   /\ upd(row).cache = IF row.id = pipe.run THEN pipe.cache ELSE row.cache
                   /\ {"id", "started", "cache"} \subseteq DOMAIN upd(row)
        BY <1>2 DEF RetentionInv, RowFields
      <4> HIDE DEF upd
      <4>3. Rows(db.runs)' /\ CacheRows(db.caches)'
        BY <1>2, <2>0, <2>1, <4>1, <4>2 DEF RetentionInv, Rows, CacheRows
      <4> QED
        BY <4>1, <4>2, <4>3 DEF RowFields
    <3>2. CASE pipe.pc # "set_tile_cache"
      <4>1. /\ db'.runs = db.runs /\ DOMAIN db' = DOMAIN db
            /\ \A c \in db'.caches : c \in db.caches \/ (c.id = pipe.cache /\ c.created = att)
        BY <1>2, <3>2 DEF TrackCache, WithTileCache, Upsert, RetentionInv, PipeInv
      <4>2. CacheRows(db.caches)'
        BY <1>2, <2>0, <2>1, <4>1 DEF RetentionInv, PipeInv, CacheRows
      <4> QED
        BY <1>2, <2>0, <2>1, <4>1, <4>2 DEF RetentionInv, Rows, RowFields
    <3> QED
      BY <3>1, <3>2
  <2>3. PipeInv'
    BY <1>2, <2>0, <2>1, <2>2 DEF RetentionInv, PipeInv
  <2>4. PassInv'
    BY <1>2, <2>0, <2>1 DEF RetentionInv, PassInv, Rows, CacheRows
  <2>5. PlanSafety'
    BY <1>2, <2>0, <2>1 DEF RetentionInv, PlanSafety, PlanConsistent, PlanSeen, PlanCaches, Running, Doomed
  <2> QED
    BY <2>2, <2>3, <2>4, <2>5 DEF RetentionInv
<1>3. ASSUME RetentionInv, StageEnds \/ PipeEnds \/ StageFails \/ PipeDies PROVE RetentionInv'
  <2>1. /\ UNCHANGED <<db, gc, att, attempts>>
        /\ {"pc", "run"} \subseteq DOMAIN pipe'
        /\ pipe'.pc # "off" =>
             pipe'.run = pipe.run /\ pipe.pc # "off" /\ "cache" \in DOMAIN pipe' /\ pipe'.cache = pipe.cache
        /\ "pc" \in DOMAIN proc' /\ proc'.pc \in {"idle", "exit"}
        /\ pipe'.pc = "off" => proc'.pc = "idle"
    <3>1. CASE StageEnds
      BY <1>3, <3>1 DEF StageEnds, retentionVars, RetentionInv, PipeInv
    <3>2. CASE PipeEnds
      BY <1>3, <3>2 DEF PipeEnds, retentionVars, registryVars, RetentionInv, PipeInv
    <3>3. CASE StageFails
      BY <1>3, <3>3 DEF StageFails, Exits, retentionVars, pipeVars, RetentionInv, PipeInv
    <3>4. CASE PipeDies
      BY <1>3, <3>4 DEF PipeDies, PipeOff, retentionVars, RetentionInv, PipeInv
    <3> QED
      BY <1>3, <3>1, <3>2, <3>3, <3>4
  <2>2. Rows(db.runs)' /\ CacheRows(db.caches)' /\ RowFields'
    BY <1>3, <2>1 DEF RetentionInv, Rows, CacheRows, RowFields
  <2>3. PipeInv'
    BY <1>3, <2>1 DEF RetentionInv, PipeInv
  <2>4. PassInv'
    BY <1>3, <2>1 DEF RetentionInv, PassInv, Rows, CacheRows
  <2>5. PlanSafety'
    BY <1>3, <2>1 DEF RetentionInv, PlanSafety, PlanConsistent, PlanSeen, PlanCaches, Running, Doomed
  <2> QED
    BY <2>2, <2>3, <2>4, <2>5 DEF RetentionInv
<1> QED
  BY <1>1, <1>2, <1>3

\* gc, and the imports that share the disk with it.
LEMMA CollectKeepsPlan == RetentionInv /\ (Collect \/ Sweep \/ Import) => RetentionInv'
<1> SUFFICES ASSUME RetentionInv, Collect \/ Sweep \/ Import PROVE RetentionInv'
  OBVIOUS
<1>0. UNCHANGED <<db, proc, pipe, att, attempts>>
  BY DEF Collect, Sweep, Import, registryVars, pipeVars
<1>1. Rows(db.runs)' /\ CacheRows(db.caches)' /\ RowFields' /\ PipeInv'
  BY <1>0 DEF RetentionInv, Rows, CacheRows, RowFields, PipeInv
<1>2. PassInv' /\ PlanSafety'
  <2>1. CASE GcRuns
    <3> DEFINE entry(row) == [id |-> row.id, started |-> row.started, cache |-> row.cache,
                              metric |-> MetricOf(row.id), path |-> row.id \in runDirs]
    <3>1. gc' = [pc |-> "caches", runs |-> {entry(row) : row \in db.runs}]
      BY <2>1 DEF GcRuns
    <3>2. \A row \in db.runs : /\ entry(row).id = row.id /\ entry(row).started = row.started
                               /\ entry(row).cache = row.cache
      OBVIOUS
    <3> HIDE DEF entry
    <3>3. Rows(gc.runs)'
      BY <1>0, <3>1, <3>2 DEF RetentionInv, Rows
    <3> QED
      BY <3>1, <3>3 DEF PassInv, PlanSafety, PlanConsistent, PlanSeen, PlanCaches
  <2>2. CASE GcCaches
    <3> DEFINE entry(row) == [id |-> row.id, dataset |-> row.dataset, created |-> row.created,
                              path |-> row.id \in cacheDirs]
    <3>1. /\ gc'.pc = "staging" /\ gc'.runs = gc.runs /\ gc.pc = "caches"
          /\ gc'.caches = {entry(row) : row \in db.caches}
      BY <2>2 DEF GcCaches
    <3>2. \A row \in db.caches : entry(row).id = row.id /\ entry(row).created = row.created
      OBVIOUS
    <3> HIDE DEF entry
    <3>3. CacheRows(gc.caches)'
      BY <1>0, <3>1, <3>2 DEF RetentionInv, CacheRows
    <3> QED
      BY <1>0, <3>1, <3>3 DEF RetentionInv, PassInv, Rows, CacheRows, PlanSafety, PlanConsistent, PlanSeen, PlanCaches
  <2>3. CASE GcPlan(att)
    <3>1. PICK old : /\ gc.pc = "staging" /\ gc'.pc = "apply" /\ gc'.runs = gc.runs /\ gc'.caches = gc.caches
                     /\ gc'.plan = PlanRetention(gc.runs, gc.caches, old, att)
                     /\ {"pc", "runs", "caches", "plan"} \subseteq DOMAIN gc'
      BY <2>3, Zenon DEF GcPlan
    <3>2. Rows(gc.runs) /\ CacheRows(gc.caches)
      BY <3>1 DEF RetentionInv, PassInv
    <3>3. PassInv'
      BY <1>0, <3>1, <3>2 DEF PassInv, Rows, CacheRows
    <3>4. att \in Nat
      BY DEF RetentionInv, PipeInv
    <3>5. PlanConsistent' /\ PlanSeen'
      BY <1>0, <3>1, <3>2, <3>4, PlanSafe DEF PlanConsistent, PlanSeen, Running, Doomed
    <3>6. PlanCaches'
      BY <1>0, <3>1, <3>2, PlanSparesNew DEF PlanCaches, Doomed, RetentionInv
    <3> QED
      BY <3>3, <3>5, <3>6 DEF PlanSafety
  <2>4. CASE GcDryRun \/ GcDone
    <3>1. gc'.pc = "idle"
      BY <2>4 DEF GcDryRun, GcDone, GcIdle
    <3> QED
      BY <3>1 DEF PassInv, PlanSafety, PlanConsistent, PlanSeen, PlanCaches
  <2>5. CASE Sweep
    <3>1. PICK item : gc.pc = "apply" /\ gc' = [gc EXCEPT !.left = @ \ {item}]
      BY <2>5 DEF Sweep, GcRemove
    <3>2. gc'.pc = gc.pc /\ gc'.runs = gc.runs /\ gc'.caches = gc.caches /\ gc'.plan = gc.plan /\ DOMAIN gc' = DOMAIN gc
      BY <3>1 DEF RetentionInv, PassInv
    <3> QED
      BY <1>0, <3>2 DEF RetentionInv, PassInv, Rows, CacheRows, PlanSafety, PlanConsistent, PlanSeen, PlanCaches, Running, Doomed
  <2>6. CASE Import
    BY <1>0, <2>6 DEF Import, retentionVars, RetentionInv, PassInv, Rows, CacheRows, PlanSafety, PlanConsistent, PlanSeen, PlanCaches, Running, Doomed
  <2> QED
    BY <2>1, <2>2, <2>3, <2>4, <2>5, <2>6 DEF Collect
<1> QED
  BY <1>1, <1>2 DEF RetentionInv

LEMMA FirstRuns == Init => RetentionInv
<1> SUFFICES ASSUME Init PROVE RetentionInv
  OBVIOUS
<1>1. /\ att = 0 /\ pipe = PipeOff /\ db = EmptyDb /\ gc = GcIdle
      /\ proc = [pc |-> "idle", result |-> "none"] /\ attempts \in Seq(Attempts)
  BY ScenariosAssumption DEF Init, InitRegistry, InitRetention
<1>2. Rows(db.runs) /\ CacheRows(db.caches) /\ RowFields
  BY <1>1 DEF EmptyDb, Rows, CacheRows, RowFields
<1>3. PipeInv
  BY <1>1 DEF PipeInv, PipeOff, EmptyDb
<1>4. PassInv /\ PlanSafety
  BY <1>1 DEF GcIdle, PassInv, PlanSafety, PlanConsistent, PlanSeen, PlanCaches
<1> QED
  BY <1>2, <1>3, <1>4 DEF RetentionInv

\* No pass of gc plans to remove the directory of the run going on, once it has
\* read the row of that attempt; nor the tile cache that this row names, once it
\* has read the row with the cache in it or, if spare caches are kept, the row of
\* the cache as this attempt wrote it; nor the cache of a run whose directory it
\* keeps (pipeline/gc.py:115-193, 143-158).
THEOREM RetentionSafeHolds == Spec => []RetentionSafe
<1>1. RetentionInv /\ [Next]_vars => RetentionInv'
  <2> SUFFICES ASSUME RetentionInv, [Next]_vars PROVE RetentionInv'
    OBVIOUS
  <2>1. CASE UNCHANGED vars
    <3>1. UNCHANGED <<db, proc, gc, pipe, att, attempts>>
      BY <2>1 DEF vars, registryVars, retentionVars, pipeVars
    <3> QED
      BY <3>1 DEF RetentionInv, Rows, CacheRows, RowFields, PipeInv, PassInv, PlanSafety, PlanConsistent, PlanSeen, PlanCaches, Running, Doomed
  <2> QED
    BY <2>1, RegistryKeepsRuns, ExportKeepsRuns, PipelineKeepsRuns, CollectKeepsPlan DEF Next, Pipeline
<1>2. RetentionInv => RetentionSafe
  <2> SUFFICES ASSUME RetentionInv, gc.pc = "apply", pipe.pc # "off"
               PROVE  /\ Doomed("run", pipe.run) => {r \in gc.runs : Running(r)} = {}
                      /\ \A row \in db.runs :
                           Running(row) /\ row.cache # Null /\ Doomed("tile_cache", row.cache) =>
                             /\ \A r \in {q \in gc.runs : Running(q)} : r.cache = Null
                             /\ KeepCaches = 0 \/ \E c \in gc.caches : c.id = row.cache /\ c.created < att
    BY DEF RetentionSafe, RetentionInv, PlanSafety
  <2>1. Doomed("run", pipe.run) => {r \in gc.runs : Running(r)} = {}
    BY DEF RetentionInv, PlanSafety, PlanSeen, Running
  <2>2. ASSUME NEW row \in db.runs, Running(row), row.cache # Null, Doomed("tile_cache", row.cache)
        PROVE  /\ \A r \in {q \in gc.runs : Running(q)} : r.cache = Null
               /\ KeepCaches = 0 \/ \E c \in gc.caches : c.id = row.cache /\ c.created < att
    <3>1. row.cache = pipe.cache
      BY <2>2 DEF RetentionInv, Rows, Running
    <3>2. \A r \in gc.runs : Running(r) => r.cache \in {Null, pipe.cache}
      BY DEF RetentionInv, PassInv, Rows, Running
    <3>3. \A r \in {q \in gc.runs : Running(q)} : r.cache = Null
      BY <2>2, <3>1, <3>2 DEF RetentionInv, PlanSafety, PlanSeen
    <3>4. KeepCaches = 0 \/ \E c \in gc.caches : c.id = row.cache /\ c.created < att
      BY <2>2 DEF RetentionInv, PlanSafety, PlanCaches
    <3> QED
      BY <3>3, <3>4
  <2> QED
    BY <2>1, <2>2
<1> QED
  BY <1>1, <1>2, FirstRuns, PTL DEF Spec
=============================================================================
