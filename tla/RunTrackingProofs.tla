-------------------------- MODULE RunTrackingProofs --------------------------
(***************************************************************************)
(* Theorems about RunTracking.  LoopOK says where the stage loop is,       *)
(* WritersOK who may be in the middle of a merge, Quiet what such a merge  *)
(* holds while no training of a dead attempt is alive, and RecordOK what   *)
(* status.json says.                                                       *)
(***************************************************************************)
EXTENDS RunTracking, TLAPS

AtStage == Working \ {"init_run", "finish", "mirror_finish"}
Ahead == {"set_current_stage", "emit_running", "merge_running", "execute",
          "insert_row", "training"}
B == "build_or_reuse_tile_cache"

LoopOK ==
  /\ pc \in AtStage => idx \in DOMAIN sel
  /\ pc = "init_run" => idx = 1 /\ \A s \in StageNames : results[s] = "none"
  /\ pc \in Ahead => \A j \in DOMAIN sel : j >= idx => results[sel[j]] = "none"
  /\ pc \in AtStage => \A j \in DOMAIN sel : j > idx => results[sel[j]] = "none"
  /\ pc \in {"emit_outcome", "merge_outcome"} => results[Stage] # "none"
  /\ pc \in {"set_tile_cache", "mirror_cache"} => TracksCache
  /\ pc = "training" => Stage = "train_yolox"
  /\ pc = "insert_row" => Stage = "create_pipeline_run"
  /\ pc # "off" => att \in Attempts
  /\ results[B] = "success" => crumb = att

\* Only the process that is at a merge is in the middle of one.
WritersOK ==
  /\ mg[0].at # "idle" => pc \in Merging
  /\ \A a \in Attempts : mg[a].at # "idle" => train[a] \in {"set_model", "progress"}
  /\ \A a \in Attempts :
       train[a] # "off" => a <= att /\ (a = att => pc \in {"training", "dead"})

\* Without a stray training a merge holds the file as it is, and the .tmp file
\* is that of the one writer.
Quiet ==
  /\ \A a \in Attempts : train[a] # "off" => a = att
  /\ mg[0].at # "idle" => mg[0].copy = Merged(st, Change)
  /\ \A a \in Attempts : mg[a].at # "idle" => mg[a].copy = Merged(st, TrainChange(a))
  /\ \A w \in Writers : mg[w].at = "written" => tmp = mg[w].copy

\* The build has succeeded and set_tile_cache is still to come.
Open == /\ pc \in {"emit_outcome", "merge_outcome", "set_tile_cache"}
        /\ Stage = B /\ results[B] = "success"

RecordOK ==
  pc \notin {"off", "init_run"} /\ (pc = "dead" => \E a \in Attempts : train[a] # "off") =>
    /\ st.model \in {0, att}
    /\ st.cache = IF results[B] = "success" /\ ~Open THEN att ELSE 0
    /\ pc \in {"mirror_finish", "done"} => st.status = Outcome

IInv == TypeOK /\ LoopOK /\ WritersOK /\ (~disturbed => Quiet /\ RecordOK)

(***************************************************************************)
(* Facts about the constants and about merges.                             *)
(***************************************************************************)
\* A selected list is a sequence of distinct stages.
LEMMA SelFacts ==
  ASSUME NEW s \in Selections \cup {<<>>}
  PROVE /\ s \in Seq(StageNames) /\ DOMAIN s = 1..Len(s) /\ Len(s) \in Nat
        /\ \A i \in DOMAIN s : s[i] \in StageNames
        /\ \A i, j \in DOMAIN s : s[i] = s[j] => i = j
<1>1. s \in Seq(StageNames) /\ DOMAIN s = 1..Len(s) /\ Len(s) \in Nat
  <2>1. CASE s \in Selections
    BY <2>1, ConstantsAssumption
  <2>2. CASE s = <<>>
    BY <2>2
  <2> QED BY <2>1, <2>2
<1>2. \A i \in DOMAIN s : s[i] \in StageNames
  BY <1>1
<1>3. \A i \in DOMAIN s : Canonical(s[i]) \in 1..14
  BY <1>2 DEF Canonical, StageNames
<1>4. \A i, j \in DOMAIN s : i < j => Canonical(s[i]) < Canonical(s[j])
  <2>1. CASE s \in Selections
    BY <2>1, ConstantsAssumption
  <2>2. CASE s = <<>>
    BY <2>2
  <2> QED BY <2>1, <2>2
<1>5. ASSUME NEW i \in DOMAIN s, NEW j \in DOMAIN s, s[i] = s[j] PROVE i = j
  <2>1. i \in Nat /\ j \in Nat
    BY <1>1
  <2>2. ~(i < j) /\ ~(j < i)
    BY <1>3, <1>4, <1>5
  <2> QED BY <2>1, <2>2
<1> QED BY <1>1, <1>2, <1>5

LEMMA Names ==
  /\ RecordStages \subseteq StageNames
  /\ NoStage \notin StageNames
  /\ B \in StageNames
BY DEF RecordStages, StageNames, STAGES_ORDER, NoStage, B

\* What a merge of each change leaves of the file.
LEMMA MergeFacts ==
  ASSUME NEW old \in Status, NEW x
  PROVE /\ Merged(old, Seed) = Seed
        /\ Merged(old, [stage |-> x]) = [old EXCEPT !.stage = x]
        /\ Merged(old, [status |-> x]) = [old EXCEPT !.status = x]
        /\ Merged(old, [cache |-> x]) = [old EXCEPT !.cache = x]
        /\ Merged(old, [model |-> x]) = [old EXCEPT !.model = x]
        /\ Merged(old, [iter |-> x]) = [old EXCEPT !.iter = x]
<1>1. DOMAIN old = {"status", "stage", "cache", "model", "iter"}
  BY DEF Status
<1>2. old = [status |-> old.status, stage |-> old.stage, cache |-> old.cache,
             model |-> old.model, iter |-> old.iter]
  BY DEF Status
<1>3. Merged(old, Seed) = Seed
  BY <1>1 DEF Merged, Seed, NoStatus
<1>4. Merged(old, [stage |-> x]) = [old EXCEPT !.stage = x]
  BY <1>1, <1>2 DEF Merged
<1>5. Merged(old, [status |-> x]) = [old EXCEPT !.status = x]
  BY <1>1, <1>2 DEF Merged
<1>7. Merged(old, [cache |-> x]) = [old EXCEPT !.cache = x]
  BY <1>1, <1>2 DEF Merged
<1>8. Merged(old, [model |-> x]) = [old EXCEPT !.model = x]
  BY <1>1, <1>2 DEF Merged
<1>9. Merged(old, [iter |-> x]) = [old EXCEPT !.iter = x]
  BY <1>1, <1>2 DEF Merged
<1> QED BY <1>3, <1>4, <1>5, <1>7, <1>8, <1>9

LEMMA MergeStageStatus ==
  ASSUME NEW old \in Status, NEW x, NEW y
  PROVE Merged(old, [status |-> x, stage |-> y])
          = [status |-> x, stage |-> y, cache |-> old.cache, model |-> old.model,
             iter |-> old.iter]
<1>1. DOMAIN old = {"status", "stage", "cache", "model", "iter"}
  BY DEF Status
<1> QED BY <1>1 DEF Merged

(***************************************************************************)
(* Types, and the place in the loop.                                       *)
(***************************************************************************)
\* Under the two invariants, every change and every merge is well typed.
LEMMA ChangeFacts ==
  ASSUME TypeOK, LoopOK, pc \in Merging
  PROVE /\ Merged(st, Change) \in Status
        /\ pc = "init_run" => Change = Seed
        /\ pc = "set_current_stage" => Change = [stage |-> Stage]
        /\ pc = "merge_running" => Change = [status |-> "running", stage |-> Stage]
        /\ pc = "merge_outcome" => Change = [status |-> results[Stage], stage |-> Stage]
        /\ pc = "set_tile_cache" => Change = [cache |-> crumb]
        /\ pc = "finish" => Change = [status |-> Outcome]
<1>1. /\ pc = "init_run" => Change = Seed
      /\ pc = "set_current_stage" => Change = [stage |-> Stage]
      /\ pc = "merge_running" => Change = [status |-> "running", stage |-> Stage]
      /\ pc = "merge_outcome" => Change = [status |-> results[Stage], stage |-> Stage]
      /\ pc = "set_tile_cache" => Change = [cache |-> crumb]
      /\ pc = "finish" => Change = [status |-> Outcome]
  BY DEF Change
<1>2. st \in Status /\ crumb \in Writers
  BY DEF TypeOK
<1>3. pc \in AtStage => Stage \in StageNames /\ results[Stage] \in {"none", "success", "failed"}
  BY SelFacts DEF TypeOK, LoopOK, Stage
<1>4. Outcome \in {"success", "failed"}
  BY DEF Outcome
<1>5. Seed \in Status
  BY DEF Seed, NoStatus, Status, Writers
<1>6. CASE pc = "init_run"
  BY <1>1, <1>2, <1>5, <1>6, MergeFacts
<1>7. CASE pc = "set_current_stage"
  <2>1. Stage \in StageNames
    BY <1>3, <1>7 DEF AtStage, Working, Merging
  <2>2. Merged(st, Change) = [st EXCEPT !.stage = Stage]
    <3>1. Merged(st, [stage |-> Stage]) = [st EXCEPT !.stage = Stage]
      BY <1>2, MergeFacts
    <3>2. Change = [stage |-> Stage]
      BY <1>1, <1>7
    <3> QED BY <3>1, <3>2
  <2> QED BY <1>1, <1>2, <2>1, <2>2 DEF Status
<1>8. CASE pc = "merge_running"
  <2>1. Stage \in StageNames
    BY <1>3, <1>8 DEF AtStage, Working, Merging
  <2>2. Merged(st, Change)
          = [status |-> "running", stage |-> Stage, cache |-> st.cache, model |-> st.model,
             iter |-> st.iter]
    <3>1. Merged(st, [status |-> "running", stage |-> Stage])
            = [status |-> "running", stage |-> Stage, cache |-> st.cache, model |-> st.model,
               iter |-> st.iter]
      BY <1>2, MergeStageStatus
    <3>2. Change = [status |-> "running", stage |-> Stage]
      BY <1>1, <1>8
    <3> QED BY <3>1, <3>2
  <2> QED BY <1>1, <1>2, <2>1, <2>2 DEF Status
<1>9. CASE pc = "merge_outcome"
  <2>1. Stage \in StageNames /\ results[Stage] \in {"none", "success", "failed"}
    BY <1>3, <1>9 DEF AtStage, Working, Merging
  <2>2. Merged(st, Change)
          = [status |-> results[Stage], stage |-> Stage, cache |-> st.cache,
             model |-> st.model, iter |-> st.iter]
    <3>1. Merged(st, [status |-> results[Stage], stage |-> Stage])
            = [status |-> results[Stage], stage |-> Stage, cache |-> st.cache,
               model |-> st.model, iter |-> st.iter]
      BY <1>2, MergeStageStatus
    <3>2. Change = [status |-> results[Stage], stage |-> Stage]
      BY <1>1, <1>9
    <3> QED BY <3>1, <3>2
  <2> QED BY <1>1, <1>2, <2>1, <2>2 DEF Status
<1>10. CASE pc = "set_tile_cache"
  <2>1. Merged(st, Change) = [st EXCEPT !.cache = crumb]
    <3>1. Merged(st, [cache |-> crumb]) = [st EXCEPT !.cache = crumb]
      BY <1>2, MergeFacts
    <3>2. Change = [cache |-> crumb]
      BY <1>1, <1>10
    <3> QED BY <3>1, <3>2
  <2> QED BY <1>1, <1>2, <2>1 DEF Status
<1>11. CASE pc = "finish"
  <2>1. Merged(st, Change) = [st EXCEPT !.status = Outcome]
    <3>1. Merged(st, [status |-> Outcome]) = [st EXCEPT !.status = Outcome]
      BY <1>2, MergeFacts
    <3>2. Change = [status |-> Outcome]
      BY <1>1, <1>11
    <3> QED BY <3>1, <3>2
  <2> QED BY <1>1, <1>2, <1>4, <2>1 DEF Status
<1> QED BY <1>1, <1>6, <1>7, <1>8, <1>9, <1>10, <1>11 DEF Merging

LEMMA TrainChangeFacts ==
  ASSUME TypeOK, NEW a \in Attempts
  PROVE /\ Merged(st, TrainChange(a)) \in Status
        /\ train[a] = "set_model" => Merged(st, TrainChange(a)) = [st EXCEPT !.model = a]
        /\ train[a] # "set_model" => Merged(st, TrainChange(a)) = [st EXCEPT !.iter = 1]
<1>1. st \in Status /\ a \in Writers
  BY DEF TypeOK, Writers
<1>2. /\ train[a] = "set_model" => Merged(st, TrainChange(a)) = [st EXCEPT !.model = a]
      /\ train[a] # "set_model" => Merged(st, TrainChange(a)) = [st EXCEPT !.iter = 1]
  BY <1>1, MergeFacts DEF TrainChange
<1> QED BY <1>1, <1>2 DEF Status


LEMMA TypeInit == Init => TypeOK /\ LoopOK
<1> SUFFICES ASSUME Init PROVE TypeOK /\ LoopOK
  OBVIOUS
<1>1. NoStatus \in Status /\ 0 \in Writers
  BY DEF NoStatus, Status, Writers
<1>2. TypeOK
  <2>1. Len(sel) = 0 /\ idx \in 1..(Len(sel) + 1)
    BY DEF Init
  <2>2. mg \in [Writers -> [at : {"idle", "read", "written"}, copy : Status]]
    BY <1>1 DEF Init, Idle
  <2>3. att \in 0..MaxAttempts /\ faults \in 0..MaxFaults
    BY ConstantsAssumption DEF Init
  <2>4. row \in [status : {"none", "running", "success", "failed"}, cache : Writers]
    BY <1>1 DEF Init, NoRow
  <2> QED BY <1>1, <2>1, <2>2, <2>3, <2>4 DEF Init, TypeOK, Over
<1>3. LoopOK
  BY Names DEF Init, LoopOK, AtStage, Ahead, Working, Merging
<1> QED BY <1>2, <1>3

\* The files: what every step keeps typed.
LEMMA FileTyped ==
  ASSUME TypeOK, LoopOK, Next
  PROVE st' \in Status /\ tmp' \in Status
        /\ mg' \in [Writers -> [at : {"idle", "read", "written"}, copy : Status]]
<1> USE DEF TypeOK
<1>1. Idle \in [at : {"idle", "read", "written"}, copy : Status] /\ NoStatus \in Status
  BY DEF Idle, NoStatus, Status, Writers
<1>2. 0 \in Writers /\ \A a \in Attempts : a \in Writers
  BY DEF Writers
<1>3. ASSUME NEW w \in Writers, NEW c, Merged(st, c) \in Status,
             MergeRead(w, c) \/ MergeWrite(w) \/ MergeReplace(w) \/ MergeRaises(w)
      PROVE st' \in Status /\ tmp' \in Status
            /\ mg' \in [Writers -> [at : {"idle", "read", "written"}, copy : Status]]
  <2>1. CASE MergeRead(w, c)
    BY <1>3, <2>1 DEF MergeRead
  <2>2. CASE MergeWrite(w)
    BY <2>2 DEF MergeWrite
  <2>3. CASE MergeReplace(w)
    BY <1>1, <2>3 DEF MergeReplace
  <2>4. CASE MergeRaises(w)
    BY <1>1, <2>4 DEF MergeRaises
  <2> QED BY <1>3, <2>1, <2>2, <2>3, <2>4
<1>4. CASE RunMerge \/ RunMergeRaises
  <2>1. pc \in Merging
    BY <1>4 DEF RunMerge, RunMergeRaises
  <2>2. Merged(st, Change) \in Status
    BY <2>1, ChangeFacts
  <2>3. MergeRead(0, Change) \/ MergeWrite(0) \/ MergeReplace(0) \/ MergeRaises(0)
    BY <1>4 DEF RunMerge, RunMergeRaises
  <2> QED BY <1>2, <1>3, <2>2, <2>3
<1>5. ASSUME NEW a \in Attempts, TrainMerge(a) \/ TrainMergeRaises(a)
      PROVE st' \in Status /\ tmp' \in Status
            /\ mg' \in [Writers -> [at : {"idle", "read", "written"}, copy : Status]]
  <2>1. Merged(st, TrainChange(a)) \in Status
    BY TrainChangeFacts
  <2>2. MergeRead(a, TrainChange(a)) \/ MergeWrite(a) \/ MergeReplace(a) \/ MergeRaises(a)
    BY <1>5 DEF TrainMerge, TrainMergeRaises
  <2> QED BY <1>2, <1>3, <2>1, <2>2
<1>6. ASSUME NEW a \in Attempts, TrainEnds(a)
      PROVE st' \in Status /\ tmp' \in Status
            /\ mg' \in [Writers -> [at : {"idle", "read", "written"}, copy : Status]]
  BY <1>1, <1>6 DEF TrainEnds
<1>7. ASSUME NEW a \in Attempts, EmitProgress(a)
      PROVE UNCHANGED file
  BY <1>7 DEF EmitProgress
<1>8. CASE Die \/ CutOff
  BY <1>1, <1>8 DEF Die, CutOff, Killed
<1>9. CASE Begin \/ StageFails \/ WatchPoll \/ WatchStops
  BY <1>9 DEF Begin, StageFails, WatchPoll, WatchStops, file
<1>10. CASE RunSteps /\ ~RunMerge /\ ~RunMergeRaises
  BY <1>10 DEF RunSteps, EmitRunning, EmitOutcome, MirrorCache, MirrorFinish, ExecuteOther,
     DeleteRow, InsertRow, BuildCache, RegisterArtifacts, UpdateRow, StartTraining, file
<1> QED BY <1>4, <1>5, <1>6, <1>7, <1>8, <1>9, <1>10 DEF Next, TrainSteps, RunSteps, file


\* What the loop's position is after each step that moves it.
LEMMA LoopTyped ==
  ASSUME TypeOK, LoopOK, Next
  PROVE /\ att' \in 0..MaxAttempts /\ pc' \in Working \cup Over
        /\ sel' \in Selections \cup {<<>>} /\ idx' \in 1..(Len(sel') + 1)
        /\ results' \in [StageNames -> {"none", "success", "failed"}]
<1> USE DEF TypeOK
<1>1. DOMAIN sel = 1..Len(sel) /\ Len(sel) \in Nat
  BY SelFacts
<1>2. pc \in AtStage => idx \in DOMAIN sel /\ idx + 1 \in 1..(Len(sel) + 1)
                       /\ Stage \in StageNames
  BY <1>1, SelFacts DEF LoopOK, Stage
<1>3. \A i : StageOrFinish(i) \in Working
  BY DEF StageOrFinish, Working, Merging
<1>4. CASE Begin
  <2>1. Len(sel') \in Nat
    BY <1>4, SelFacts DEF Begin
  <2> QED BY <1>4, <2>1, ConstantsAssumption DEF Begin, Working, Merging
<1>5. CASE RunMerge
  <2>1. AfterMerge \in Working
    BY <1>3, <1>5 DEF RunMerge, AfterMerge, Working, Merging
  <2>2. pc' \in Working
    BY <1>5, <2>1 DEF RunMerge, Working
  <2>3. idx' \in 1..(Len(sel) + 1)
    BY <1>2, <1>5 DEF RunMerge, AtStage, Working, Merging
  <2> QED BY <1>5, <2>2, <2>3 DEF RunMerge
<1>6. ASSUME NEW v \in {"success", "failed"}, Exits(v), pc \in AtStage
      PROVE /\ att' = att /\ pc' = "emit_outcome" /\ sel' = sel /\ idx' = idx
            /\ results' \in [StageNames -> {"none", "success", "failed"}]
  BY <1>2, <1>6 DEF Exits
<1>7. ASSUME NEW a \in Attempts, TrainSteps(a)
      PROVE \/ UNCHANGED run
            \/ pc \in AtStage /\ (Exits("success") \/ Exits("failed"))
  BY <1>7 DEF TrainSteps, TrainMerge, TrainMergeRaises, EmitProgress, TrainEnds, AtStage, Working
<1>8. CASE \E a \in Attempts : TrainSteps(a)
  BY <1>6, <1>7, <1>8 DEF run, Working
<1>9. CASE RunMergeRaises \/ Die \/ CutOff
  BY <1>9 DEF RunMergeRaises, Die, CutOff, Killed, Over
<1>10. CASE WatchPoll \/ WatchStops
  BY <1>10 DEF WatchPoll, WatchStops, run
<1>11. CASE EmitRunning \/ EmitOutcome \/ MirrorFinish \/ StartTraining
  BY <1>11 DEF EmitRunning, EmitOutcome, MirrorFinish, StartTraining, Working, Merging, Over
<1>12. CASE MirrorCache
  BY <1>2, <1>3, <1>12 DEF MirrorCache, AtStage, Working
<1>13. CASE ExecuteOther \/ InsertRow \/ BuildCache \/ RegisterArtifacts \/ UpdateRow \/ StageFails
  <2>1. pc \in AtStage /\ (Exits("success") \/ Exits("failed"))
    BY <1>13 DEF ExecuteOther, InsertRow, BuildCache, RegisterArtifacts, UpdateRow, StageFails,
       At, AtStage, Working
  <2> QED BY <1>6, <2>1 DEF Working
<1>14. CASE DeleteRow
  <2>1. pc \in AtStage
    BY <1>14 DEF DeleteRow, At, AtStage, Working
  <2> QED BY <1>6, <1>14, <2>1 DEF DeleteRow, Working
<1> QED BY <1>4, <1>5, <1>8, <1>9, <1>10, <1>11, <1>12, <1>13, <1>14 DEF Next, RunSteps

LEMMA TypeNext ==
  ASSUME TypeOK, LoopOK, [Next]_vars
  PROVE TypeOK'
<1>1. CASE UNCHANGED vars
  BY <1>1 DEF TypeOK, vars, run, file, sql
<1>2. CASE Next
  <2> USE DEF TypeOK
  <2>1. pc \in AtStage => Stage \in StageNames /\ results[Stage] \in {"none", "success", "failed"}
    BY SelFacts DEF LoopOK, Stage
  <2>2. latest' \in [StageNames -> {"none", "running", "success", "failed"}]
    <3>1. "train_yolox" \in StageNames
      BY Names DEF RecordStages
    <3>2. CASE EmitRunning \/ EmitOutcome
      BY <2>1, <3>2 DEF EmitRunning, EmitOutcome, AtStage, Working, Merging
    <3>3. CASE \E a \in Attempts : EmitProgress(a)
      BY <3>1, <3>3 DEF EmitProgress
    <3>4. CASE UNCHANGED latest
      BY <3>4
    <3> QED BY <1>2, <3>2, <3>3, <3>4 DEF Next, RunSteps, TrainSteps, Begin, RunMerge, RunMergeRaises,
       MirrorCache, MirrorFinish, ExecuteOther, DeleteRow, InsertRow, BuildCache,
       RegisterArtifacts, UpdateRow, StartTraining, StageFails, Die, CutOff, Killed, TrainMerge,
       TrainMergeRaises, TrainEnds, WatchPoll, WatchStops
  <2>3. row' \in [status : {"none", "running", "success", "failed"}, cache : Writers]
    <3>1. NoRow \in [status : {"none", "running", "success", "failed"}, cache : Writers]
      BY DEF NoRow, Writers
    <3>2. Outcome \in {"success", "failed"}
      BY DEF Outcome
    <3>3. CASE MirrorCache \/ MirrorFinish
      BY <3>2, <3>3 DEF MirrorCache, MirrorFinish
    <3>4. CASE DeleteRow \/ InsertRow \/ UpdateRow
      BY <3>1, <3>4 DEF DeleteRow, InsertRow, UpdateRow
    <3>5. CASE UNCHANGED row
      BY <3>5
    <3> QED BY <1>2, <3>3, <3>4, <3>5 DEF Next, RunSteps, TrainSteps, Begin, RunMerge, RunMergeRaises,
       EmitRunning, EmitOutcome, ExecuteOther, BuildCache, RegisterArtifacts, StartTraining,
       StageFails, Die, CutOff, Killed, TrainMerge, TrainMergeRaises, EmitProgress, TrainEnds,
       WatchPoll, WatchStops, sql
  <2>4. arts' \in BOOLEAN /\ missed' \in BOOLEAN
    BY <1>2 DEF Next, RunSteps, TrainSteps, Begin, RunMerge, RunMergeRaises, MirrorCache, MirrorFinish,
       EmitRunning, EmitOutcome, ExecuteOther, DeleteRow, InsertRow, UpdateRow, BuildCache,
       RegisterArtifacts, StartTraining, StageFails, Die, CutOff, Killed, TrainMerge,
       TrainMergeRaises, EmitProgress, TrainEnds, WatchPoll, WatchStops, sql
  <2>5. disturbed' \in BOOLEAN /\ crumb' \in Writers
    <3>1. disturbed' \in BOOLEAN
      <4>1. CASE Begin
        BY <4>1 DEF Begin
      <4>2. CASE UNCHANGED disturbed
        BY <4>2
      <4> QED BY <1>2, <4>1, <4>2 DEF Next, RunSteps, TrainSteps, RunMerge, RunMergeRaises, MirrorCache,
         MirrorFinish, EmitRunning, EmitOutcome, ExecuteOther, DeleteRow, InsertRow, UpdateRow,
         BuildCache, RegisterArtifacts, StartTraining, StageFails, Die, CutOff, Killed, TrainMerge,
         TrainMergeRaises, EmitProgress, TrainEnds, WatchPoll, WatchStops, Exits, run
    <3>2. att \in Writers
      BY ConstantsAssumption DEF Writers, Attempts
    <3>3. crumb' \in {crumb, att}
      BY <1>2 DEF Next, RunSteps, TrainSteps, Begin, RunMerge, RunMergeRaises, MirrorCache,
         MirrorFinish, EmitRunning, EmitOutcome, ExecuteOther, DeleteRow, InsertRow, UpdateRow,
         BuildCache, RegisterArtifacts, StartTraining, StageFails, Die, CutOff, Killed, TrainMerge,
         TrainMergeRaises, EmitProgress, TrainEnds, WatchPoll, WatchStops
    <3> QED BY <3>1, <3>2, <3>3
  <2>6. train' \in [Attempts -> {"off", "set_model", "progress", "emit", "trained"}]
    BY <1>2 DEF Next, RunSteps, TrainSteps, Begin, RunMerge, RunMergeRaises, MirrorCache, MirrorFinish,
       EmitRunning, EmitOutcome, ExecuteOther, DeleteRow, InsertRow, UpdateRow, BuildCache,
       RegisterArtifacts, StartTraining, StageFails, Die, CutOff, Killed, TrainMerge,
       TrainMergeRaises, EmitProgress, TrainEnds, WatchPoll, WatchStops
  <2>7. watch' \in {"on", "seen", "left", "gone"}
    BY <1>2 DEF Next, RunSteps, TrainSteps, Begin, RunMerge, RunMergeRaises, MirrorCache, MirrorFinish,
       EmitRunning, EmitOutcome, ExecuteOther, DeleteRow, InsertRow, UpdateRow, BuildCache,
       RegisterArtifacts, StartTraining, StageFails, Die, CutOff, TrainMerge,
       TrainMergeRaises, EmitProgress, TrainEnds, WatchPoll, WatchStops
  <2>8. faults' \in 0..MaxFaults
    <3>1. ASSUME NEW f, Fail(f) PROVE faults' \in 0..MaxFaults
      BY <3>1, ConstantsAssumption DEF Fail
    <3>2. (\E f : Fail(f)) \/ UNCHANGED faults
      BY <1>2 DEF Next, RunSteps, TrainSteps, Begin, RunMerge, RunMergeRaises, MirrorCache,
         MirrorFinish, EmitRunning, EmitOutcome, ExecuteOther, DeleteRow, InsertRow, UpdateRow,
         BuildCache, RegisterArtifacts, StartTraining, StageFails, Die, CutOff, TrainMerge,
         TrainMergeRaises, EmitProgress, TrainEnds, WatchPoll, WatchStops, NoFail, MergeRaises
    <3> QED BY <3>1, <3>2
  <2> QED BY <1>2, <2>2, <2>3, <2>4, <2>5, <2>6, <2>7, <2>8, LoopTyped, FileTyped
<1> QED BY <1>1, <1>2


LEMMA LoopNext ==
  ASSUME TypeOK, LoopOK, [Next]_vars
  PROVE LoopOK'
<1>1. DOMAIN sel = 1..Len(sel) /\ Len(sel) \in Nat
      /\ (\A i \in DOMAIN sel : sel[i] \in StageNames)
      /\ \A i, j \in DOMAIN sel : sel[i] = sel[j] => i = j
  BY SelFacts DEF TypeOK
<1>2. idx \in Nat
  BY DEF TypeOK
<1>3. CASE UNCHANGED <<run, crumb>>
  BY <1>3 DEF LoopOK, run, Stage, TracksCache
<1>4. CASE pc \in Working /\ pc' = "dead" /\ UNCHANGED <<att, sel, idx, results, crumb>>
  BY <1>4 DEF LoopOK, AtStage, Ahead, Working, Merging
<1>5. CASE Begin
  <2>1. results' = [s \in StageNames |-> "none"] /\ idx' = 1 /\ pc' = "init_run"
    BY <1>5 DEF Begin
  <2>2. att' \in Attempts
    BY <1>5, ConstantsAssumption DEF Begin, TypeOK, Attempts
  <2>3. results'[B] # "success"
    BY <2>1, Names
  <2> QED BY <2>1, <2>2, <2>3 DEF LoopOK, AtStage, Ahead, Working, Merging
\* To the next stage, or to the end.
<1>6. ASSUME pc \in AtStage, pc' = StageOrFinish(idx + 1), idx' = idx + 1,
             UNCHANGED <<att, sel, results, crumb>>
      PROVE LoopOK'
  <2>1. pc' \in {"set_current_stage", "finish"} /\ (pc' # "finish" => idx' \in DOMAIN sel)
    BY <1>6 DEF StageOrFinish
  <2>2. \A j \in DOMAIN sel : j >= idx' => results'[sel[j]] = "none"
    BY <1>1, <1>2, <1>6 DEF LoopOK
  <2>3. \A j \in DOMAIN sel : j > idx' => results'[sel[j]] = "none"
    BY <1>1, <1>2, <1>6, <2>2
  <2> QED BY <1>6, <2>1, <2>2, <2>3 DEF LoopOK, AtStage, Ahead, Working, Merging
<1>7. CASE RunMerge
  <2>1. CASE UNCHANGED <<pc, idx>>
    BY <1>3, <1>7, <2>1 DEF RunMerge, run
  <2>2. CASE pc = "merge_outcome" /\ ~TracksCache /\ pc' = AfterMerge /\ idx' = idx + 1
    BY <1>6, <1>7, <2>2 DEF RunMerge, AfterMerge, AtStage, Working, Merging
  <2>3. CASE ~(pc = "merge_outcome" /\ ~TracksCache) /\ pc' = AfterMerge /\ idx' = idx
    <3>1. UNCHANGED <<att, sel, results, crumb>> /\ pc \in Merging
      BY <1>7 DEF RunMerge
    <3>2. CASE pc = "init_run"
      <4>1. pc' = StageOrFinish(1) /\ idx = 1
        BY <2>3, <3>2 DEF AfterMerge, LoopOK
      <4>2. pc' \in {"set_current_stage", "finish"} /\ (pc' # "finish" => idx \in DOMAIN sel)
        BY <4>1 DEF StageOrFinish
      <4>3. \A j \in DOMAIN sel : results[sel[j]] = "none"
        BY <1>1, <3>2 DEF LoopOK
      <4> QED BY <2>3, <3>1, <3>2, <4>2, <4>3 DEF LoopOK, AtStage, Ahead, Working, Merging
    <3>3. CASE pc = "set_current_stage"
      BY <2>3, <3>1, <3>3 DEF AfterMerge, LoopOK, AtStage, Ahead, Working, Merging
    <3>4. CASE pc = "merge_running"
      BY <2>3, <3>1, <3>4 DEF AfterMerge, LoopOK, AtStage, Ahead, Working, Merging
    <3>5. CASE pc = "merge_outcome"
      BY <2>3, <3>1, <3>5 DEF AfterMerge, LoopOK, AtStage, Ahead, Working, Merging, TracksCache, Stage
    <3>6. CASE pc = "set_tile_cache"
      BY <2>3, <3>1, <3>6 DEF AfterMerge, LoopOK, AtStage, Ahead, Working, Merging, TracksCache, Stage
    <3>7. CASE pc = "finish"
      BY <2>3, <3>1, <3>7 DEF AfterMerge, LoopOK, AtStage, Ahead, Working, Merging
    <3> QED BY <3>1, <3>2, <3>3, <3>4, <3>5, <3>6, <3>7 DEF Merging
  <2> QED BY <1>7, <2>1, <2>2, <2>3 DEF RunMerge
<1>8. CASE MirrorCache
  BY <1>6, <1>8 DEF MirrorCache, AtStage, Working
<1>9. CASE MirrorFinish
  BY <1>9 DEF MirrorFinish, LoopOK, AtStage, Ahead, Working, Merging
<1>10. CASE EmitRunning
  BY <1>10 DEF EmitRunning, LoopOK, AtStage, Ahead, Working, Merging
<1>11. CASE EmitOutcome
  BY <1>11 DEF EmitOutcome, LoopOK, AtStage, Ahead, Working, Merging, Stage
<1>12. CASE StartTraining
  BY <1>12 DEF StartTraining, At, LoopOK, AtStage, Ahead, Working, Merging, Stage
<1>13. CASE DeleteRow /\ pc' = "insert_row"
  BY <1>13 DEF DeleteRow, At, Exits, LoopOK, AtStage, Ahead, Working, Merging, Stage
\* A subprocess has exited; only that of the build may have left a breadcrumb.
<1>14. ASSUME NEW v \in {"success", "failed"}, pc \in {"execute", "insert_row", "training"},
              Exits(v), crumb' = crumb \/ (Stage = B /\ crumb' = att),
              v = "success" /\ Stage = B => crumb' = att
       PROVE LoopOK'
  <2>1. pc' = "emit_outcome" /\ UNCHANGED <<att, sel, idx>> /\ idx \in DOMAIN sel
    BY <1>14 DEF Exits, LoopOK, AtStage, Working
  <2>2. Stage \in StageNames /\ results[Stage] = "none"
    BY <1>1, <1>2, <1>14, <2>1 DEF LoopOK, Ahead, Stage
  <2>3. results' = [results EXCEPT ![Stage] = v] /\ results'[Stage] = v
    BY <1>14, <2>2 DEF Exits, TypeOK
  <2>4. \A j \in DOMAIN sel : j > idx => sel[j] # Stage /\ results'[sel[j]] = "none"
    BY <1>1, <1>2, <1>14, <2>1, <2>3 DEF LoopOK, Ahead, TypeOK, Stage
  <2>5. results'[B] = "success" => crumb' = att
    <3>1. CASE Stage = B
      BY <1>14, <2>2, <2>3, <3>1
    <3>2. CASE Stage # B
      <4>1. results'[B] = results[B] /\ crumb' = crumb
        BY <1>14, <2>3, <3>2, Names DEF TypeOK
      <4> QED BY <4>1 DEF LoopOK
    <3> QED BY <3>1, <3>2
  <2>6. Stage' = Stage /\ att \in Attempts
    BY <1>14, <2>1 DEF Stage, LoopOK
  <2> QED BY <2>1, <2>3, <2>4, <2>5, <2>6, <1>14 DEF LoopOK, AtStage, Ahead, Working, Merging
<1>15. ASSUME NEW v \in {"success", "failed"}, pc \in {"execute", "insert_row", "training"},
              Exits(v), UNCHANGED crumb, v = "success" => Stage # B
       PROVE LoopOK'
  BY <1>14, <1>15
<1>16. Stage = B => Stage \in RecordStages /\ Stage # "create_pipeline_run"
         /\ Stage # "register_artifacts" /\ Stage # "update_pipeline_run_status"
         /\ Stage # "train_yolox"
  BY DEF B, RecordStages
<1>17. CASE ExecuteOther
  BY <1>15, <1>16, <1>17 DEF ExecuteOther
<1>18. CASE DeleteRow /\ pc' # "insert_row"
  <2>1. Exits("failed") /\ UNCHANGED crumb /\ pc = "execute"
    BY <1>18 DEF DeleteRow, At
  <2> QED BY <1>15, <2>1
<1>19. CASE InsertRow
  <2>1. Stage = "create_pipeline_run"
    BY <1>19 DEF InsertRow, LoopOK
  <2> QED BY <1>15, <1>16, <1>19, <2>1 DEF InsertRow
<1>20. CASE BuildCache
  <2>1. Stage = B /\ pc = "execute" /\ Exits("success") /\ crumb' = att
    BY <1>20 DEF BuildCache, At, B
  <2> QED BY <1>14, <2>1
<1>21. CASE RegisterArtifacts
  <2>1. Stage # B /\ pc = "execute" /\ Exits("success") /\ UNCHANGED crumb
    BY <1>16, <1>21 DEF RegisterArtifacts, At
  <2> QED BY <1>15, <2>1
<1>22. CASE UpdateRow
  <2>1. Stage # B /\ pc = "execute" /\ (Exits("success") \/ Exits("failed")) /\ UNCHANGED crumb
    BY <1>16, <1>22 DEF UpdateRow, At
  <2> QED BY <1>15, <2>1
<1>23. CASE StageFails
  <2>1. pc \in {"execute", "insert_row"} /\ Exits("failed") /\ UNCHANGED crumb
    BY <1>23 DEF StageFails
  <2> QED BY <1>15, <2>1
<1>24. ASSUME NEW a \in Attempts, TrainSteps(a) PROVE LoopOK'
  <2>1. CASE TrainEnds(a) /\ pc = "training" /\ a = att
    <3>1. Stage # B
      BY <1>16, <2>1 DEF LoopOK
    <3>2. (Exits("success") \/ Exits("failed")) /\ UNCHANGED crumb
      BY <2>1 DEF TrainEnds
    <3> QED BY <1>15, <2>1, <3>1, <3>2
  <2>2. CASE ~(TrainEnds(a) /\ pc = "training" /\ a = att)
    BY <1>3, <1>24, <2>2 DEF TrainSteps, TrainMerge, TrainMergeRaises, EmitProgress, TrainEnds
  <2> QED BY <2>1, <2>2
<1>25. CASE RunMergeRaises \/ Die \/ CutOff
  <2>1. pc \in Working /\ pc' = "dead" /\ UNCHANGED <<att, sel, idx, results, crumb>>
    BY <1>25 DEF RunMergeRaises, Die, CutOff, Killed, Working
  <2> QED BY <1>4, <2>1
<1>26. CASE WatchPoll \/ WatchStops
  BY <1>3, <1>26 DEF WatchPoll, WatchStops
<1>27. CASE UNCHANGED vars
  BY <1>3, <1>27 DEF vars
<1> QED BY <1>5, <1>7, <1>8, <1>9, <1>10, <1>11, <1>12, <1>13, <1>17, <1>18, <1>19, <1>20, <1>21,
  <1>22, <1>23, <1>24, <1>25, <1>26, <1>27 DEF Next, RunSteps

\* Every record has the type it should have, whatever fails
\* (status_tracker.py, run_all.py, metadata_store.py).
THEOREM TypeCorrect == Spec => []TypeOK
<1>1. Init => TypeOK /\ LoopOK
  BY TypeInit
<1>2. TypeOK /\ LoopOK /\ [Next]_vars => (TypeOK /\ LoopOK)'
  BY TypeNext, LoopNext
<1> QED BY <1>1, <1>2, PTL DEF Spec


(***************************************************************************)
(* One writer at a time.                                                   *)
(***************************************************************************)
\* What a step of the files does to the merge of its writer.
LEMMA MergeSteps ==
  ASSUME TypeOK, NEW w \in Writers, NEW c
  PROVE /\ MergeRead(w, c) =>
             /\ mg[w].at = "idle" /\ mg'[w].at = "read" /\ mg'[w].copy = Merged(st, c)
             /\ st' = st /\ tmp' = tmp /\ \A v \in Writers \ {w} : mg'[v] = mg[v]
        /\ MergeWrite(w) =>
             /\ mg[w].at = "read" /\ mg'[w].at = "written" /\ mg'[w].copy = mg[w].copy
             /\ st' = st /\ tmp' = mg[w].copy /\ \A v \in Writers \ {w} : mg'[v] = mg[v]
        /\ MergeReplace(w) =>
             /\ mg[w].at = "written" /\ mg'[w].at = "idle" /\ st' = tmp
             /\ \A v \in Writers \ {w} : mg'[v] = mg[v]
        /\ MergeRaises(w) =>
             /\ mg[w].at # "idle" /\ mg'[w].at = "idle" /\ st' = st /\ tmp' = tmp
             /\ \A v \in Writers \ {w} : mg'[v] = mg[v]
BY DEF TypeOK, MergeRead, MergeWrite, MergeReplace, MergeRaises, TmpGone, Idle

LEMMA WriterSets == 0 \in Writers /\ 0 \notin Attempts /\ Attempts \subseteq Writers
  /\ (\A w \in Writers : w = 0 \/ w \in Attempts) /\ \A a \in Attempts : a \in Nat
BY DEF Writers, Attempts

LEMMA WritersNext ==
  ASSUME TypeOK, LoopOK, WritersOK, [Next]_vars
  PROVE WritersOK'
<1> USE WriterSets
<1>1. att \in Nat
  BY DEF TypeOK
<1>2. CASE UNCHANGED <<pc, att, mg, train>>
  BY <1>2 DEF WritersOK
<1>3. CASE Begin
  <2>1. mg' = mg /\ train' = train /\ att' = att + 1 /\ pc \in Over
    BY <1>3 DEF Begin, file
  <2>2. mg[0].at = "idle"
    BY <2>1 DEF WritersOK, Over, Merging
  <2>3. \A a \in Attempts : train[a] # "off" => a <= att' /\ a # att'
    BY <1>1, <2>1 DEF WritersOK
  <2> QED BY <2>1, <2>2, <2>3 DEF WritersOK
<1>4. CASE RunMerge \/ RunMergeRaises
  <2>1. pc \in Merging /\ pc # "training" /\ pc # "dead"
    BY <1>4 DEF RunMerge, RunMergeRaises, Merging
  <2>2. UNCHANGED <<att, train>>
    BY <1>4 DEF RunMerge, RunMergeRaises
  <2>3. \A a \in Attempts : mg'[a] = mg[a]
    BY <1>4, MergeSteps DEF RunMerge, RunMergeRaises
  <2>4. mg'[0].at # "idle" => pc' = pc
    BY <1>4, MergeSteps DEF RunMerge, RunMergeRaises
  <2>5. \A a \in Attempts : train[a] # "off" => a # att
    BY <2>1 DEF WritersOK
  <2> QED BY <2>1, <2>2, <2>3, <2>4, <2>5 DEF WritersOK
<1>5. ASSUME NEW a \in Attempts, TrainMerge(a) \/ TrainMergeRaises(a)
      PROVE WritersOK'
  <2>1. train[a] \in {"set_model", "progress"} /\ UNCHANGED <<pc, att>>
    BY <1>5 DEF TrainMerge, TrainMergeRaises, run
  <2>2. \A w \in Writers \ {a} : mg'[w] = mg[w]
    BY <1>5, MergeSteps DEF TrainMerge, TrainMergeRaises
  <2>3. mg'[a].at # "idle" => train'[a] = train[a]
    BY <1>5, MergeSteps DEF TrainMerge, TrainMergeRaises
  <2>4. \A b \in Attempts \ {a} : train'[b] = train[b]
    BY <1>5 DEF TrainMerge, TrainMergeRaises, TypeOK
  <2> QED BY <2>1, <2>2, <2>3, <2>4 DEF WritersOK
<1>6. ASSUME NEW a \in Attempts, EmitProgress(a) PROVE WritersOK'
  BY <1>6 DEF EmitProgress, run, file, WritersOK, TypeOK
<1>7. ASSUME NEW a \in Attempts, TrainEnds(a) PROVE WritersOK'
  <2>1. train'[a] = "off" /\ mg'[a].at = "idle" /\ att' = att
    BY <1>7 DEF TrainEnds, TypeOK, Idle, Exits, run
  <2>2. (\A w \in Writers \ {a} : mg'[w] = mg[w]) /\ \A b \in Attempts \ {a} : train'[b] = train[b]
    BY <1>7 DEF TrainEnds, TypeOK
  <2>3. pc' = pc \/ (pc = "training" /\ a = att)
    BY <1>7 DEF TrainEnds, run
  <2> QED BY <2>1, <2>2, <2>3 DEF WritersOK, Merging
<1>8. CASE Die \/ CutOff
  <2>1. Killed
    BY <1>8 DEF Die, CutOff
  <2>2. mg'[0].at = "idle" /\ att' = att /\ pc' = "dead"
    BY <2>1 DEF Killed, TypeOK, Idle
  <2>3. \A a \in Attempts : /\ mg'[a].at # "idle" => mg'[a] = mg[a] /\ train'[a] = train[a]
                            /\ train'[a] # "off" => train'[a] = train[a]
    BY <2>1 DEF Killed, TypeOK, Idle
  <2> QED BY <2>2, <2>3 DEF WritersOK
<1>9. CASE StartTraining
  <2>1. pc = "execute" /\ pc' = "training" /\ att' = att /\ mg' = mg /\ att \in Attempts
    BY <1>9 DEF StartTraining, At, file, LoopOK
  <2>2. train' = [train EXCEPT ![att] = "set_model"]
    BY <1>9 DEF StartTraining
  <2> QED BY <1>1, <2>1, <2>2 DEF WritersOK, Merging, TypeOK
\* The other steps of run_all move it between positions without a merge.
<1>10. CASE pc \notin Merging \cup {"training", "dead"} /\ UNCHANGED <<att, mg, train>>
  BY <1>10 DEF WritersOK
<1> QED BY <1>2, <1>3, <1>4, <1>5, <1>6, <1>7, <1>8, <1>9, <1>10 DEF Next, RunSteps, TrainSteps,
     MirrorCache, MirrorFinish, EmitRunning, EmitOutcome, ExecuteOther, DeleteRow, InsertRow,
     UpdateRow, BuildCache, RegisterArtifacts, StageFails, WatchPoll, WatchStops, Exits, At, run,
     file, vars, Merging

\* Only the start of an attempt changes its number and what is known of the
\* ones before it.
LEMMA Frame ==
  ASSUME [Next]_vars, ~Begin
  PROVE UNCHANGED <<att, sel, disturbed>>
<1>1. CASE RunSteps
  BY <1>1 DEF RunSteps, RunMerge, RunMergeRaises, MirrorCache, MirrorFinish, EmitRunning,
     EmitOutcome, ExecuteOther, DeleteRow, InsertRow, UpdateRow, BuildCache, RegisterArtifacts,
     StartTraining, Exits
<1>2. CASE StageFails \/ Die \/ CutOff
  BY <1>2 DEF StageFails, Die, CutOff, Killed, Exits
<1>3. ASSUME NEW a \in Attempts, TrainSteps(a) PROVE UNCHANGED <<att, sel, disturbed>>
  BY <1>3 DEF TrainSteps, TrainMerge, TrainMergeRaises, EmitProgress, TrainEnds, Exits, run
<1>4. CASE WatchPoll \/ WatchStops \/ UNCHANGED vars
  BY <1>4 DEF WatchPoll, WatchStops, run, vars
<1> QED BY <1>1, <1>2, <1>3, <1>4 DEF Next

\* The steps that leave the files and the trainings alone.
StillSteps ==
  \/ EmitRunning \/ EmitOutcome \/ MirrorCache \/ MirrorFinish
  \/ ExecuteOther \/ DeleteRow \/ InsertRow \/ BuildCache \/ RegisterArtifacts \/ UpdateRow
  \/ StageFails \/ WatchPoll \/ WatchStops \/ UNCHANGED vars

LEMMA Still ==
  ASSUME StillSteps
  PROVE /\ UNCHANGED <<st, tmp, mg, train>>
        /\ pc \in Merging \cup {"training"} => UNCHANGED <<pc, idx, results, crumb>>
BY DEF StillSteps, EmitRunning, EmitOutcome, MirrorCache, MirrorFinish, ExecuteOther, DeleteRow,
  InsertRow, BuildCache, RegisterArtifacts, UpdateRow, StageFails, WatchPoll, WatchStops, At,
  Exits, Merging, run, file, vars

LEMMA QuietNext ==
  ASSUME TypeOK, LoopOK, WritersOK, ~disturbed => Quiet, [Next]_vars
  PROVE ~disturbed' => Quiet'
<1> SUFFICES ASSUME ~disturbed' PROVE Quiet'
  OBVIOUS
<1> USE WriterSets
<1>1. CASE Begin
  <2>1. \A a \in Attempts : train[a] = "off" /\ mg[a].at = "idle"
    BY <1>1 DEF Begin, WritersOK
  <2>2. mg[0].at = "idle" /\ mg' = mg /\ train' = train
    BY <1>1 DEF Begin, WritersOK, Over, Merging, file
  <2> QED BY <2>1, <2>2 DEF Quiet
<1>2. CASE ~Begin
  <2>1. UNCHANGED <<att, sel, disturbed>>
    BY <1>2, Frame
  <2>2. Quiet
    BY <2>1
  <2>3. \A a \in Attempts : train[a] # "off" => a = att
    BY <2>2 DEF Quiet
  <2>4. CASE RunMerge \/ RunMergeRaises
    <3>1. pc \in Merging /\ UNCHANGED <<train, results, crumb>>
      BY <2>4 DEF RunMerge, RunMergeRaises
    <3>2. \A a \in Attempts : train[a] = "off" /\ mg[a].at = "idle" /\ mg'[a] = mg[a]
      BY <2>3, <2>4, <3>1, MergeSteps DEF RunMerge, RunMergeRaises, WritersOK, Merging
    <3>3. mg'[0].at # "idle" => UNCHANGED <<pc, idx>>
      BY <2>4, MergeSteps DEF RunMerge, RunMergeRaises
    <3>4. mg'[0].at # "idle" => Change' = Change
      BY <2>1, <3>1, <3>3 DEF Change, Stage, Outcome, Success, Selected
    <3>5. mg'[0].at # "idle" =>
            mg'[0].copy = Merged(st', Change) /\ (mg'[0].at = "written" => tmp' = mg'[0].copy)
      <4>1. CASE MergeRead(0, Change)
        BY <4>1, MergeSteps
      <4>2. CASE MergeWrite(0)
        BY <2>2, <4>2, MergeSteps DEF Quiet
      <4>3. CASE MergeReplace(0) \/ MergeRaises(0)
        BY <4>3, MergeSteps
      <4> QED BY <2>4, <4>1, <4>2, <4>3 DEF RunMerge, RunMergeRaises
    <3> QED BY <2>3, <2>1, <3>1, <3>2, <3>4, <3>5 DEF Quiet
  <2>5. ASSUME NEW a \in Attempts, TrainMerge(a) \/ TrainMergeRaises(a) PROVE Quiet'
    <3>1. train[a] # "off" /\ a = att /\ pc \notin Merging
      BY <2>3, <2>5 DEF TrainMerge, TrainMergeRaises, WritersOK, Merging
    <3>2. \A w \in Writers \ {a} : mg[w].at = "idle" /\ mg'[w] = mg[w]
      BY <2>3, <2>5, <3>1, MergeSteps DEF TrainMerge, TrainMergeRaises, WritersOK
    <3>3. \A b \in Attempts \ {a} : train'[b] = train[b]
      BY <2>5 DEF TrainMerge, TrainMergeRaises, TypeOK
    <3>4. mg'[a].at # "idle" => TrainChange(a)' = TrainChange(a)
      BY <2>5, MergeSteps DEF TrainMerge, TrainMergeRaises, TrainChange
    <3>5. mg'[a].at # "idle" =>
            mg'[a].copy = Merged(st', TrainChange(a))
            /\ (mg'[a].at = "written" => tmp' = mg'[a].copy)
      <4>1. CASE MergeRead(a, TrainChange(a))
        BY <4>1, MergeSteps
      <4>2. CASE MergeWrite(a)
        BY <2>2, <4>2, MergeSteps DEF Quiet
      <4>3. CASE MergeReplace(a) \/ MergeRaises(a)
        BY <4>3, MergeSteps
      <4> QED BY <2>5, <4>1, <4>2, <4>3 DEF TrainMerge, TrainMergeRaises
    <3> QED BY <2>1, <2>3, <3>1, <3>2, <3>3, <3>4, <3>5 DEF Quiet
  <2>6. ASSUME NEW a \in Attempts, EmitProgress(a) PROVE Quiet'
    <3>1. mg' = mg /\ st' = st /\ tmp' = tmp /\ pc' = pc /\ att' = att
      BY <2>6 DEF EmitProgress, file, run
    <3>2. a = att /\ mg[a].at = "idle" /\ pc \notin Merging /\ mg[0].at = "idle"
      BY <2>3, <2>6 DEF EmitProgress, WritersOK, Merging
    <3>3. \A b \in Attempts \ {a} : train'[b] = train[b] /\ mg[b].at = "idle"
      BY <2>3, <2>6, <3>2 DEF EmitProgress, TypeOK, WritersOK
    <3> QED BY <2>3, <3>1, <3>2, <3>3 DEF Quiet
  <2>7. ASSUME NEW a \in Attempts, TrainEnds(a) PROVE Quiet'
    <3>1. train[a] # "off"
      BY <2>7 DEF TrainEnds
    <3>2. a = att /\ pc \notin Merging /\ mg[0].at = "idle"
      BY <2>3, <3>1 DEF WritersOK, Merging
    <3>3. \A b \in Attempts \ {a} : train'[b] = "off" /\ mg'[b] = mg[b] /\ mg[b].at = "idle"
      BY <2>3, <2>7, <3>2 DEF TrainEnds, TypeOK, WritersOK
    <3>4. mg'[a].at = "idle" /\ train'[a] = "off" /\ mg'[0] = mg[0]
      BY <2>7 DEF TrainEnds, TypeOK, Idle
    <3> QED BY <3>2, <3>3, <3>4 DEF Quiet
  <2>8. CASE Die \/ CutOff
    <3>1. Killed /\ st' = st /\ tmp' = tmp
      BY <2>8 DEF Die, CutOff, Killed
    <3>2. mg'[0].at = "idle"
      BY <3>1 DEF Killed, TypeOK, Idle
    <3>3. \A a \in Attempts :
            /\ train'[a] # "off" => train[a] # "off"
            /\ mg'[a].at # "idle" => mg'[a] = mg[a] /\ train'[a] = train[a]
      BY <3>1 DEF Killed, TypeOK, Idle
    <3>4. \A a \in Attempts : mg'[a].at # "idle" => TrainChange(a)' = TrainChange(a)
      BY <3>3 DEF TrainChange
    <3> QED BY <2>1, <2>2, <3>1, <3>2, <3>3, <3>4 DEF Quiet
  <2>9. CASE StartTraining
    <3>1. /\ pc = "execute" /\ mg' = mg /\ st' = st /\ tmp' = tmp
          /\ train' = [train EXCEPT ![att] = "set_model"]
      BY <2>9 DEF StartTraining, At, file
    <3>2. \A a \in Attempts : train[a] = "off"
      BY <2>3, <3>1 DEF WritersOK
    <3>3. \A w \in Writers : mg[w].at = "idle"
      BY <3>1, <3>2 DEF WritersOK, Merging
    <3> QED BY <2>1, <3>1, <3>2, <3>3 DEF Quiet, TypeOK
  <2>10. CASE StillSteps
    <3>1. UNCHANGED <<st, tmp, mg, train>>
      BY <2>10, Still
    <3>2. mg[0].at # "idle" => UNCHANGED <<pc, idx, results, crumb>>
      BY <2>10, Still DEF WritersOK
    <3>3. mg[0].at # "idle" => Change' = Change
      BY <2>1, <3>2 DEF Change, Stage, Outcome, Success, Selected
    <3>4. \A a \in Attempts : TrainChange(a)' = TrainChange(a)
      BY <3>1 DEF TrainChange
    <3> QED BY <2>1, <2>2, <3>1, <3>3, <3>4 DEF Quiet
  <2> QED BY <1>2, <2>4, <2>5, <2>6, <2>7, <2>8, <2>9, <2>10 DEF Next, RunSteps, TrainSteps,
       StillSteps
<1> QED BY <1>1, <1>2

(***************************************************************************)
(* What status.json says.                                                  *)
(***************************************************************************)
\* What a rename of run_all leaves of the file, position by position.
LEMMA ReplaceFacts ==
  ASSUME TypeOK, LoopOK, Quiet, pc \in Merging, MergeReplace(0)
  PROVE /\ pc = "init_run" => st' = Seed
        /\ pc # "init_run" =>
             /\ st'.model = st.model /\ st'.iter = st.iter
             /\ st'.cache = IF pc = "set_tile_cache" THEN crumb ELSE st.cache
             /\ pc = "finish" => st'.status = Outcome
<1>1. st' = Merged(st, Change)
  BY WriterSets, MergeSteps DEF Quiet
<1>2. st \in Status
  BY DEF TypeOK
<1>3. CASE pc = "init_run"
  <2>1. Change = Seed
    BY <1>3, ChangeFacts
  <2> QED BY <1>1, <1>2, <1>3, <2>1, MergeFacts
<1>4. CASE pc = "set_current_stage"
  <2>1. Change = [stage |-> Stage]
    BY <1>4, ChangeFacts
  <2>2. st' = [st EXCEPT !.stage = Stage]
    BY <1>1, <1>2, <2>1, MergeFacts
  <2> QED BY <1>2, <1>4, <2>2 DEF Status
<1>5. CASE pc = "merge_running"
  <2>1. Change = [status |-> "running", stage |-> Stage]
    BY <1>5, ChangeFacts
  <2>2. st' = [status |-> "running", stage |-> Stage, cache |-> st.cache, model |-> st.model,
               iter |-> st.iter]
    BY <1>1, <1>2, <2>1, MergeStageStatus
  <2> QED BY <1>5, <2>2
<1>6. CASE pc = "merge_outcome"
  <2>1. Change = [status |-> results[Stage], stage |-> Stage]
    BY <1>6, ChangeFacts
  <2>2. st' = [status |-> results[Stage], stage |-> Stage, cache |-> st.cache,
               model |-> st.model, iter |-> st.iter]
    BY <1>1, <1>2, <2>1, MergeStageStatus
  <2> QED BY <1>6, <2>2
<1>7. CASE pc = "set_tile_cache"
  <2>1. Change = [cache |-> crumb]
    BY <1>7, ChangeFacts
  <2>2. st' = [st EXCEPT !.cache = crumb]
    BY <1>1, <1>2, <2>1, MergeFacts
  <2> QED BY <1>2, <1>7, <2>2 DEF Status
<1>8. CASE pc = "finish"
  <2>1. Change = [status |-> Outcome]
    BY <1>8, ChangeFacts
  <2>2. st' = [st EXCEPT !.status = Outcome]
    BY <1>1, <1>2, <2>1, MergeFacts
  <2> QED BY <1>2, <1>8, <2>2 DEF Status
<1> QED BY <1>3, <1>4, <1>5, <1>6, <1>7, <1>8 DEF Merging

\* What a rename of a training leaves of the file.
LEMMA TrainReplaceFacts ==
  ASSUME TypeOK, Quiet, NEW a \in Attempts, MergeReplace(a)
  PROVE /\ st'.cache = st.cache /\ st'.status = st.status
        /\ st'.model \in {st.model, a} /\ st'.iter \in {st.iter, 1}
<1>1. st' = Merged(st, TrainChange(a))
  BY WriterSets, MergeSteps DEF Quiet
<1>2. st \in Status
  BY DEF TypeOK
<1> QED BY <1>1, <1>2, TrainChangeFacts DEF Status

LEMMA RecordNext ==
  ASSUME TypeOK, LoopOK, WritersOK, ~disturbed => Quiet /\ RecordOK, [Next]_vars
  PROVE ~disturbed' => RecordOK'
<1> SUFFICES ASSUME ~disturbed' PROVE RecordOK'
  OBVIOUS
<1> USE WriterSets
<1>1. CASE Begin
  BY <1>1 DEF Begin, RecordOK
<1>2. CASE ~Begin
  <2>1. UNCHANGED <<att, sel, disturbed>>
    BY <1>2, Frame
  <2>2. Quiet /\ RecordOK
    BY <2>1
  <2>3. \A a \in Attempts : train[a] # "off" => a = att /\ pc \in {"training", "dead"}
    BY <2>2 DEF Quiet, WritersOK
  \* A step inside one position, which leaves the file or lets the training write.
  <2>4. ASSUME UNCHANGED <<pc, idx, results>>, st'.cache = st.cache, st'.status = st.status,
               st'.model \in {st.model, att},
               (\E a \in Attempts : train'[a] # "off") => \E a \in Attempts : train[a] # "off"
        PROVE RecordOK'
    <3>1. (Open' <=> Open) /\ Outcome' = Outcome
      BY <2>1, <2>4 DEF Open, Stage, Outcome, Success, Selected
    <3> QED BY <2>1, <2>2, <2>4, <3>1 DEF RecordOK
  \* A step between two positions that closes nothing.
  <2>5. ASSUME pc \notin {"off", "init_run", "dead"}, UNCHANGED <<results, st>>, (Open' <=> Open),
               pc' \in {"mirror_finish", "done"} => pc \in {"mirror_finish", "done"}
        PROVE RecordOK'
    <3>1. Outcome' = Outcome
      BY <2>1, <2>5 DEF Outcome, Success, Selected
    <3> QED BY <2>1, <2>2, <2>5, <3>1 DEF RecordOK
  \* A subprocess exits.
  <2>6. ASSUME NEW v \in {"success", "failed"}, Exits(v), st' = st,
               pc \in {"execute", "insert_row", "training"}
        PROVE RecordOK'
    <3>1. pc' = "emit_outcome" /\ idx' = idx /\ results' = [results EXCEPT ![Stage] = v]
      BY <2>6 DEF Exits
    <3>2. ~Open /\ Stage' = Stage /\ results[Stage] = "none"
      BY <2>1, <2>6, <3>1, SelFacts DEF Open, Stage, LoopOK, Ahead, AtStage, Working, TypeOK
    <3>3. st.model \in {0, att} /\ st.cache = IF results[B] = "success" THEN att ELSE 0
      BY <2>2, <2>6, <3>2 DEF RecordOK
    <3>4. CASE Stage = B
      BY <2>1, <2>6, <3>1, <3>2, <3>3, <3>4, Names DEF RecordOK, Open, TypeOK
    <3>5. CASE Stage # B
      BY <2>1, <2>6, <3>1, <3>2, <3>3, <3>5, Names DEF RecordOK, Open, TypeOK
    <3> QED BY <3>4, <3>5
  <2>7. CASE RunMerge /\ UNCHANGED <<pc, idx>>
    <3>1. UNCHANGED <<results, train>> /\ pc \in Merging
      BY <2>7 DEF RunMerge
    <3>2. CASE MergeRead(0, Change) \/ MergeWrite(0)
      <4>1. st' = st
        BY <3>2, MergeSteps
      <4> QED BY <2>4, <2>7, <3>1, <4>1
    <3>3. CASE MergeReplace(0) /\ pc' = AfterMerge
      BY <2>7, <3>1, <3>3 DEF AfterMerge, Merging, StageOrFinish
    <3> QED BY <2>7, <3>2, <3>3 DEF RunMerge
  <2>8. CASE RunMerge /\ ~UNCHANGED <<pc, idx>>
    <3>1. /\ pc \in Merging /\ MergeReplace(0) /\ pc' = AfterMerge /\ UNCHANGED <<results, crumb>>
          /\ idx' = IF pc = "merge_outcome" /\ ~TracksCache THEN idx + 1 ELSE idx
      BY <2>8 DEF RunMerge
    <3>2. Outcome' = Outcome
      BY <2>1, <3>1 DEF Outcome, Success, Selected
    <3>3. CASE pc = "init_run"
      <4>1. pc' \in {"set_current_stage", "finish"} /\ results[B] = "none"
        BY <3>1, <3>3, Names DEF AfterMerge, StageOrFinish, LoopOK
      <4>2. st' = Seed
        BY <2>2, <3>1, <3>3, ReplaceFacts
      <4>3. st'.model = 0 /\ st'.cache = 0
        BY <4>2 DEF Seed, NoStatus
      <4> QED BY <3>1, <4>1, <4>3 DEF RecordOK
    <3>4. CASE pc \in {"set_current_stage", "merge_running", "finish"}
      <4>1. pc' \in {"emit_running", "execute", "mirror_finish"}
            /\ (pc' = "mirror_finish" => pc = "finish")
        BY <3>1, <3>4 DEF AfterMerge
      <4>2. ~Open /\ ~Open'
        BY <3>4, <4>1 DEF Open
      <4>3. st'.model = st.model /\ st'.cache = st.cache
            /\ (pc = "finish" => st'.status = Outcome)
        BY <2>2, <3>1, <3>4, ReplaceFacts
      <4> QED BY <2>1, <2>2, <3>1, <3>2, <3>4, <4>1, <4>2, <4>3 DEF RecordOK
    <3>5. CASE pc = "merge_outcome"
      <4>1. st'.model = st.model /\ st'.cache = st.cache
        BY <2>2, <3>1, <3>5, ReplaceFacts
      <4>2. pc' \in {"set_tile_cache", "set_current_stage", "finish"}
        BY <3>1, <3>5 DEF AfterMerge, StageOrFinish
      <4>3. (Open' <=> Open)
        <5>1. CASE TracksCache
          <6>1. pc' = "set_tile_cache" /\ idx' = idx
            BY <3>1, <3>5, <5>1 DEF AfterMerge
          <6>2. Stage' = Stage
            BY <2>1, <6>1 DEF Stage
          <6> QED BY <3>1, <3>5, <6>1, <6>2 DEF Open, B
        <5>2. CASE ~TracksCache
          <6>1. pc' \in {"set_current_stage", "finish"}
            BY <3>1, <3>5, <5>2 DEF AfterMerge, StageOrFinish
          <6>2. ~Open /\ ~Open'
            BY <5>2, <6>1 DEF Open, TracksCache, B
          <6> QED BY <6>2
        <5> QED BY <5>1, <5>2
      <4> QED BY <2>1, <2>2, <3>1, <3>5, <4>1, <4>2, <4>3 DEF RecordOK
    <3>6. CASE pc = "set_tile_cache"
      <4>1. pc' = "mirror_cache" /\ results[B] = "success" /\ crumb = att
        BY <3>1, <3>6 DEF AfterMerge, LoopOK, TracksCache, B
      <4>2. st'.model = st.model /\ st'.cache = crumb
        BY <2>2, <3>1, <3>6, ReplaceFacts
      <4>3. ~Open'
        BY <4>1 DEF Open
      <4> QED BY <2>1, <2>2, <3>1, <3>6, <4>1, <4>2, <4>3 DEF RecordOK
    <3> QED BY <3>1, <3>3, <3>4, <3>5, <3>6 DEF Merging
  <2>9. CASE RunMergeRaises \/ Die \/ CutOff
    <3>1. pc' = "dead" /\ st' = st /\ idx' = idx /\ results' = results /\ pc \in Working
      BY <2>9, MergeSteps DEF RunMergeRaises, Die, CutOff, Killed, Working
    <3>2. \A a \in Attempts : train'[a] # "off" => train[a] # "off"
      BY <2>9 DEF RunMergeRaises, Die, CutOff, Killed
    <3>3. CASE \A a \in Attempts : train[a] = "off"
      BY <3>1, <3>2, <3>3 DEF RecordOK
    <3>4. CASE \E a \in Attempts : train[a] # "off"
      <4>1. pc = "training"
        BY <2>3, <3>1, <3>4 DEF Working, Merging
      <4>2. ~Open /\ ~Open'
        BY <3>1, <4>1 DEF Open
      <4> QED BY <2>1, <2>2, <3>1, <4>1, <4>2 DEF RecordOK
    <3> QED BY <3>3, <3>4
  <2>10. ASSUME NEW a \in Attempts, TrainMerge(a) \/ TrainMergeRaises(a) PROVE RecordOK'
    <3>1. train[a] # "off" /\ a = att /\ UNCHANGED <<pc, idx, results>>
      BY <2>3, <2>10 DEF TrainMerge, TrainMergeRaises, run
    <3>2. /\ st'.cache = st.cache /\ st'.status = st.status
          /\ st'.model \in {st.model, att}
      BY <2>2, <2>10, <3>1, MergeSteps, TrainReplaceFacts DEF TrainMerge, TrainMergeRaises
    <3> QED BY <2>4, <3>1, <3>2
  <2>11. ASSUME NEW a \in Attempts, EmitProgress(a) PROVE RecordOK'
    <3>1. train[a] # "off" /\ UNCHANGED <<pc, idx, results, st>>
      BY <2>11 DEF EmitProgress, run, file
    <3> QED BY <2>4, <3>1
  <2>12. ASSUME NEW a \in Attempts, TrainEnds(a) PROVE RecordOK'
    <3>1. a = att /\ pc \in {"training", "dead"} /\ st' = st
      BY <2>3, <2>12 DEF TrainEnds
    <3>2. CASE pc = "training"
      BY <2>6, <2>12, <3>1, <3>2 DEF TrainEnds
    <3>3. CASE pc = "dead"
      <4>1. pc' = "dead" /\ train'[a] = "off"
            /\ \A b \in Attempts \ {a} : train'[b] = train[b]
        BY <2>12, <3>3 DEF TrainEnds, run, TypeOK
      <4> QED BY <2>3, <3>1, <4>1 DEF RecordOK
    <3> QED BY <3>1, <3>2, <3>3
  <2>13. CASE EmitRunning \/ EmitOutcome \/ MirrorFinish \/ StartTraining
    <3>1. UNCHANGED <<idx, results, st>>
      BY <2>13 DEF EmitRunning, EmitOutcome, MirrorFinish, StartTraining, file
    <3>2. \/ pc = "emit_outcome" /\ pc' = "merge_outcome"
          \/ <<pc, pc'>> \in {<<"emit_running", "merge_running">>, <<"mirror_finish", "done">>,
                             <<"execute", "training">>}
      BY <2>13 DEF EmitRunning, EmitOutcome, MirrorFinish, StartTraining, At
    <3>3. (Open' <=> Open)
      BY <2>1, <3>1, <3>2 DEF Open, Stage
    <3> QED BY <2>5, <3>1, <3>2, <3>3
  <2>14. CASE MirrorCache
    <3>1. pc = "mirror_cache" /\ pc' \in {"set_current_stage", "finish"}
          /\ UNCHANGED <<results, st>>
      BY <2>14 DEF MirrorCache, StageOrFinish, file
    <3>2. ~Open /\ ~Open'
      BY <3>1 DEF Open
    <3> QED BY <2>5, <3>1, <3>2
  <2>15. CASE DeleteRow /\ pc' = "insert_row"
    <3>1. pc = "execute" /\ UNCHANGED <<results, st>>
      BY <2>15 DEF DeleteRow, At, Exits, file
    <3>2. ~Open /\ ~Open'
      BY <2>15, <3>1 DEF Open
    <3> QED BY <2>5, <2>15, <3>1, <3>2
  <2>16. CASE \/ DeleteRow /\ pc' # "insert_row"
              \/ ExecuteOther \/ InsertRow \/ BuildCache \/ RegisterArtifacts \/ UpdateRow
              \/ StageFails
    <3>1. pc \in {"execute", "insert_row"} /\ st' = st /\ (Exits("success") \/ Exits("failed"))
      BY <2>16 DEF DeleteRow, ExecuteOther, InsertRow, BuildCache, RegisterArtifacts, UpdateRow,
         StageFails, At, file
    <3> QED BY <2>6, <3>1
  <2>17. CASE WatchPoll \/ WatchStops \/ UNCHANGED vars
    <3>1. UNCHANGED <<pc, idx, results, st, train>>
      BY <2>17 DEF WatchPoll, WatchStops, run, file, vars
    <3> QED BY <2>4, <3>1
  <2>18. CASE RunSteps
    BY <2>7, <2>8, <2>9, <2>13, <2>14, <2>15, <2>16, <2>18 DEF RunSteps
  <2>19. ASSUME NEW a \in Attempts, TrainSteps(a) PROVE RecordOK'
    BY <2>10, <2>11, <2>12, <2>19 DEF TrainSteps
  <2> QED BY <1>2, <2>9, <2>16, <2>17, <2>18, <2>19 DEF Next
<1> QED BY <1>1, <1>2

THEOREM Inductive == Spec => []IInv
<1>1. Init => IInv
  <2>1. Init => TypeOK /\ LoopOK
    BY TypeInit
  <2>2. Init => WritersOK /\ Quiet /\ RecordOK
    BY WriterSets DEF Init, WritersOK, Quiet, RecordOK, Idle
  <2> QED BY <2>1, <2>2 DEF IInv
<1>2. IInv /\ [Next]_vars => IInv'
  <2> SUFFICES ASSUME IInv, [Next]_vars PROVE IInv'
    OBVIOUS
  <2>1. TypeOK /\ LoopOK /\ WritersOK /\ (~disturbed => Quiet /\ RecordOK)
    BY DEF IInv
  <2>2. TypeOK' /\ LoopOK'
    BY <2>1, TypeNext, LoopNext
  <2>3. WritersOK'
    BY <2>1, WritersNext
  <2>4. ~disturbed' => Quiet'
    BY <2>1, QuietNext
  <2>5. ~disturbed' => RecordOK'
    BY <2>1, RecordNext
  <2> QED BY <2>2, <2>3, <2>4, <2>5 DEF IInv
<1> QED BY <1>1, <1>2, PTL DEF Spec

\* When run_all has returned, status.json holds the outcome and the cache of
\* that attempt (status_tracker.py:129-155).
THEOREM LastWordHolds == Spec => []LastWord
<1>1. IInv => LastWord
  <2>1. pc = "done" => ~Open
    BY DEF Open
  <2> QED BY <2>1 DEF IInv, RecordOK, LastWord, B
<1> QED BY <1>1, Inductive, PTL

\* No merge undoes the cache, the model or the progress another one has set
\* in the attempt (status_tracker.py:17-19).
THEOREM NoClobberHolds == Spec => NoClobber
<1> DEFINE Kept == att' = att /\ ~disturbed /\ pc # "init_run" =>
                     \A f \in {"cache", "model", "iter"} : st[f] # 0 => st'[f] = st[f]
<1>1. IInv /\ [Next]_vars => [Kept]_vars
  <2> SUFFICES ASSUME IInv, [Next]_vars, att' = att, ~disturbed, pc # "init_run",
                      NEW f \in {"cache", "model", "iter"}, st[f] # 0
               PROVE st'[f] = st[f]
    OBVIOUS
  <2> USE WriterSets
  <2>1. TypeOK /\ LoopOK /\ WritersOK /\ Quiet /\ RecordOK
    BY DEF IInv
  <2>2. CASE RunMerge /\ MergeReplace(0)
    <3>1. pc \in Merging /\ pc # "init_run"
      BY <2>2 DEF RunMerge
    <3>2. /\ st'.model = st.model /\ st'.iter = st.iter
          /\ st'.cache = IF pc = "set_tile_cache" THEN crumb ELSE st.cache
      BY <2>1, <2>2, <3>1, ReplaceFacts
    <3>3. pc = "set_tile_cache" => Open
      BY <2>1 DEF LoopOK, Open, TracksCache, B
    <3>4. pc = "set_tile_cache" => st.cache = 0
      BY <2>1, <3>3 DEF RecordOK
    <3> QED BY <3>2, <3>4
  <2>3. ASSUME NEW a \in Attempts, TrainMerge(a) /\ MergeReplace(a) PROVE st'[f] = st[f]
    <3>1. a = att /\ pc \in {"training", "dead"} /\ train[a] # "off"
      BY <2>1, <2>3 DEF Quiet, WritersOK, TrainMerge
    <3>2. st.model \in {0, att} /\ st.iter \in {0, 1}
      BY <2>1, <3>1 DEF RecordOK, TypeOK, Status
    <3>3. /\ st'.cache = st.cache
          /\ st'.model \in {st.model, a} /\ st'.iter \in {st.iter, 1}
      BY <2>1, <2>3, TrainReplaceFacts
    <3> QED BY <3>1, <3>2, <3>3
  <2>4. CASE \/ RunMerge /\ ~MergeReplace(0)
             \/ RunMergeRaises
             \/ \E a \in Attempts : (TrainMerge(a) /\ ~MergeReplace(a)) \/ TrainMergeRaises(a)
    BY <2>1, <2>4, MergeSteps DEF RunMerge, RunMergeRaises, TrainMerge, TrainMergeRaises
  <2>5. CASE StillSteps
    BY <2>5, Still
  <2>6. CASE Begin \/ StartTraining \/ Die \/ CutOff
             \/ \E a \in Attempts : EmitProgress(a) \/ TrainEnds(a)
    BY <2>6 DEF Begin, StartTraining, Die, CutOff, Killed, EmitProgress, TrainEnds, file
  <2> QED BY <2>2, <2>3, <2>4, <2>5, <2>6 DEF Next, RunSteps, TrainSteps, StillSteps
<1> QED BY <1>1, Inductive, PTL DEF Spec, NoClobber

(***************************************************************************)
(* What the row of the run says.                                           *)
(***************************************************************************)
U == "update_pipeline_run_status"

\* Between the update stage and the end nobody touches the status of the row.
RowOK ==
  /\ \A s \in StageNames : results[s] # "none" => s \in Selected
  /\ results[U] = "success" /\ row # NoRow /\ pc # "done" => row.status = "success"
  /\ RegistryClosed

LEMMA CanonicalFacts ==
  Canonical("create_pipeline_run") = 3 /\ Canonical(U) = 14
BY DEF Canonical, STAGES_ORDER, U

\* While the row is being created, the update stage is still to come.
LEMMA UpdateIsLater ==
  ASSUME TypeOK, LoopOK, RowOK, pc \in {"execute", "insert_row"},
         Stage = "create_pipeline_run"
  PROVE results[U] = "none"
<1>1. idx \in DOMAIN sel /\ DOMAIN sel = 1..Len(sel) /\ Len(sel) \in Nat /\ idx \in Nat
      /\ sel \in Selections
  BY SelFacts DEF TypeOK, LoopOK, AtStage, Working
<1>2. U \in StageNames
  BY DEF U, StageNames, STAGES_ORDER
<1>3. CASE U \notin Selected
  BY <1>2, <1>3 DEF RowOK
<1>4. CASE U \in Selected
  <2>1. PICK j \in DOMAIN sel : sel[j] = U
    BY <1>4 DEF Selected
  <2>2. j \in Nat /\ Canonical(sel[j]) = 14 /\ Canonical(sel[idx]) = 3
    BY <1>1, <2>1, CanonicalFacts DEF Stage
  <2>3. ~(j < idx)
    BY <1>1, <2>1, <2>2, ConstantsAssumption
  <2>4. j >= idx
    BY <1>1, <2>2, <2>3
  <2> QED BY <2>1, <2>4 DEF LoopOK, Ahead
<1> QED BY <1>3, <1>4

LEMMA RowNext ==
  ASSUME TypeOK, LoopOK, RowOK, [Next]_vars
  PROVE RowOK'
<1>1. ASSUME UNCHANGED <<sel, results, row, missed>>, (pc' = "done") <=> (pc = "done")
      PROVE RowOK'
  BY <1>1 DEF RowOK, RegistryClosed, Selected, Outcome, Success
<1>2. CASE Begin
  BY <1>2 DEF Begin, RowOK, RegistryClosed, U, StageNames, STAGES_ORDER
\* A subprocess exits: that of the update, that of the creation, another one.
<1>3. ASSUME NEW v \in {"success", "failed"}, Exits(v), UNCHANGED missed,
             pc \in {"execute", "insert_row", "training"},
             Stage = U /\ v = "success" => row'.status = "success",
             Stage # U => row' = row \/ (Stage = "create_pipeline_run" /\ pc # "training")
      PROVE RowOK'
  <2>1. /\ pc' = "emit_outcome" /\ sel' = sel /\ idx \in DOMAIN sel
        /\ results' = [results EXCEPT ![Stage] = v]
    BY <1>3 DEF Exits, LoopOK, AtStage, Working
  <2>2. Stage \in Selected /\ Stage \in StageNames /\ U \in StageNames
    BY <2>1, SelFacts DEF Stage, Selected, TypeOK, U, StageNames, STAGES_ORDER
  <2>3. Selected' = Selected
    BY <2>1 DEF Selected
  <2>4. \A s \in StageNames : results'[s] # "none" => s \in Selected'
    BY <2>1, <2>2, <2>3 DEF RowOK, TypeOK
  <2>5. results'[U] = "success" /\ row' # NoRow => row'.status = "success"
    <3>1. CASE Stage = U
      BY <1>3, <2>1, <2>2, <3>1 DEF TypeOK
    <3>2. CASE Stage # U /\ row' = row
      BY <1>3, <2>1, <2>2, <3>2 DEF TypeOK, RowOK
    <3>3. CASE Stage # U /\ row' # row
      BY <1>3, <2>1, <2>2, <3>3, UpdateIsLater DEF TypeOK
    <3> QED BY <3>1, <3>2, <3>3
  <2> QED BY <2>1, <2>4, <2>5 DEF RowOK, RegistryClosed
<1>4. CASE ExecuteOther \/ BuildCache \/ RegisterArtifacts \/ StageFails
  <2>1. /\ pc \in {"execute", "insert_row"} /\ UNCHANGED <<row, missed>>
        /\ \/ Exits("failed")
           \/ Exits("success") /\ Stage # U
    BY <1>4 DEF ExecuteOther, BuildCache, RegisterArtifacts, StageFails, At, RecordStages, U, sql
  <2> QED BY <1>3, <2>1
<1>5. CASE DeleteRow /\ pc' # "insert_row"
  <2>1. pc = "execute" /\ UNCHANGED <<row, missed>> /\ Exits("failed")
    BY <1>5 DEF DeleteRow, At
  <2> QED BY <1>3, <2>1
<1>6. CASE DeleteRow /\ pc' = "insert_row"
  <2>1. /\ pc = "execute" /\ Stage = "create_pipeline_run"
        /\ UNCHANGED <<sel, results, missed>>
    BY <1>6 DEF DeleteRow, At, Exits
  <2>2. results[U] = "none"
    BY <2>1, UpdateIsLater
  <2> QED BY <1>6, <2>1, <2>2 DEF RowOK, RegistryClosed, Selected
<1>7. CASE InsertRow
  <2>1. pc = "insert_row" /\ Stage = "create_pipeline_run" /\ Exits("success") /\ missed' = missed
    BY <1>7 DEF InsertRow, LoopOK
  <2> QED BY <1>3, <2>1 DEF U
<1>8. CASE UpdateRow
  <2>1. /\ pc = "execute" /\ Stage = U /\ missed' = missed
        /\ \/ Exits("failed") /\ row' = row
           \/ Exits("success") /\ row' = [row EXCEPT !.status = "success"]
    BY <1>8 DEF UpdateRow, At, U
  <2>2. row \in [status : {"none", "running", "success", "failed"}, cache : Writers]
    BY DEF TypeOK
  <2> QED BY <1>3, <2>1, <2>2
<1>9. CASE MirrorCache
  <2>1. /\ pc = "mirror_cache" /\ pc' \in {"set_current_stage", "finish"}
        /\ UNCHANGED <<sel, results, missed>>
        /\ row' = row \/ (row # NoRow /\ row' = [row EXCEPT !.cache = crumb])
    BY <1>9 DEF MirrorCache, StageOrFinish
  <2>2. row'.status = row.status /\ (row' # NoRow => row # NoRow)
    BY <2>1 DEF TypeOK
  <2> QED BY <2>1, <2>2 DEF RowOK, RegistryClosed, Selected
<1>10. CASE MirrorFinish
  <2>1. /\ pc = "mirror_finish" /\ UNCHANGED <<sel, results>>
        /\ \/ row # NoRow /\ row' = [row EXCEPT !.status = Outcome]
           \/ row' = NoRow
           \/ row' = row /\ row # NoRow /\ missed' = TRUE
    BY <1>10 DEF MirrorFinish
  <2>2. Outcome' = Outcome /\ Selected' = Selected
    BY <2>1 DEF Outcome, Success, Selected
  <2>3. RegistryClosed'
    BY <1>10, <2>1, <2>2 DEF RegistryClosed, RowOK, TypeOK, U
  <2> QED BY <1>10, <2>1, <2>2, <2>3 DEF RowOK, MirrorFinish
<1>11. ASSUME NEW a \in Attempts, TrainSteps(a) PROVE RowOK'
  <2>1. CASE TrainEnds(a) /\ pc = "training" /\ a = att
    <3>1. Stage # U /\ UNCHANGED <<row, missed>> /\ (Exits("success") \/ Exits("failed"))
      BY <2>1 DEF TrainEnds, LoopOK, U, sql
    <3> QED BY <1>3, <2>1, <3>1
  <2>2. CASE ~(TrainEnds(a) /\ pc = "training" /\ a = att)
    BY <1>1, <1>11, <2>2 DEF TrainSteps, TrainMerge, TrainMergeRaises, EmitProgress, TrainEnds,
       run, sql
  <2> QED BY <2>1, <2>2
<1>12. CASE RunMerge
  <2>1. UNCHANGED <<sel, results, row, missed>> /\ pc \in Merging
    BY <1>12 DEF RunMerge, sql
  <2>2. pc # "done" /\ pc' # "done"
    BY <1>12, <2>1 DEF RunMerge, AfterMerge, StageOrFinish, Merging
  <2> QED BY <1>1, <2>1, <2>2
<1>13. CASE EmitRunning \/ EmitOutcome \/ StartTraining \/ RunMergeRaises \/ Die \/ CutOff
  <2>1. UNCHANGED <<sel, results, row, missed>> /\ pc \in Working /\ pc' # "done"
    BY <1>13 DEF EmitRunning, EmitOutcome, StartTraining, At, RunMergeRaises, Die, CutOff, Killed,
       Working, sql
  <2> QED BY <1>1, <2>1 DEF Working, Merging
<1>14. CASE WatchPoll \/ WatchStops \/ UNCHANGED vars
  BY <1>1, <1>14 DEF WatchPoll, WatchStops, run, sql, vars
<1> QED BY <1>2, <1>4, <1>5, <1>6, <1>7, <1>8, <1>9, <1>10, <1>11, <1>12, <1>13, <1>14
     DEF Next, RunSteps

\* When run_all has returned, the row of the run has its outcome, or, where the
\* last update of it failed, at worst the "success" of the update stage
\* (run_all.py:335-344, 166-168).
THEOREM RegistryClosedHolds == Spec => []RegistryClosed
<1>1. Init => RowOK
  BY DEF Init, RowOK, RegistryClosed, U, StageNames, STAGES_ORDER
<1>2. IInv /\ RowOK /\ [Next]_vars => RowOK'
  BY RowNext DEF IInv
<1>3. RowOK => RegistryClosed
  BY DEF RowOK
<1> QED BY <1>1, <1>2, <1>3, Inductive, PTL DEF Spec

(***************************************************************************)
(* What a viewer of the first attempt infers from the two files.  The log  *)
(* is right about every stage but the one at hand, and status.json names   *)
(* that one or an earlier one.                                             *)
(***************************************************************************)
Closed == {"merge_outcome", "set_tile_cache", "mirror_cache"}
Fresh == {"init_run", "set_current_stage", "emit_running"}
Doing == {"execute", "insert_row", "training"}

\* Before the first attempt there is nothing to see.
BeforeOK ==
  att = 0 =>
    /\ st = NoStatus /\ ~disturbed /\ sel = <<>>
    /\ \A s \in StageNames : latest[s] = "none"
    /\ \A a \in Attempts : train[a] = "off"

\* A training, also one that outlived run_all, is the stage run_all is at.
TrainerOK ==
  att = 1 =>
    /\ ~disturbed
    /\ \A a \in Attempts : train[a] # "off" => idx \in DOMAIN sel /\ Stage = "train_yolox"

LogOK ==
  att = 1 =>
    /\ \A i \in DOMAIN sel :
         /\ i < idx \/ (i = idx /\ pc \in Closed) =>
              results[sel[i]] # "none" /\ latest[sel[i]] = results[sel[i]]
         /\ i > idx \/ (i = idx /\ pc \in Fresh) => latest[sel[i]] = "none"
    /\ pc \in Doing \cup {"merge_running"} => latest[Stage] = "running"

FileOK ==
  att = 1 =>
    /\ pc \in Doing => st.stage = Stage /\ st.status = "running"
    /\ st.stage = NoStage \/ \E j \in DOMAIN sel : j <= idx /\ st.stage = sel[j]

ViewOK == BeforeOK /\ TrainerOK /\ LogOK /\ FileOK

\* The numbers the arguments compare.
LEMMA LoopNumbers ==
  ASSUME TypeOK
  PROVE /\ att \in Nat /\ idx \in Nat /\ Len(sel) \in Nat /\ DOMAIN sel = 1..Len(sel)
        /\ \A i \in DOMAIN sel : i \in Nat /\ sel[i] \in StageNames
        /\ \A i, j \in DOMAIN sel : sel[i] = sel[j] => i = j
<1>1. /\ DOMAIN sel = 1..Len(sel) /\ Len(sel) \in Nat
      /\ (\A i \in DOMAIN sel : sel[i] \in StageNames)
      /\ \A i, j \in DOMAIN sel : sel[i] = sel[j] => i = j
  BY SelFacts DEF TypeOK
<1>2. att \in Nat /\ idx \in Nat
  BY <1>1, ConstantsAssumption DEF TypeOK
<1> QED BY <1>1, <1>2

\* Before the first attempt nothing but its start happens.
LEMMA BeforeNext ==
  ASSUME IInv, ViewOK, [Next]_vars
  PROVE BeforeOK'
<1> SUFFICES ASSUME att' = 0 PROVE BeforeOK'
  BY DEF BeforeOK
<1> USE WriterSets
<1>1. TypeOK /\ LoopOK /\ WritersOK /\ att \in Nat
  BY LoopNumbers DEF IInv
<1>2. ~Begin
  <2>1. Begin => att' = att + 1
    BY DEF Begin
  <2> QED BY <1>1, <2>1
<1>3. UNCHANGED <<att, sel, disturbed>>
  BY <1>2, Frame
<1>4. att = 0 /\ BeforeOK /\ pc = "off"
  BY <1>1, <1>3 DEF ViewOK, LoopOK, Attempts
<1>5. \A a \in Attempts : train[a] = "off"
  BY <1>4 DEF BeforeOK
<1>6. ~RunSteps /\ ~StageFails /\ ~Die /\ ~CutOff
  BY <1>4 DEF RunSteps, RunMerge, RunMergeRaises, EmitRunning, EmitOutcome, MirrorCache,
     MirrorFinish, ExecuteOther, DeleteRow, InsertRow, BuildCache, RegisterArtifacts, UpdateRow,
     StartTraining, At, StageFails, Die, CutOff, Working, Merging
<1>7. \A a \in Attempts : ~TrainSteps(a)
  BY <1>5 DEF TrainSteps, TrainMerge, TrainMergeRaises, EmitProgress, TrainEnds
<1>8. UNCHANGED <<st, latest, train>>
  BY <1>2, <1>6, <1>7 DEF Next, WatchPoll, WatchStops, vars, file
<1> QED BY <1>3, <1>4, <1>8 DEF BeforeOK

\* run_all does not move while its training is alive, and is not moved once dead.
LEMMA TrainerNext ==
  ASSUME IInv, ViewOK, [Next]_vars
  PROVE TrainerOK'
<1> SUFFICES ASSUME att' = 1 PROVE TrainerOK'
  BY DEF TrainerOK
<1> USE WriterSets
<1>1. TypeOK /\ LoopOK /\ WritersOK /\ att \in Nat
  BY LoopNumbers DEF IInv
<1>2. CASE Begin
  <2>1. att = 0 /\ BeforeOK
    BY <1>1, <1>2 DEF Begin, ViewOK
  <2> QED BY <1>2, <2>1 DEF Begin, BeforeOK, TrainerOK
<1>3. CASE ~Begin
  <2>1. UNCHANGED <<att, sel, disturbed>> /\ TrainerOK /\ att = 1
    BY <1>3, Frame DEF ViewOK
  <2>2. ASSUME \A a \in Attempts : train'[a] # "off" => train[a] # "off",
               idx' = idx \/ \A a \in Attempts : train'[a] = "off"
        PROVE TrainerOK'
    BY <2>1, <2>2 DEF TrainerOK, Stage
  <2>3. CASE StartTraining
    <3>1. idx' = idx /\ Stage = "train_yolox" /\ idx \in DOMAIN sel
      BY <1>1, <2>3 DEF StartTraining, At, LoopOK, AtStage, Working
    <3> QED BY <2>1, <3>1 DEF TrainerOK, Stage
  <2>4. ASSUME NEW a \in Attempts, TrainSteps(a) PROVE TrainerOK'
    <3>1. train[a] # "off" /\ idx' = idx
      BY <2>4 DEF TrainSteps, TrainMerge, TrainMergeRaises, EmitProgress, TrainEnds, Exits, run
    <3>2. \A b \in Attempts \ {a} : train'[b] = train[b]
      BY <1>1, <2>4 DEF TrainSteps, TrainMerge, TrainMergeRaises, EmitProgress, TrainEnds, TypeOK
    <3> QED BY <2>2, <3>1, <3>2
  <2>5. CASE RunMerge \/ MirrorCache
    <3>1. pc \in Merging \cup {"mirror_cache"} /\ train' = train
      BY <2>5 DEF RunMerge, MirrorCache
    <3>2. \A a \in Attempts : train[a] # "off" => a <= 1 /\ (a = 1 => pc \in {"training", "dead"})
      BY <1>1, <2>1 DEF WritersOK
    <3>3. \A a \in Attempts : a <= 1 => a = 1
      BY DEF Attempts
    <3>4. \A a \in Attempts : train[a] = "off"
      BY <3>1, <3>2, <3>3 DEF Merging
    <3> QED BY <2>2, <3>1, <3>4
  <2>6. CASE Die \/ CutOff
    BY <1>1, <2>2, <2>6 DEF Die, CutOff, Killed, TypeOK
  <2>7. CASE UNCHANGED <<idx, train>>
    BY <2>2, <2>7
  <2> QED BY <1>3, <2>3, <2>4, <2>5, <2>6, <2>7 DEF Next, RunSteps, RunMergeRaises, EmitRunning,
       EmitOutcome, MirrorFinish, ExecuteOther, DeleteRow, InsertRow, BuildCache,
       RegisterArtifacts, UpdateRow, StageFails, Exits, WatchPoll, WatchStops, run, vars
<1> QED BY <1>2, <1>3

\* The log: emit_stage writes "running" before the stage and its outcome after
\* it, and a progress event of the training says what the first of them said.
LEMMA LogNext ==
  ASSUME IInv, ViewOK, [Next]_vars
  PROVE LogOK'
<1> SUFFICES ASSUME att' = 1 PROVE LogOK'
  BY DEF LogOK
<1> USE WriterSets
<1>1. TypeOK /\ LoopOK /\ WritersOK
  BY DEF IInv
<1>2. CASE Begin
  <2>1. att = 0 /\ BeforeOK
    BY <1>1, <1>2, LoopNumbers DEF Begin, ViewOK
  <2>2. latest' = latest /\ idx' = 1 /\ pc' = "init_run" /\ sel' \in Selections
    BY <1>2 DEF Begin
  <2>3. \A i \in DOMAIN sel' : i \in Nat /\ i >= 1 /\ sel'[i] \in StageNames
    <3>1. /\ DOMAIN sel' = 1..Len(sel') /\ Len(sel') \in Nat
          /\ \A i \in DOMAIN sel' : sel'[i] \in StageNames
      BY <2>2, SelFacts
    <3> QED BY <3>1
  <2>4. \A i \in DOMAIN sel' : latest'[sel'[i]] = "none"
    BY <2>1, <2>2, <2>3 DEF BeforeOK
  <2>5. \A i \in DOMAIN sel' : ~(i < idx')
    BY <2>2, <2>3
  <2> QED BY <2>2, <2>4, <2>5 DEF LogOK, Closed, Doing
<1>3. CASE ~Begin
  <2>1. UNCHANGED <<att, sel, disturbed>> /\ LogOK /\ TrainerOK /\ att = 1
    BY <1>3, Frame DEF ViewOK
  <2>2. /\ idx \in Nat /\ (\A i \in DOMAIN sel : i \in Nat /\ sel[i] \in StageNames)
        /\ \A i, j \in DOMAIN sel : sel[i] = sel[j] => i = j
    BY <1>1, LoopNumbers
  \* A step that leaves the log alone and does not pass from one group of
  \* positions into another.
  <2>3. ASSUME UNCHANGED <<latest, results, idx>>, pc' \in Closed => pc \in Closed,
               pc' \in Fresh => pc \in Fresh,
               pc' \in Doing \cup {"merge_running"} => pc \in Doing \cup {"merge_running"}
        PROVE LogOK'
    BY <2>1, <2>3 DEF LogOK, Stage
  \* A subprocess exits.
  <2>4. ASSUME NEW v \in {"success", "failed"}, Exits(v), latest' = latest,
               pc \in Doing
        PROVE LogOK'
    <3>1. /\ pc' = "emit_outcome" /\ idx' = idx /\ results' = [results EXCEPT ![Stage] = v]
          /\ idx \in DOMAIN sel
      BY <1>1, <2>4 DEF Exits, LoopOK, AtStage, Working, Doing
    <3>2. \A i \in DOMAIN sel : i # idx => results'[sel[i]] = results[sel[i]]
      BY <1>1, <2>2, <3>1 DEF Stage, TypeOK
    <3>3. \A i \in DOMAIN sel : i < idx => i # idx
      BY <2>2
    <3> QED BY <2>1, <2>4, <3>1, <3>2, <3>3 DEF LogOK, Closed, Fresh, Doing
  \* To the next stage, or to the end.
  <2>5. ASSUME pc \in Closed, pc' \in {"set_current_stage", "finish"}, idx' = idx + 1,
               UNCHANGED <<latest, results>>
        PROVE LogOK'
    <3>1. \A i \in DOMAIN sel : /\ i < idx' => i < idx \/ i = idx
                                /\ i > idx' \/ i = idx' => i > idx
                                /\ i = idx' => ~(i < idx) /\ i # idx
      BY <2>2, <2>5
    <3> QED BY <2>1, <2>5, <3>1 DEF LogOK, Closed, Fresh, Doing
  <2>6. CASE RunMerge /\ UNCHANGED <<pc, idx>>
    BY <2>3, <2>6 DEF RunMerge
  <2>7. CASE RunMerge /\ ~UNCHANGED <<pc, idx>>
    <3>1. /\ pc \in Merging /\ pc' = AfterMerge /\ UNCHANGED <<results, latest>>
          /\ idx' = IF pc = "merge_outcome" /\ ~TracksCache THEN idx + 1 ELSE idx
      BY <2>7 DEF RunMerge
    <3>2. CASE pc = "merge_outcome" /\ ~TracksCache
      BY <2>5, <3>1, <3>2 DEF AfterMerge, StageOrFinish, Closed
    <3>3. CASE pc = "init_run"
      <4>1. pc' \in {"set_current_stage", "finish"} /\ idx' = idx
        BY <3>1, <3>3 DEF AfterMerge, StageOrFinish
      <4> QED BY <2>3, <3>1, <3>3, <4>1 DEF Closed, Fresh, Doing
    <3>4. CASE pc # "init_run" /\ ~(pc = "merge_outcome" /\ ~TracksCache)
      <4>1. /\ idx' = idx
            /\ <<pc, pc'>> \in {<<"set_current_stage", "emit_running">>,
                 <<"merge_running", "execute">>, <<"merge_outcome", "set_tile_cache">>,
                 <<"set_tile_cache", "mirror_cache">>, <<"finish", "mirror_finish">>}
        BY <3>1, <3>4 DEF AfterMerge, Merging
      <4> QED BY <2>3, <3>1, <4>1 DEF Closed, Fresh, Doing
    <3> QED BY <3>2, <3>3, <3>4
  <2>8. CASE MirrorCache
    <3>1. pc = "mirror_cache" /\ pc' \in {"set_current_stage", "finish"} /\ idx' = idx + 1
          /\ UNCHANGED <<latest, results>>
      BY <2>8 DEF MirrorCache, StageOrFinish
    <3> QED BY <2>5, <3>1 DEF Closed
  <2>9. CASE EmitRunning \/ EmitOutcome
    <3>1. /\ idx \in DOMAIN sel /\ UNCHANGED <<idx, results>>
          /\ \/ /\ pc = "emit_running" /\ pc' = "merge_running"
                /\ latest' = [latest EXCEPT ![Stage] = "running"]
             \/ /\ pc = "emit_outcome" /\ pc' = "merge_outcome" /\ results[Stage] # "none"
                /\ latest' = [latest EXCEPT ![Stage] = results[Stage]]
      BY <1>1, <2>9 DEF EmitRunning, EmitOutcome, LoopOK, AtStage, Working, Merging
    <3>2. Stage' = Stage /\ Stage \in StageNames
      BY <2>1, <2>2, <3>1 DEF Stage
    <3>3. \A i \in DOMAIN sel : i # idx => latest'[sel[i]] = latest[sel[i]]
      BY <1>1, <2>2, <3>1 DEF Stage, TypeOK
    <3>4. latest'[Stage] = IF pc = "emit_running" THEN "running" ELSE results[Stage]
      BY <1>1, <3>1, <3>2 DEF TypeOK
    <3>5. \A i \in DOMAIN sel : (i < idx => i # idx) /\ (i > idx => i # idx)
      BY <2>2
    <3> QED BY <2>1, <3>1, <3>2, <3>3, <3>4, <3>5 DEF LogOK, Closed, Fresh, Doing, Stage
  <2>10. ASSUME NEW a \in Attempts, EmitProgress(a) PROVE LogOK'
    <3>1. /\ train[a] # "off" /\ UNCHANGED <<pc, idx, results>>
          /\ latest' = [latest EXCEPT !["train_yolox"] = "running"]
      BY <2>10 DEF EmitProgress, run
    <3>2. idx \in DOMAIN sel /\ Stage = "train_yolox"
      BY <2>1, <3>1 DEF TrainerOK
    <3>3. pc \in {"training", "dead"}
      <4>1. a <= 1 /\ (a = 1 => pc \in {"training", "dead"})
        BY <1>1, <2>1, <3>1 DEF WritersOK
      <4> QED BY <4>1 DEF Attempts
    <3>4. \A i \in DOMAIN sel : i # idx => latest'[sel[i]] = latest[sel[i]]
      BY <1>1, <2>2, <3>1, <3>2 DEF Stage, TypeOK
    <3>5. latest'[Stage] = "running" /\ Stage' = Stage
      BY <1>1, <2>1, <2>2, <3>1, <3>2 DEF Stage, TypeOK
    <3>6. \A i \in DOMAIN sel : (i < idx => i # idx) /\ (i > idx => i # idx)
      BY <2>2
    <3> QED BY <2>1, <3>1, <3>3, <3>4, <3>5, <3>6 DEF LogOK, Closed, Fresh, Doing
  <2>11. ASSUME NEW a \in Attempts, TrainEnds(a) PROVE LogOK'
    <3>1. latest' = latest /\ (UNCHANGED run
             \/ (pc = "training" /\ (Exits("success") \/ Exits("failed"))))
      BY <2>11 DEF TrainEnds
    <3> QED BY <2>3, <2>4, <3>1 DEF run, Doing
  <2>12. ASSUME NEW a \in Attempts, TrainMerge(a) \/ TrainMergeRaises(a) PROVE LogOK'
    BY <2>3, <2>12 DEF TrainMerge, TrainMergeRaises, run
  <2>13. CASE RunMergeRaises \/ Die \/ CutOff \/ MirrorFinish \/ StartTraining
              \/ (DeleteRow /\ pc' = "insert_row")
    <3>1. /\ UNCHANGED <<latest, results, idx>>
          /\ \/ pc' \in {"dead", "done"}
             \/ pc = "execute" /\ pc' \in {"training", "insert_row"}
      BY <2>13 DEF RunMergeRaises, Die, CutOff, Killed, MirrorFinish, StartTraining, DeleteRow, At,
         Exits
    <3> QED BY <2>3, <3>1 DEF Closed, Fresh, Doing
  <2>14. CASE \/ DeleteRow /\ pc' # "insert_row"
              \/ ExecuteOther \/ InsertRow \/ BuildCache \/ RegisterArtifacts \/ UpdateRow
              \/ StageFails
    <3>1. pc \in Doing /\ latest' = latest /\ (Exits("success") \/ Exits("failed"))
      BY <2>14 DEF DeleteRow, ExecuteOther, InsertRow, BuildCache, RegisterArtifacts, UpdateRow,
         StageFails, At, Doing
    <3> QED BY <2>4, <3>1
  <2>15. CASE WatchPoll \/ WatchStops \/ UNCHANGED vars
    BY <2>3, <2>15 DEF WatchPoll, WatchStops, run, vars
  <2> QED BY <1>3, <2>6, <2>7, <2>8, <2>9, <2>10, <2>11, <2>12, <2>13, <2>14, <2>15
       DEF Next, RunSteps, TrainSteps
<1> QED BY <1>2, <1>3

\* The stage and the status a rename of run_all leaves in status.json.
LEMMA ReplaceStage ==
  ASSUME TypeOK, LoopOK, Quiet, pc \in Merging, MergeReplace(0)
  PROVE /\ pc = "init_run" => st'.stage = NoStage
        /\ pc \in {"set_current_stage", "merge_running", "merge_outcome"} => st'.stage = Stage
        /\ pc \in {"set_tile_cache", "finish"} => st'.stage = st.stage
        /\ pc = "merge_running" => st'.status = "running"
<1>1. st' = Merged(st, Change)
  BY WriterSets, MergeSteps DEF Quiet
<1>2. st \in Status
  BY DEF TypeOK
<1>3. CASE pc = "init_run"
  <2>1. Change = Seed
    BY <1>3, ChangeFacts
  <2>2. st' = Seed
    BY <1>1, <1>2, <2>1, MergeFacts
  <2> QED BY <1>3, <2>2 DEF Seed, NoStatus
<1>4. CASE pc = "set_current_stage"
  <2>1. Change = [stage |-> Stage]
    BY <1>4, ChangeFacts
  <2>2. st' = [st EXCEPT !.stage = Stage]
    BY <1>1, <1>2, <2>1, MergeFacts
  <2> QED BY <1>2, <1>4, <2>2 DEF Status
<1>5. CASE pc = "merge_running"
  <2>1. Change = [status |-> "running", stage |-> Stage]
    BY <1>5, ChangeFacts
  <2>2. st' = [status |-> "running", stage |-> Stage, cache |-> st.cache, model |-> st.model,
               iter |-> st.iter]
    BY <1>1, <1>2, <2>1, MergeStageStatus
  <2> QED BY <1>5, <2>2
<1>6. CASE pc = "merge_outcome"
  <2>1. Change = [status |-> results[Stage], stage |-> Stage]
    BY <1>6, ChangeFacts
  <2>2. st' = [status |-> results[Stage], stage |-> Stage, cache |-> st.cache,
               model |-> st.model, iter |-> st.iter]
    BY <1>1, <1>2, <2>1, MergeStageStatus
  <2> QED BY <1>6, <2>2
<1>7. CASE pc = "set_tile_cache"
  <2>1. Change = [cache |-> crumb]
    BY <1>7, ChangeFacts
  <2>2. st' = [st EXCEPT !.cache = crumb]
    BY <1>1, <1>2, <2>1, MergeFacts
  <2> QED BY <1>2, <1>7, <2>2 DEF Status
<1>8. CASE pc = "finish"
  <2>1. Change = [status |-> Outcome]
    BY <1>8, ChangeFacts
  <2>2. st' = [st EXCEPT !.status = Outcome]
    BY <1>1, <1>2, <2>1, MergeFacts
  <2> QED BY <1>2, <1>8, <2>2 DEF Status
<1> QED BY <1>3, <1>4, <1>5, <1>6, <1>7, <1>8 DEF Merging

\* A training changes neither the stage nor the status.
LEMMA TrainReplaceStage ==
  ASSUME TypeOK, Quiet, NEW a \in Attempts, MergeReplace(a)
  PROVE st'.stage = st.stage /\ st'.status = st.status
<1>1. st' = Merged(st, TrainChange(a)) /\ st \in Status
  BY WriterSets, MergeSteps DEF Quiet, TypeOK
<1> QED BY <1>1, TrainChangeFacts DEF Status

\* status.json: the stage it names moves with the loop and never ahead of it.
LEMMA FileNext ==
  ASSUME IInv, ViewOK, [Next]_vars
  PROVE FileOK'
<1> SUFFICES ASSUME att' = 1 PROVE FileOK'
  BY DEF FileOK
<1> USE WriterSets
<1>1. TypeOK /\ LoopOK /\ WritersOK
  BY DEF IInv
<1>2. CASE Begin
  <2>1. att = 0 /\ BeforeOK
    BY <1>1, <1>2, LoopNumbers DEF Begin, ViewOK
  <2>2. st' = NoStatus /\ pc' = "init_run"
    BY <1>2, <2>1 DEF Begin, BeforeOK, file
  <2> QED BY <2>2 DEF FileOK, Doing, NoStatus
<1>3. CASE ~Begin
  <2>1. UNCHANGED <<att, sel, disturbed>> /\ FileOK /\ TrainerOK /\ att = 1
    BY <1>3, Frame DEF ViewOK
  <2>2. Quiet
    BY <2>1 DEF TrainerOK, IInv
  <2>3. idx \in Nat /\ \A i \in DOMAIN sel : i \in Nat
    BY <1>1, LoopNumbers
  \* A step that leaves these two fields alone, and does not begin a stage.
  <2>4. ASSUME st'.stage = st.stage, st'.status = st.status, idx' \in {idx, idx + 1},
               pc' \in Doing => pc \in Doing /\ idx' = idx
        PROVE FileOK'
    <3>1. \A j \in DOMAIN sel : j <= idx => j <= idx'
      BY <2>3, <2>4
    <3> QED BY <2>1, <2>4, <3>1 DEF FileOK, Stage
  <2>5. CASE RunMerge /\ ~MergeReplace(0)
    <3>1. MergeRead(0, Change) \/ MergeWrite(0)
      BY <2>5 DEF RunMerge
    <3>2. st' = st
      BY <1>1, <3>1, MergeSteps
    <3>3. UNCHANGED <<pc, idx>>
      BY <2>5 DEF RunMerge
    <3> QED BY <2>4, <3>2, <3>3
  <2>6. CASE RunMerge /\ MergeReplace(0)
    <3>1. pc \in Merging
      BY <2>6 DEF RunMerge
    <3>2. mg[0].at = "written" /\ mg'[0].at = "idle"
      BY <1>1, <2>6, MergeSteps
    <3>3. /\ pc' = AfterMerge
          /\ idx' = IF pc = "merge_outcome" /\ ~TracksCache THEN idx + 1 ELSE idx
      BY <2>6, <3>2 DEF RunMerge, MergeRead, MergeWrite
    <3>4. idx' \in {idx, idx + 1} /\ (pc' \in Doing => pc = "merge_running" /\ idx' = idx)
      BY <3>1, <3>3 DEF AfterMerge, StageOrFinish, Merging, Doing
    <3>5. CASE pc = "init_run"
      <4>1. st'.stage = NoStage /\ pc' \notin Doing
        BY <1>1, <2>2, <2>6, <3>4, <3>5, ReplaceStage, <3>1
      <4> QED BY <4>1 DEF FileOK
    <3>6. CASE pc \in {"set_current_stage", "merge_running", "merge_outcome"}
      <4>1. st'.stage = Stage /\ (pc = "merge_running" => st'.status = "running")
        BY <1>1, <2>2, <2>6, <3>1, <3>6, ReplaceStage
      <4>2. idx \in DOMAIN sel /\ idx <= idx'
        BY <1>1, <2>3, <3>1, <3>4, <3>6 DEF LoopOK, AtStage, Working, Merging
      <4> QED BY <2>1, <3>4, <4>1, <4>2 DEF FileOK, Stage
    <3>7. CASE pc \in {"set_tile_cache", "finish"}
      <4>1. st'.stage = st.stage /\ pc' \notin Doing
        BY <1>1, <2>2, <2>6, <3>1, <3>4, <3>7, ReplaceStage
      <4>2. \A j \in DOMAIN sel : j <= idx => j <= idx'
        BY <2>3, <3>4
      <4> QED BY <2>1, <4>1, <4>2 DEF FileOK
    <3> QED BY <3>1, <3>5, <3>6, <3>7 DEF Merging
  <2>7. ASSUME NEW a \in Attempts, TrainMerge(a) \/ TrainMergeRaises(a) PROVE FileOK'
    <3>1. UNCHANGED <<pc, idx>>
      BY <2>7 DEF TrainMerge, TrainMergeRaises, run
    <3>2. st'.stage = st.stage /\ st'.status = st.status
      BY <1>1, <2>2, <2>7, MergeSteps, TrainReplaceStage DEF TrainMerge, TrainMergeRaises
    <3> QED BY <2>4, <3>1, <3>2
  <2>8. ASSUME NEW a \in Attempts, EmitProgress(a) \/ TrainEnds(a) PROVE FileOK'
    <3>1. st' = st /\ idx' = idx /\ (pc' = pc \/ pc' = "emit_outcome")
      BY <2>8 DEF EmitProgress, TrainEnds, Exits, run, file
    <3> QED BY <2>4, <3>1 DEF Doing
  <2>9. CASE RunMergeRaises \/ Die \/ CutOff
    <3>1. st' = st /\ idx' = idx /\ pc' = "dead"
      BY <1>1, <2>9, MergeSteps DEF RunMergeRaises, Die, CutOff, Killed
    <3> QED BY <2>4, <3>1 DEF Doing
  <2>10. CASE StartTraining
    <3>1. st' = st /\ idx' = idx /\ pc = "execute" /\ pc' = "training"
      BY <2>10 DEF StartTraining, At, file
    <3> QED BY <2>4, <3>1 DEF Doing
  <2>11. CASE StillSteps
    <3>1. st' = st
      BY <2>11, Still
    <3>2. idx' \in {idx, idx + 1} /\ (pc' \in Doing => pc \in Doing /\ idx' = idx)
      BY <2>11 DEF StillSteps, EmitRunning, EmitOutcome, MirrorCache, MirrorFinish, StageOrFinish,
         ExecuteOther, DeleteRow, InsertRow, BuildCache, RegisterArtifacts, UpdateRow, StageFails,
         WatchPoll, WatchStops, At, Exits, Doing, run, vars
    <3> QED BY <2>4, <3>1, <3>2
  <2> QED BY <1>3, <2>5, <2>6, <2>7, <2>8, <2>9, <2>10, <2>11 DEF Next, RunSteps, TrainSteps,
       StillSteps
<1> QED BY <1>2, <1>3

\* In the first attempt the checklist of the control room shows every stage
\* that has ended with its result, the one being executed as active, and the
\* others as pending, at every moment between the writes of run_all and those
\* of the training (tui.py:184-216).
THEOREM RowsHonestHolds == Spec => []RowsHonest
<1>1. Init => ViewOK
  BY DEF Init, ViewOK, BeforeOK, TrainerOK, LogOK, FileOK
<1>2. IInv /\ ViewOK /\ [Next]_vars => ViewOK'
  BY BeforeNext, TrainerNext, LogNext, FileNext DEF ViewOK
<1>3. IInv /\ ViewOK => RowsHonest
  <2> SUFFICES ASSUME IInv, ViewOK, att = 1, NEW i \in DOMAIN sel
               PROVE /\ i < idx => RowState(sel[i])
                                     = IF results[sel[i]] = "success" THEN "done" ELSE "failed"
                     /\ i > idx => RowState(sel[i]) = "pending"
                     /\ i = idx /\ pc \in Doing => RowState(sel[i]) = "active"
    BY DEF RowsHonest, Doing
  <2>1. TypeOK /\ LogOK /\ FileOK
    BY DEF IInv, ViewOK
  <2>2. /\ idx \in Nat /\ (\A j \in DOMAIN sel : j \in Nat /\ sel[j] \in StageNames)
        /\ \A j, k \in DOMAIN sel : sel[j] = sel[k] => j = k
    BY <2>1, LoopNumbers
  <2>3. CASE i < idx
    <3>1. latest[sel[i]] = results[sel[i]] /\ results[sel[i]] \in {"success", "failed"}
      BY <2>1, <2>2, <2>3 DEF LogOK, TypeOK
    <3>2. RowState(sel[i]) = IF results[sel[i]] = "success" THEN "done" ELSE "failed"
      BY <3>1 DEF RowState
    <3> QED BY <2>2, <2>3, <3>2
  <2>4. CASE i > idx
    <3>1. latest[sel[i]] = "none"
      BY <2>1, <2>4 DEF LogOK
    <3>2. \A j \in DOMAIN sel : j <= idx => sel[i] # sel[j] /\ ~(Canonical(sel[i]) < Canonical(sel[j]))
      <4> SUFFICES ASSUME NEW j \in DOMAIN sel, j <= idx
                   PROVE sel[i] # sel[j] /\ ~(Canonical(sel[i]) < Canonical(sel[j]))
        OBVIOUS
      <4>1. j < i /\ sel[i] # sel[j]
        BY <2>2, <2>4
      <4>2. sel \in Selections
        BY <2>1 DEF TypeOK
      <4>3. Canonical(sel[j]) < Canonical(sel[i])
        BY <4>1, <4>2, ConstantsAssumption
      <4>4. Canonical(sel[i]) \in Int /\ Canonical(sel[j]) \in Int
        BY <2>2 DEF Canonical, StageNames
      <4> QED BY <4>1, <4>3, <4>4
    <3>3. sel[i] # NoStage
      BY <2>2, Names
    <3>4. sel[i] # st.stage /\ (st.stage # NoStage => ~(Canonical(sel[i]) < Canonical(st.stage)))
      BY <2>1, <3>2, <3>3 DEF FileOK
    <3>5. RowState(sel[i]) = "pending"
      BY <3>1, <3>4 DEF RowState
    <3> QED BY <2>2, <2>4, <3>5
  <2>5. CASE i = idx /\ pc \in Doing
    <3>1. latest[sel[i]] = "running" /\ st.stage = sel[i] /\ st.status = "running"
      BY <2>1, <2>5 DEF LogOK, FileOK, Stage
    <3>2. RowState(sel[i]) = "active"
      BY <3>1 DEF RowState, Overall
    <3> QED BY <2>2, <2>5, <3>2
  <2> QED BY <2>3, <2>4, <2>5
<1> QED BY <1>1, <1>2, <1>3, Inductive, PTL DEF Spec
=============================================================================
