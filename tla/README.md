# A verification project for the DCS dataset pipeline

The repository builds an object-detection data set from the flight simulator DCS
World and trains a YOLOX detector on it. This directory holds TLA+ models of it: of the
parts where several processes, threads or crashed predecessors share state, and of the
algorithms on boxes, splits and scores that decide what the data set and the reports say.
TLC configurations check them on small instances, and the TLAPS proof system has checked
theorems about them for every value of the constants.

Contents

1. The system: components, state, operations, interactions
2. What is hard about it, and what makes each part correct
3. The modules and how they correspond to the code
4. The runs: bounds, fairness, what they show
5. What is proved, from which assumptions, along which argument
6. Disagreements between the code and its own texts
7. What is not modelled, and the plan

## 1. The system

```
 capture (Windows)                                 training (Linux, docker)
 +-----------------------------------------+       +-----------------------------------+
 | DCS: Hooks.lua, Export.lua              |       | run_all: one stage after another  |
 |   ^ files in Saved Games/DCS/Logs       |       |  request-capture / wait-dataset   |
 |   v                                     |  HTTP |  register_dataset                 |
 | orchestrator (one process per capture)  |<------|  build-cache  (tile cache)        |
 |   ^ subprocess                          |  or   |  train, evaluate                  |
 | runner agent -> adapter (normalize)     | files |  register_artifacts, update, gc   |
 +-----------------------------------------+       +-----------------------------------+
          raw data set on shared storage ----------> datasets/raw/<dataset_id>
```

| component | state it keeps | operations | talks to |
|---|---|---|---|
| Orchestrator (`dcs_capture_host/orchestrator`) | attempt number, tokens, the frames written | `capture_one_frame`: clear stale files, optional probe, request, pause handshake, camera pose, snapshot, screenshot, metadata | the two Lua scripts, by files |
| Capture output (`orchestrator/main.py`, `exporters`, `validators`, the batch script) | image, metadata and YOLO file per frame, one COCO file | a session, `refine_dataset`, `rebuild_coco_from_metadata`, the two validators, the batch runner | the box refiners; the adapter reads it |
| Hook script (`dcs_export/Hooks.lua`) | `active`, `last_processed_token`, `last_pause_token`, `paused_by_cv` | `onSimulationStart/Frame/Stop`: read request, pause, ask for the snapshot, `makeScreenShot`, acknowledge, release the pause | DCS, Export.lua, orchestrator |
| Export script (`dcs_export/Export.lua`) | `pending_camera_request`, `last_camera_token` | read the camera request, set the camera, verify it in the next frame, acknowledge; write the snapshot | DCS, orchestrator |
| Runner agent (`windows_dcs_runner_agent`) | `CaptureRunner`: active run, stop flag; `StatusStore`: statuses in memory and one mirror file per run; the command folder | `submit`, `stop`, worker `_run`, `StatusStore.update`, folder scan, HTTP handlers | clients; orchestrator and adapter as subprocesses |
| Agent client (`dcs_capture/agent_client.py`, `cli.py`) | none beyond its position | submit over HTTP or shared folder, poll until a final status or a timeout | agent |
| Adapter (`dcs_capture/adapter.py`, `cli.py`) | staging directory, data set directory | `normalize`: convert a capture to COCO with splits, sentinel `dataset_info.json` last; `cleanup-staging` | storage |
| Migration and validation (`scripts/migrate_legacy_dataset.py`, `validate_raw_dataset.py`) | data set directories | remap the categories of an old data set into a new one; accept or reject a data set | storage |
| Tile cache (`dataset_enrichment/tile_cache.py`, `hashing.py`) | `<id>/`, `<id>.building/`, the breadcrumb of each run | `build_or_reuse_cache` | storage; the training stage reads it |
| Enrichment (`dataset_enrichment/enrich.py`, `common/tiling.py`, `bbox_ops.py`) | what it writes of the split in hand | cut every image into tiles at several scales, with the labels visible in them | the tile cache calls it |
| Training (`yolox_training`) | checkpoints, MLflow | `run_training`, `_resolve_tile_cache_dir` | tile cache |
| Evaluation (`evaluation_export`: `cli`, `evaluate`, `inference`, `merge`, `metrics`, `report`) | detections of the image in hand, the reports | crops into batches, map back, suppress, fuse, score | the network; the raw data set |
| Model export (`evaluation_export/export.py`) | ONNX file, TensorRT engines, calibration table, reports | one stage per model | the checkpoint |
| Orchestration of a run (`pipeline/run_all.py`) | result of each stage | stage loop, cleanup and closing stages | every stage, as subprocesses; the tracker |
| Status tracker and registry (`common/status_tracker.py`, `metadata_store.py`, `scripts/pipeline_run_status.py`) | `status.json`, `events.jsonl`, SQLite rows | merges, appends, best-effort mirror | watchers (`tui.py`, `control_room.py`) |
| Registration (`scripts/register_dataset.py`, `register_artifacts.py`) | SQLite rows | register a data set, its images and annotations; artifacts, checkpoints, reports | registry |
| Retention (`pipeline/gc.py`) | the plan in hand | read, plan, remove runs, caches and staging | registry, storage |
| Scenario builder, projection, camera planning, box refiners | none | numerical and format work on files | - |

## 2. What is hard, and what makes each part correct

**Capture exchange.** Three programs with no lock share a directory. A frame takes
several files, written by different programs in a fixed order, and a run that was
killed leaves its files for the next one. DCS must stand still between the telemetry
snapshot and the screenshot, but any callback may fail, a pause may be ended by the
release of an older capture, a file may resist deletion, and the mission may be
restarted while the orchestrator waits. Correct means: telemetry and image of a frame
show one moment and one camera; the world does not move between the acknowledged pause
and the snapshot; a token is photographed once; a capture that nothing disturbs ends
and gives the simulator back.

**Runner agent.** HTTP handler threads, the folder watcher, a worker thread and stop
calls share a slot, a flag and a store, and release their locks between reading and
acting. Subprocesses and file replacements fail half-way; clients lose replies, give up,
retry with the same run id; the agent dies and its subprocess does not. Correct means:
one capture at a time; a reported success is the reporting client's; a command is served
once; the slot comes back; nobody polls for ever.

**Tile cache.** It is shared by runs, filled by a long build that may die at any step,
keyed by hashes that do not see image bytes, read by a training stage that also starts
after a failed build, and removed file by file. Correct means: a directory that passes
the validity check is the complete product of one version of the data set; no leftover
ends up in a cache; training uses the cache of the data its run has hashed.

**Run tracking.** `run_all` and the training process read, change and replace the same
`status.json`; the status of a stage and that of the run share one field; the row in
SQLite is closed by a stage that always says "success" and then by a mirror that may fail
silently; a run that died is started again under its id, over its files and rows, perhaps
while its training still writes. Correct means: when `run_all` returns, file and row hold
its outcome; no merge undoes another's field; the checklist does not lie; everyone ends.

**Capture output.** The files of a frame are written one after another and not renamed into
place; a session writes the COCO file again after every frame, and only with the frames of its
own process; a refinement overwrites the metadata it starts from; a frame id is used again;
Windows refuses to delete a file that is open. Correct means: a metadata file describes the
picture beside it; a command that ends well has repaired what an earlier one left; what the
validators accept is complete, as far as they can tell it; a frame refined again is as if captured
with the new version.

**Data sets, registry, retention.** Imports write in place, copy, link or move, may remove
their source, and may be cut off between any two files; another import follows over what is
left. Registration reads the directory at several moments. A `gc` pass plans from three
lists read one after another and removes later, while runs begin and imports move files.
Exports of a second attempt lie over those of the first. Correct means: the sentinel stands
on a complete data set; each frame and label is in the split its hash gives it, once; no
frame is lost unless a command was told to remove it; a registration matches the directory;
`gc` spares what a run it knows of uses; models and rows carry the weights of the checkpoint.

**Boxes and scores.** An object on the seam of two tiles, a tile pinned to the end, labels
taken through scale, tile and letterbox and back; crops fed in batches to engines with a
fixed number of rows; fusion that is transitive while its condition is not; totals, average
precision and confusion matrix computed by three loops. Correct means: no small object is
lost between tiles; with an engine that fits the batch, a detection is attributed to the crop
that showed it; suppression and fusion lose and double nothing; the reports agree.

## 3. The modules

| module | role |
|---|---|
| `DcsExchange` | orchestrator, hook script, export script, simulator and shared directory |
| `PairedCapture` | what a capture promises: frames keep telemetry and image of one exposure |
| `DcsExchangeProofs` | theorems about `DcsExchange` |
| `CaptureAgent` | agent (all threads), its store and command folder, and the clients |
| `JobSlot` | what the agent promises about the one DCS installation: a slot |
| `MCCaptureAgent` | transports of the clients for TLC |
| `CaptureAgentProofs` | theorems about `CaptureAgent` |
| `TileCache` | builds of several runs, training stages, collector, raw data set |
| `KeyedStore` | what the cache promises: items appear and disappear in one step |
| `MCTileCache` | versions that share an id, symmetry, for TLC |
| `TileCacheProofs` | theorems about `TileCache` |
| `RunTracking` | `run_all`, the training as second writer, `status.json`, events, the row of the run, a viewer |
| `MCRunTracking` | the selection of stages (`_select_stages`), and the lists used for TLC |
| `RunTrackingProofs` | theorems about `RunTracking` |
| `Boxes` | rectangles, tiles, letterboxes, resizing |
| `BoxesProofs` | theorems about tiles, for all sizes |
| `Fusion` | suppression and fusion of detections (`merge.py`) |
| `Scoring` | matching, totals, average precision, confusion matrix (`metrics.py`, `report.py`) |
| `Enrichment` | `enrich_dataset`: a raw data set becomes tiles and labels |
| `Evaluation` | `evaluate` over the raw data set; extends `Enrichment` and `Scoring` |
| `MCEvaluation` | images, configurations, command lines and answers of the network, for TLC |
| `Lists` | filtering a sequence, as a recursive function that can be reasoned about |
| `RawDatasets` | `normalize`, `cleanup-staging`, the migration and the validator, file by file |
| `Registry` | the tables, `register_dataset`, the rows of runs and caches |
| `Export` | ONNX, TensorRT, calibration, reports, `register_artifacts` |
| `Retention` | a `gc` pass: reading, planning, removing |
| `DataLifecycle` | the last four side by side with the stages of `run_all` |
| `MCDataLifecycle` | captures, data sets, imports and runs that users ask for, for TLC |
| `DataLifecycleProofs` | theorems about exports and retention |
| `DatasetProofs` | theorems about imports, types and registration |
| `CaptureOutput` | sessions, refinement, rebuild, batch runner, validators over the capture directory |
| `MCCaptureOutput` | pictures and refiner versions, for TLC |
| `CaptureOutputProofs` | theorems about `CaptureOutput` |

Definitions keep the names of the source where they can. A definition `X_Bug` stands
before the `X` it misstates; no specification uses it, and the project's mutation
checks put it in the place of `X` to see that a property notices.

### DcsExchange

A step is what one program does between two accesses to something another program
can see. The orchestrator's position `ppc` runs through `capture_one_frame`
(`main.py:194-293`): five `unlink`s in the order of `clear_artifacts`
(`ClearOneFile`), the request (`RequestCapture`), the pause acknowledgement
(`SeePauseAck`, `PromoteRequest`), the snapshot, the camera (`PlanCamera` to
`SeeCameraAck`), the screenshot acknowledgement and the stable file, and the metadata
(`CommitFrame`). With `ProbeFirst` the whole exchange runs twice per frame, as
`_probe_scene_and_move_camera` does. `AbortRun` is every timeout, exception and kill: the
next attempt starts with whatever lies in the directory. Reading an error in the screenshot
acknowledgement ends the run too, and is a step of the orchestrator (`FairSpec` has it).

The hook callback (`hpc`) is `onSimulationFrame`: read the request, pause or hold
the pause, request the snapshot (which Export.lua writes inside this call), take the
screenshot, write the acknowledgement, release. The export callback handles one camera
request and verifies it in its next frame. `rendering` is a screenshot DCS has taken
and not yet written. A view is an instant of the simulated world plus the token of the
camera pose; that is all the properties need of telemetry and pixels.

Abstractions, each deliberate:

- Tokens are (attempt, role). `uuid4` values do not repeat, so neither do these.
- Both scripts run on the one main thread of DCS, so the export callback does not run
  inside a hook callback. Time (`Tick`) may pass at any step while the world is not
  paused, also inside a callback, which allows more than DCS does.
- `makeScreenShot` fixes the view at the call; the file appears later, whole.
- An acknowledgement is replaced in one step. `Hooks.lua:135-165` removes and renames;
  the window between the two is not modelled (a failing replacement is: `ackwrite`).
- Requests are written by rename (`atomic_write_json`) and never torn.
- `process_capture_request` of Export.lua is called by nobody and left out, and so is a
  person who unpauses DCS by hand.

### CaptureAgent

Each thread has a position per run id: `spc` a `submit` call, `wpc` the worker,
`kpc` a `stop` call, `cpc` the client. What the code does under `CaptureRunner._lock`
or `StatusStore._lock` is one step; what it does between two locked sections is a step
of its own. This is where the code is delicate: `submit` takes the slot, then clears the
stop flag, then stores "queued", then starts the thread (`Accept`, `SubmitClear`,
`SubmitUpsert`, `SubmitStart`), and `stop` checks under the lock and acts after it.
`Stored` and `StoreRaises` are the store: memory first, then the mirror file, whose
replacement may raise with memory already changed. `WatchScan` to `WatchMark` are one
scan of the command folder; the rename of a handled command fails when the target
exists or the file is open, as it does on Windows. `AgentDies` loses all memory and
turns a running adapter into an orphan, with the request it works for; when an orphan ends well it
replaces the target data set (`OrphanEnds`), whatever was captured in the meantime. `dataset`
is the request whose capture the target holds; `complete` (the request for which a worker's
adapter last succeeded) and `beside` (runs accepted while an orphan was at work on them) are history.

Left out: `/health`, the choice of the transport by it (each run's client has a fixed
one), the grace period of a shutdown, `process_terminator` (never set in production),
the stop file of the shared folder (no code reads it), and what an orchestrator left by a dead agent
still adds to the staging directory. A run id stands for its data set, as in `run_all`.

### TileCache

A cache directory maps entries to the version of the data set they were made from; an
entry with no version is a file that is not there. `Key` is the function the hashes
compute (`hashing.py:79-169`): two versions may share a key, since images are hashed
by name and size. `bpc` runs through `build_or_reuse_cache`: hashes, validity check,
removal of an invalid directory, removal of a leftover `.building`, `mkdir`, the tiles
in any order, the annotations, `cache_meta.json`, publication by `os.replace`, the
breadcrumb. A removal lists the directory, deletes file by file, and closes the
directory only if it is empty by then, so two removals and a writer interleave as the
file system lets them. `BuildFails` is an exception or the end of the process at any of
these steps. `Train` is the stage after it, which `run_all` starts also when the build
failed (`run_all.py:157-160`): the breadcrumb, else the hashes again, then `is_dir`.

Abstractions: the hashes are one step; the three annotation files are one entry,
`coco`, the last to be written; image directories are not entries, as they go last in a
removal; paths are resolved anew at every file (a builder whose directory was renamed
away writes into a new one); the raw data set changes only between builds
(`EditDataset`); a collection (`CollectStart` to `CollectEnd`, `gc.py:181-202`) begins
only when no run is building or about to train: which caches a pass may choose while runs
go on is the subject of `Retention`.

### RunTracking

`pc` is the position of `run_all` in its loop (`run_all.py:138-168`): for each selected
stage `set_current_stage`, the event and the merge of `emit_stage` "running", the
subprocess, event and merge of its outcome, after a build also `set_tile_cache` and its
mirror; then `finish` and its mirror. A merge of `status.json` is three steps, read
(`MergeRead`), write of `status.json.tmp` and rename, because the training process merges
into the same file with a lock of its own (`mg[w]` for writer `w`, 0 for `run_all`, `a` for
the training of attempt `a`); all writers share the name of the `.tmp` file, so that one may
rename the other's away (`TmpGone`). `init_run` replaces the file without reading it,
which is a merge of all fields. An exception of a tracker call ends `run_all`
(`tracking.strict`, its default) and is ignored in the training.

`latest` holds the last status the event log has for each stage. `row` is the row of
`pipeline_runs`, `arts` whether rows of other tables refer to it, in which case
`create --replace` fails on the foreign key (`DeleteRow`). `watch` is a viewer: `run_live`
leaves at the first terminal status, the control room of `run --watch` at one at least two
seconds after the first. With the member "attached" of `Faults` the viewer is the main
thread of the run's process, and `CutOff` the return of `cmd_run` ten seconds after it.

Abstractions: `current_stage` and `model_name` in SQLite, the events "run" and "finalize",
manifests and snapshots are left out (no decision depends on them); a training reports its
progress once; every stage is a subprocess of its own (`run_all.py:421`) and may outlive `run_all`,
but of these only the training is modelled, the one that writes `status.json`; one attempt at
a time uses a run id; a stage fails before it has touched a record, except
`register_artifacts`, which may have removed its old rows; the append of an event does not
fail by itself (a death just before it has the same effect); MLflow is left out.

### Boxes, Fusion, Scoring

Floating point is replaced by exact arithmetic: a coordinate is an integer that counts a
fixed fraction of a pixel (`Unit` per pixel), and a ratio of sizes, areas or overlaps is
compared with its threshold by cross-multiplication. The instances are chosen so that every
division the code makes is even (`Scaled`); only the weighted means of fusion are rounded,
down to a unit. What is lost is the rounding of floats; what is kept is every `min`, `max`,
clip, comparison (strict or not) and tie.

`AxisPositions` is `_axis_positions` of `tiling.py`: positions in steps of the stride, and
the last tile pinned to the end. Ties between detections of one confidence are broken as the
code does it, which is not the same everywhere: `sort` is stable, `argsort()[::-1]` takes the
later one first. `Fusion` models class-aware NMS, soft NMS (the decay is a parameter),
weighted box fusion, and the fusion of fragments as the union-find of `merge.py` with the
checks of shape that undo a group. `Scoring` has one
`Matching` for the three matching loops of `metrics.py` and `report.py`, which are the same loop;
what they compute from it (totals, per class, confusion matrix, average precision, the lists
of examples) is separate, and that these agree is a property. Of soft NMS and weighted box
fusion, which change confidences and boxes, only order and length are claimed.

### Enrichment and Evaluation

`Enrichment` is one run of `enrich_dataset`, a step per image and scale; the state is the
COCO file and manifest of the split in memory, and what has been written. Missing images,
images whose size on disk differs, configurations the code refuses, and the policy for
images without objects are there. `Evaluation` continues with the `evaluate` command on the
same raw data: arguments, the four backends and what makes building each of them fail, the
scales and crops in order, the batches (`InferChunk`), the way back to the source, the reduction and
the reports. The network is external: for each row it answers any member of `Answers`.
`fed` and `net` are history: which crop was in which row, and what the network said of it.

A TensorRT engine has a fixed number of rows (`Rows`, `SlotOf`). With more rows than a batch, its spare
rows are stored as if they were the next crops'; with fewer, the crops of a batch beyond them are never
looked at. The defaults of the repository, an engine of one row and `--batch-size 8`, are of the
second kind. `DetectionsTraceable` therefore claims that an engine with at most as many rows as a batch
gives a crop its own detections or none, and that one that fits the batch looks at every crop; the run
has engines of one, two and three rows.

### RawDatasets, Registry, Export, Retention, DataLifecycle

A document is missing, torn (opened and not complete) or whole. `imp` is the import under
way: its list of writes in the order of the code, one step per file, a torn state between
opening and closing, and the hard-link probe, the fallback to copies, the removal of the
old target (subdirectories in any order) and of the source. `ImportCrash` ends it anywhere.
`Validates` is `validate_raw_dataset.py`. `origin`, `broken`, `givenUp` are history: what
the target was made from, targets whose source changed under the import, frames that a
command was told to remove.

`db` is the registry with its unique and foreign keys; `proc` is the stage's subprocess, and
each transaction is a step. `Export` keeps under every run id the files of all its attempts,
with the attempt whose weights each carries. `gc` holds what a pass has read and planned;
`GcRuns`, `GcCaches` and `GcPlan` are the three readings of `collect_state`, and `GcRemove`
removes one item. `DataLifecycle` starts attempts with a list of stages, runs one stage at
a time, and lets imports, passes and a death of the run (`PipeDies`, which ends the
subprocess too) come in between. A scenario says what users ask for; TLC orders it.

Abstractions:

- `created_at` in the sentinel of a normalization, and in the report of a migration, is the number of the
  import (`stamp`). The adapter writes whole seconds, so this takes two normalizations to begin in
  different seconds. The sentinel of a migration keeps the date of its source, if that has one
  (`NoStamp` otherwise; such a data set cannot be registered), so two migrations of one source differ
  in `migration_report.json` only.
- What an earlier life of the storage left in a directory (`LeftBefore`) is a whole directory
  under its sentinel, or anything without one.
- One import runs at a time. The adapter of two captures would write to two data sets, and
  the agent allows one capture.
- The hash of a data set is one step; COCO fields and sizes of boxes are taken to be there.
- A move is a rename on one volume unless the flag "cross" makes it a copy and a delete.
- A migration of a directory onto itself (`--overwrite` with equal paths), `--skip-hash`, and the copy of `dcs_run_config.json` are left out.
- Times are numbers of attempts. `configs/retention.yaml` keeps 20 runs, so `KeepLast >= 1`.
- The directory of a run that `gc` removes holds manifests and logs; checkpoints, exports
  and reports lie under `artifacts` and stay.
- The records of the run itself are in `RunTracking`, a cache's files in `TileCache`.

### CaptureOutput

The files of each frame, the COCO file, and the command that runs (`job`): a session writes
per frame picture, metadata, YOLO file and then COCO; a refinement reads the metadata again,
rewrites it in place, writes YOLO, and COCO at the end; a rebuild reads all metadata. A
session replaces its metadata file in one step (`atomic_write_json`); every other file is
torn between opening and closing, and `Crash` ends a command anywhere. `Shoot` is
the whole exchange of `DcsExchange`, which ends with a picture of some scene. An object
of a scene has a class, a geometric box that passes the checks or not, and what each version
of the box refiner sees of it (`sees`): nothing, a speck it rejects, or a fit that is tiny,
huge or like a body.
`clear_artifacts` passes over a picture, metadata or YOLO file that another program holds open
(`Undeletable`). Metadata that stayed behind are marked (`kept`, history) until a session replaces
them, which `os.replace` may refuse for the same reason; a refinement of another picture's metadata finds
anything in it (`AsSeen`).
`BuildObject`, `RefineObject` and `Labels` are the rules that lead from there to validity,
tier and label. `MissionValid` and `DatasetValid` are the two validators, `BatchSteps` the
PowerShell script that captures mission after mission, checks each, and rebuilds.

Abstractions: one command at a time; overlays, debug files, probe artifacts and the wording
of reasons are left out, as are refinement switched off and OpenCV missing; boxes from
geometry are taken to have a fair size; the bars of the validators are parameters.

## 4. The runs

Every fault is a member of the constant `Faults` of its module, so that a run states
what it admits. State counts are distinct states.

| run | instance | what it shows |
|---|---|---|
| `exchange_faults` | 2 attempts, 3 instants, probe, pause first; aborts, camera, `setPause`, snapshot, screenshot, mission and acknowledgement faults (1.1 M) | frames are paired; a frame whose camera request was applied shows that camera; a pause-first capture takes its snapshot in its confirmed pause (`SnapshotInPause`); one photograph per token, also while the file of the first is being written (`PhotographedOnce`) |
| `exchange_live` | the same; files that cannot be deleted, failing pause at start, failing screenshots and camera requests; `FairSpec` (0.25 M) | every capture begun is committed or ends with the error the hook reported; a capture that paused the world lets it run again; implements `PairedCapture` over files that stay behind |
| `agent_http` | 2 HTTP clients, 2 requests each, 1 stop; failing subprocesses and mirror files, lost replies, client timeouts, restarts and the adapters they leave running (0.54 M) | one capture; success is one's own, and the data set is one's capture (`FreshSuccess`); an idle agent nobody has stopped has a final status for every run; implements `JobSlot` |
| `agent_clients` | 3 runs, one over the folder; failing subprocesses and mirror files; `FairSpec` (47 k) | every command is served once; the slot comes back, unless the first status update of `submit` raised (`NeverStarted`); HTTP clients end |
| `cache_alone` | 2 runs with 2 builds each, 3 versions on 2 keys, 2 tiles; a build fails anywhere (0.5 M) | published caches are whole; training finds one, that of its own data after a successful build; implements `KeyedStore` |
| `cache_shared` | 3 runs at once on one key with 2 versions; failing builds and removals (0.2 M) | one version per cache |
| `cache_overlap` | 2 builds at once, nothing fails | violation of `PublishedWhole`, section 6 |
| `track_records` | 2 attempts, 2 stage lists, 1 failure of any kind, both viewers, `FairSpec` (0.3 M) | file and row end with the outcome, merges undo nothing, the checklist is right, `run_all` and viewer end |
| `track_watch` | 1 attempt of 2 stages, nothing fails | violation of `WatchEndsWithRun`, section 6 |
| `vision` | 2 raw data sets, 5 configurations, 11 command lines; images of 8x4 and 4x4 pixels, tiles of 4x4 with stride 3, 2 units per pixel; engines of 1, 2 and 3 rows (44 k) | tiles and labels are consistent, show the objects and all of them; detections belong to the crop that showed them, for engines up to the batch size; suppression and fusion lose and double nothing; the reports agree |
| `data` | imports in every mode over whole, ragged and torn captures and one with two images under one id, repeated imports, migrations and repeated migrations, registrations, replacements, export runs, 1 `gc` pass beside 3 attempts of 2 or 3 runs, measured or not; 1 crash, a source removed during a copy (0.2 M) | the sentinel stands on a complete data set and frames are kept (`ImportsSafe`); what validates is faithful; registrations match; `gc` spares the run it has read and the caches it could know of; exports carry the weights of the checkpoint |
| `frames` | 1 mission of 2 frames, 2 pictures, 3 commands, 2 refiner versions, pictures, metadata and YOLO files that cannot be deleted, 1 crash (1.6 M) | metadata that could be removed belong to their picture; a command that ends well leaves consistent files; what validators accept is complete, but for such metadata; refining again is like capturing again |

**Bounds.** Two attempts are what the hazards of the exchange need: one that leaves
files and one that meets them; a third meets a directory of the same shape. With a
probe an attempt already has three tokens. Three instants tell before, during and after a
pause apart. Both runs use pause first, the setting of the repository; the theorems also
cover the exchange without it. For the agent, two runs with two requests each give a repeated run id, a
refused submit and a stale status; one stop is enough to hit the wrong run. For the
cache, two versions with one key and a third with another give reuse, collision and
change; two tiles are what "some but not all" needs; a third run in `cache_shared` lets
one build fail while two overlap. For run tracking, one failure at any step of the
first attempt, and a second attempt over what it left, meet every pair of positions of the
two writers; the two lists hold all stages that touch records, in runs with and without a
row.

For vision, an image of two tiles has a seam and a pinned last tile; the objects are
a small one, one across the seam and one in the corner; the network answers with nothing,
fragments on both sides of the seam, or two classes at once; engines of one, two
and three rows meet three crops in batches of two, so that the last batch is short and an engine smaller
than, as large as and larger than the batch occurs. The sizes of production (tiles of 640,
stride 320) have the same relations, and the theorems on tiles hold for all of them. For
the data, three frames have buckets on both sides of the boundaries between splits; one
crash at any step is followed by a second import; two attempts under one run id leave old
exports; three attempts over two caches, of two run ids where the first is repeated and of three where
the first is measured, make a run, a cache and its reader old at different moments; the policy keeps
one recent run, one measured run and one spare cache (the theorem takes any). For the capture output,
the third of three commands meets what the first two left: metadata that a session could not remove,
beside the picture of another session that died, and a refinement of both. The scope of each command and
the batch runner's steps are those of one mission; the theorem has any number. The theorems of section 5 remove the bounds from
the properties they state.

**Scenarios.** In `data` and `vision` the inputs are chosen, not all combinations: an
unrestricted mix of imports, runs and passes is beyond TLC. `MCDataLifecycle` and
`MCEvaluation` list them; every interleaving within a scenario is explored.

**Symmetry** is used for runs and tiles of the cache and for the clients of `agent_http`, which all use
HTTP, in runs of safety properties only. `agent_http` also has a view: over HTTP no client reads the
mirror files, and which requests were served is history of `ServedOnce`, so states that differ in these
alone are taken as one.

**Deadlock** is not checked: attempts, requests, commands and builds are bounded, so every
instance comes to rest; that nothing stops early is what the liveness properties say.

**Fairness.** `DcsExchange!FairSpec`: weak fairness of the orchestrator's step, of the
next step of either callback (DCS calls both in every frame, also when paused), of the
write of a screenshot, and of the start of the mission. Not of time, and not of a fault: a snapshot that
keeps failing is asked for again and again, and keeps the world paused until the orchestrator gives up.
`CaptureAgent!FairSpec`: weak fairness of the watcher, of submit calls and workers
(threads that wait for no one; a subprocess ends because `subprocess.run` has a timeout),
of a stop call that has begun, and of a client's polling. Nobody is obliged to make a
request or to stop one. A client over the shared folder has no liveness property: a
command read half-written is renamed `.invalid` and never answered.
`RunTracking!FairSpec`: weak fairness of the steps of `run_all` and of each training
(sequential programs; a stage ends because its command does) and of the viewer's polling.
No attempt need be started. `WatchEnds` is about a viewer of a run whose last attempt
has returned, since a viewer of a dead run has nothing that would tell it. The other modules state no
liveness: their commands are sequential programs without loops that wait.

## 5. What is proved

All theorems hold for every value of the constants that satisfies
the named assumptions of their modules: any number of attempts, runs, tiles, versions,
requests, frames, pictures, rows, sizes.

**DcsExchange.** `TypeCorrect` needs nothing. `PairingCorrect`, `SnapshotInPauseHolds`,
`PhotographedOnceHolds` and `ImplementsPaired` assume `SafeFaults`: DCS does not die
under a waiting capture, and `setPause` does not raise at the start of a mission; every
other fault may happen. `FramePairing` is not inductive: that telemetry and image agree
when a frame is committed depends on what lies in files and in the middle of callbacks
long before. The invariant `IInv` adds

- `FilesOK`: the request files are empty or hold what the orchestrator writes;
- `HookOK`: a callback inside a capture holds the pause it took;
- `FreshOK`: a token not yet announced occurs in no file and no variable of the scripts,
  so no leftover answers it;
- `PyOK`: position, mode and attempt of the orchestrator fit together;
- `CaptureOK`: for the token being waited for, the request stands, what was photographed
  or is being rendered equals the snapshot, and a snapshot exists only inside the
  callback that wrote it or after that callback marked the token processed;
- `PauseOK`: after the acknowledgement of one's own token no older callback is under way
  and the world stands still.

`CameraCorrect` (`AppliedCameraIsInFrame`) assumes `SteadyMission` instead, and the
invariant `CameraInv`: an acknowledgement "applied" for the current camera token means
the camera has that pose and no later request exists.

**CaptureAgent.** `TypeCorrect`, and with no condition on faults, stops or transports
`OneCaptureHolds`, `ImplementsJobSlot` and `SettledHolds`. `SlotInv` says for each position of
a submit call or a worker that its run holds the slot, and that only one of the two is in
progress. The death of the agent frees the slot with the memory, and not the subprocess: a capture may run
beside one of a dead agent (section 6), and `OneCapture` counts those of one agent.
`SettledInv` adds that, before the first stop call, a status "queued" or
"running" means its run holds the slot, and a worker that is about to give it back has
stored a final status. `FreshSuccessHttp` assumes that all clients use HTTP and holds with stops,
restarts and leftover adapters. Its first part is that a worker's adapter succeeded for this very request
(`Fresh`): the store forgets when the agent dies and is overwritten with "queued" before a
client starts to poll. Its second part is that the target directory holds the capture of this request
(`Unmixed`): an adapter of a dead agent may end at any time and replace it, but, unless the request was
accepted while one was at work on the run id, there is none until the client has its answer. The
exception is a real one: the agent cannot know of the leftover, whose `--overwrite` may come last.

`ServedOnceHolds` (`ServedOnce`) assumes `OnceAssumption`: every client uses HTTP, or each run
id is asked for once and the agent is not restarted. Without it the property is false over
the folder: the file of a second command under one id cannot be renamed, since the target
exists, and a restarted agent reads again what it had not renamed. Over HTTP each
request is one post with a number of its own: `HttpOnce` says that there is no command file of the
run, and that the numbers served are at most the client's current one, which is not among
them while it is being posted. Over the folder, `Folder` says that a renamed file does not come
back and the watcher submits a file that is there; `FolderOnce` that after the acceptance
the file is gone or about to be renamed, or the submit call raised and the agent stays busy with
the run for ever, so that the watcher, which reads the file at every scan, is refused.

**TileCache.** `TypeCorrect` for all faults. `PublishedWholeHolds`, `TrainedHolds`
and `ImplementsKeyedStore` under `Alone` (`Faults \subseteq {"fail"}`):
builds fail anywhere but do not overlap, and a removal by the collector is finished. `IInv`
adds that what stands under a key and is not being collected is complete (`FinalOK`);
that one build runs at a time, over the version it has hashed (`Exclusive`); that the
`.building` directory holds what the position of its build says (`Progress`); that the
collector's list covers what is still there, and no training is due (`Collecting`). It
also shows that under `Alone` the two removals of a published directory in
`build_or_reuse_cache` never happen (`NothingInTheWay`): they matter for overlapping
builds and interrupted collections only, the cases of `cache_shared`.

`OneVersionHolds` has no condition: builds overlap, fail, remove each other's directories, and the
collector stops half-way. `VersionInv` says that each directory, published or in `.building`,
holds files of one version, and that the directory of any build between its `mkdir` and its
`os.replace` holds files of the version that is there now. The last part works because the data
set changes only when no build runs; emptying, closing and removing only shrink a directory (`Shrunk`),
and a build writes the version there is (`BuildWrites`).

**RunTracking.** `TypeCorrect`, `LastWordHolds`, `NoClobberHolds` and
`RegistryClosedHolds`, for all stage lists in canonical order, any number of attempts and all
faults; the condition that no training of an earlier attempt is alive (`~disturbed`) is part
of `LastWord` and `NoClobber`. The invariant `IInv` adds to the types: `LoopOK`, the stages
ahead have no result and a breadcrumb is that of a build that succeeded; `WritersOK`, only
the process that is at a merge is in the middle of one, and a live training means that
`run_all` waits or is dead; `Quiet`, without a stray training a merge in progress holds the
file as it is plus its change, which is what makes read-modify-write safe here: the two
processes never merge at once; `RecordOK`, what the file says at every position. `RowOK`
says that nothing but `finish` changes the row's status after the update stage, since
`create_pipeline_run` comes earlier in the canonical order. `RowsHonestHolds` (`RowsHonest`) is
about the first attempt: in the control room's checklist every stage that has ended shows its
result, the one in execution is active and those to come are pending. The checklist is inferred
from the event log and `status.json`, which are written one after the other, by two processes.
`ViewOK` says what both hold at each position of `run_all`: the latest event of a stage is its
result when it has ended (`LogOK`), and the file names a selected stage that has been reached, the
current one during its execution (`FileOK`). A training belongs to the stage `run_all`
is at (`TrainerOK`), and its merges change neither stage nor status.

**Boxes.** `AxisPositions` for all lengths, tile sizes and strides: `TilesInside` (a tile
starts on the axis and only the single tile of a short axis reaches beyond it), `TilesCover`
(no pixel is left out when the stride is no longer than a tile), `StretchInOneTile` (a stretch
no longer than the overlap lies whole in one tile) and, in two dimensions and with the
clipping and the visibility threshold of the labels, `SmallObjectWhole`: the general form of
`ObjectsNotLost` for one scale. They use that consecutive positions differ by at most a
stride, and that the last one is pinned.

**DataLifecycle.** All for any frames, data sets, runs, caches and scenarios, for all
interleavings of imports, stages and passes, and a crash at any step.

`RetentionSafeHolds` takes every policy that keeps at least one run. The
rows of runs have different ids, none has a start later than the current attempt
(`RowFields`, `PipeInv`); in what a pass has read, the row of the attempt that goes on, if there
is one with its start, is the newest and hence among the `KeepLast` (`PassInv`, `PlanSeen`). The run and the cache are
recorded in different rows, which `collect_state` reads at different moments, so there are two ways for the
pass to know of the cache: the row of the run with the cache in it, or the row of the cache as this
attempt wrote it, which is then the newest of its data set and spared if the policy keeps a spare one
(`PlanCaches`, `PlanSparesNew`; `configs/retention.yaml` keeps three). `RetentionSafe` says that a cache
which the row of the run names by now is planned for removal only if the pass had neither; what the code
does not protect is listed in section 6.

`ExportSoundHolds` (`ExportSound`) rests on `ExportInv`. A training begins with what earlier
attempts left, so no file has weights of later than its checkpoint (`FilesOK`). The stages
of a selection are in canonical order (`InOrder`, an assumption on scenarios that `_select_stages`
justifies), so nothing changes the inputs of a stage that has ended well: `ProcOK` says which
stage a subprocess belongs to, `WorkOK` that the content it is about to write comes from the
files there are, `LeftOK` what each stage that ended well has left, also after the attempt is
over. `RowsOK` counts: while `register_artifacts` works, each file has its row or is on the list.

`ImportsSafeHolds` (`ImportsSafe`) rests on `DatasetInv`, in which three parts do
the work. `InOrderSoFar`: as long as something but the manifest is ahead, no sentinel is in the
target, and a torn image is the one in hand. `DoneOrAhead`: each annotation file and each image
that the target is to have is there or on the list. `CopiedOrAhead`: a frame is in the target, whole, or
ahead, so that a source may go. They are about the list of writes that `NormalizeTodo` and `MigrateTodo`
compute from a whole COCO file, so the module first proves what filtering and flattening
a sequence return (`ThoseOf` and the lemmas after it). `Those` is a recursive function, not an
operator, for this reason; the inductions go through `AllNaturals`, a set of naturals that
contains 0 and all successors, proved from the least element of a set of naturals. The assumption
is `LeftBefore`: what commands of earlier times left, the scenarios' `raw`, has a sentinel
on complete directories only.

`RegistryFaithfulHolds` (`RegistryFaithful`) needs the order of two programs that know nothing of each
other. A registration hashes the directory at one moment and reads each split at another; the property
speaks of the content that was hashed if it is there at the end. So an import in between must not
be able to leave the hashed content's date over other annotations, or bring it back. What dates an import is
the sentinel of a normalization and the report of a migration (`DateOf`): the sentinel of a
migration copies the date of its source, and the report is its last file. `StampOK`: a date
is the number of the import that wrote it, and once an import has begun to
replace a data set, nothing with its number is there before it writes it. `TakenOK`: for
every content that was hashed with its date (`Dated`), while the date is the same, the annotations are the
same or have begun to be removed. A content without its date, a migration hashed before its report was
written, is outside the theorem: a second migration of the same source brings the same bytes back.
Hence what a registration reads is, as long as date and
annotations stand (`Stands`), what it has hashed: `ReadSoFar` says that the rows in the
tables and those waiting are the rows of the splits read so far, and `KeptOK` carries the
result on. `RegisteringOK` and `KeysOK` are the foreign keys and the shape of the subprocess.

`ValidatedIsFaithfulHolds` (`ValidatedIsFaithful`) rests on `FaithInv`. Once the three annotation files
of a directory are whole and the splits have no frame and no annotation id in common, it holds what its last
import was to hold (`Faith`); this is said of the directory on the disk and of what a running import is to
leave, whose documents are the only whole ones in its target (`WrittenBy`), so that it survives an import that is
cut off or runs over another. Of a normalization it is `NormalizeFaith`: a split takes the images
with the ids that go there (`SplitOf`), so two images of one id go to each other's split, and the
validator sees a frame twice. Of a migration it is `MigrateFaith`, with
`RemapLabels`: renumbering keeps the name of every class but the buoys. The counts
are `ValidCounts`: as many frames as images, as many labels as annotations, by the validator's
own checks of ids. The assumption `CapturesAssumption` is needed for the counts and the migration: a capture lists
each frame once, which is `CocoTrue` of `OutputConsistent` (a file that lists one
frame under two ids in one split validates, and is not faithful), and an earlier command
wrote the class list and the categories of the splits together, as both commands do.

`TypeCorrect` (`TypeOK`) combines `DatasetInv` and `ExportInv` with `PlacesOK`.

**CaptureOutput.** `RefinedHolds` (`RefinedLikeCaptured`) and `OutputConsistentHolds`
(`OutputConsistent`), for any missions, frames, pictures, refiner versions, files that cannot be removed and crashes. The first
rests on `LikeBuilt`: whatever was done to a frame, each object keeps the proposal of the
object it was built from, and is what `RefineObject` makes of that object with the last
configuration, as long as only the first one fell back to geometry; commands carry metadata
between their steps, so `OutputInv` says it of these too.

The second is about three things. `MetadataOfImage` (`ImageInv`) needs what lies on the disk at
each position of a session: the metadata of a frame is gone before its picture is touched, or could not
be removed and is marked `kept` until a session replaces it. `MetadataOfImage`, `AcceptedIsComplete` and
`RefinedLikeCaptured` leave such files out, since `clear_artifacts` only warns (section 6);
`TrueWhenDone` does not, because a session that ends well has replaced the metadata of its frames, and a
refinement makes labels of the metadata there are.
`TrueWhenDone` (`FileInv`) needs what a command has done so far: `SessionInv` and `RefineInv`
say that the frames of its scope that are no longer ahead (`Ready`) have whole metadata and a YOLO
file with their labels (`Done`), and that what a session has exported (`Exports`) lists exactly
the usable ones among them. `Exports` says more than `Describes`, so that it
survives one more frame (`AddExports`): ids count up, and the annotations of an image are one
stretch of the list. That a rebuild sees every frame once is `AllFramesOf` (the names of
the files, sorted, enumerate the frames) and `CollectedExports`, by induction over the files read
(`UpTo`, from the least element of a set of naturals). It holds because a session writes a frame
only once (`Distinct`), and since an earlier frame of the
session keeps its files while a later one is taken. `AcceptedIsComplete` follows from `OnDisk` (a picture that has metadata of its own
beside it is whole) and a count: a COCO file with as
many images as there are frames, each of a different frame, has them all (`AllListed`). `BatchInv`
says that the batch runner's list holds its own kinds of steps.

**Model-checked only:**

- liveness (`CaptureCompletes`, `CaptureUnpauses`, `BecomesIdle`, `HttpClientsEnd`, `RunEnds`,
  `WatchEnds`), which the prover cannot treat;
- `EnrichmentSound`, `DetectionsTraceable`, `ReductionSound` and `ScoresHonest` of `vision`: their subject
  are folds and sums over sequences of any length, and the community modules' folds cannot be
  unfolded by the provers; the recursive functions of `RawDatasets` are as far as induction goes here;
- the two violations.

## 6. Disagreements between the code and its own texts

Two runs are expected to fail. Each checks one property that a text of the repository
states.

- `cache_overlap`: `tile_cache.py:246` says that a half-built cache never carries
  status=complete. A second build of the same id takes the first one's `.building` for a
  leftover and removes files from it, and the first publishes the rest.
- `track_watch`: `tui.py:362` says that the live view refreshes until the run reaches a
  terminal status, `docs/tui.md:15` that `run --watch` renders the status until the run
  finishes. `emit_stage` (`status_tracker.py:135`) stores the "success" of every stage as the status
  of the run, and a viewer that polls before the next stage has started leaves. The worker
  of `run --watch` is a daemon thread, so the run ends ten seconds later (`cli.py:174`).

Met while modelling, some visible under other settings of the constants, and not kept as runs.

Capture exchange and agent:

- `dcs_restart` violates `FramePairing`, against `dcs_export/README.md:66`, by which the
  token guarantees that a screenshot of one attempt is not mixed with a snapshot of another.
  When DCS dies after the snapshot and starts again while the orchestrator still waits, the
  request file is still there, the new hook process does not remember the token, and
  photographs the new mission under the old snapshot's token.
- After a capture that timed out while it held the pause, nobody releases it until the next
  capture does (`dcs_exchange.py:142`); `paused_by_cv` (`Hooks.lua:20`) is a cached flag that a
  person who unpauses DCS by hand makes wrong.
- An acknowledgement is removed and then renamed (`Hooks.lua:150`): a reader in between finds
  none, and a rename that fails leaves none.
- `wait_for_stable_file` takes two equal sizes for a finished screenshot
  (`dcs_exchange.py:207`).
- `process_manager.py:117` calls `stop` a graceful stop of a running capture. A stop that is
  acknowledged before the worker's first update is overwritten by "running"; the worker
  then sees the flag and leaves without a final status. A stop whose check passes as its
  run ends sets the flag for the next run (`process_manager.py:121`).
- The stop file of the shared folder (`agent_client.py:149`) is read by nobody.
- After an agent restart a new capture may run beside the subprocess of the old agent,
  against the first line of `process_manager.py`. If it is the adapter and the run id is asked for again, it
  may replace the new data set after its success was reported; `FreshSuccess` leaves this case out
  (`beside`).
- An exception of the first status update in `submit` (`process_manager.py:102`) leaves
  the slot taken.
- A command whose rename fails (`command_folder_watcher.py:79`) is submitted again, against lines 3-5 of
  that file, by which handled commands are renamed so that they are not.
- Over the shared folder, a client with a used run id reads the old status
  (`agent_client.py:133`), and a command read half-written is lost
  (`agent_client.py:204`).

Runs, records and caches:

- Without the condition `~disturbed`, `LastWord` and `NoClobber` fail: the training of a killed attempt
  merges a copy it has read before the next attempt changed the file, against `status_tracker.py:17-20`,
  by which a writer such as the train subprocess cannot clobber fields another writer set.
- A run whose artifacts are registered cannot be created again: `create --replace` deletes
  the row without the rows that refer to it (`pipeline_run_status.py:60`), and fails.
- `run_live` reads the last 8 events (`tui.py:370`); a stage that failed before them is shown
  as done, because a stage before the current one counts as passed (`tui.py:212`).
- The control room of `run --watch` is not told when the worker ends (only `run_live` gets
  `stop_event`); after an exception of the tracker it stays open on "running".
- `gcfail` violates `PublishedWhole`: a removal that stops half-way leaves a directory
  that still passes `cache_is_valid` (`tile_cache.py:79`), which counts annotation files
  and not images.
- Two runs started before either has made its directory draw the same run id: the next free
  number of the day is looked up and not reserved (`run_id.py:23`).
- `dataset_id` is never set on the row of a run (`pipeline_run_status.py:62`).

Data sets, registry, retention:

- A collector measures the age of a staging directory by the time of the directory itself
  (`gc.py:244`), which a file written in a subdirectory does not touch, and asks nobody whether it is
  in use: an import may lose its source. The targets of such imports are in `broken`.
- Not protected from `gc` are a run that begins after `collect_state` has read the runs (`gc.py:221`); an
  attempt whose `create --replace` was refused and that keeps its old start; and a cache that a run
  records after its row was read, if the policy keeps no spare caches, or if it is an older cache,
  taken over, that was registered again after the caches were read (`gc.py:236`).
- A migration copies `created_at` of its source (`migrate_legacy_dataset.py:230`): until the reports are
  written, two migrations of one source have the same content hash, and a registration may take one for the other.
  A source without a `dataset_info.json` gives a data set that `register_dataset.py:80` refuses, after it has
  dropped the old rows.
- The key of an artifact is its base name (`register_artifacts.py:217`): of two files with one
  name in two directories the second is skipped.
- A label without image is dropped by every split, while `info.num_annotations` counts it;
  the validator compares other numbers.
- In move mode a migration leaves the sentinel of its source beside frames that are gone
  (`broken`); with `--overwrite` and equal paths it would clear its own source
  (`migrate_legacy_dataset.py:188`).
- `normalize` removes the old target before it has parsed the new source or checked the ratios.

Inference:

- `inference.py:438-439` says that the buffers are allocated again when the batch size changes. They are not:
  an engine with fewer rows than a batch leaves crops without detections, one with more stores spare rows
  as later crops' (`inference.py:533-576`). The defaults, an engine of one row and `--batch-size 8`,
  are the first case.

Capture output:

- `clear_artifacts` goes on with a warning when a file cannot be removed (`main.py:202-210`). If that is the
  metadata and the session then fails or dies, old metadata lie beside a new picture, perhaps one that is cut
  off, and `validate_static_neutral_dataset.py` accepts them; a refinement then searches the old
  objects in the new picture.
- The same validator accepts a YOLO file that is cut off at the end of a line (lines 129-136).
- `refine_dataset.py:8-11` promises labels "in lock-step with a freshly captured frame". With
  `fallback_to_geometry_on_failure` (`configs/caucasus_static_neutral_capture.yaml:87`) a
  second refinement that sees nothing keeps the tier `exact_visible` on a geometry box, and an
  object refused once stays refused; `RefinedLikeCaptured` leaves this case out.
- A crash between the YOLO and the COCO file of a frame captured again leaves old labels in the
  COCO file, which the validator accepts since it compares counts; `TrueWhenDone` asks for
  true labels after a command that ended well.
- A write of metadata in place that is cut off makes the next `refine_dataset` fail on the
  frame, and `rebuild_coco_from_metadata` leaves the frame out without an error.
- The COCO file of a session holds the frames of its own process only, and replaces that of
  the session before; the batch runner rebuilds it at the end.
- `validate_mission_capture` speaks of a minimum number of usable frames, but counts every
  unusable frame as an error.

## 7. What is not modelled, and the plan

Not modelled, and why:

- Training: wraps YOLOX and torch. What it shares with others, the lookup of the tile cache and the
  merges into `status.json`, is in `TileCache` and `RunTracking`.
- Scenario builder and mission files: generated once, offline, by one process.
- Projection, camera planning, the box refiners: geometry in floating point and image
  processing. `CaptureOutput` takes what a refiner sees as an input.
- Configuration, storage paths, logging, MLflow: plumbing without a protocol.
- Pixels, drawing, overlays and the wording of reports, everywhere.

Parts of modelled components that are left out are named in section 3 and in the notes of
`PROJECT.json`.

Next, in this order:

1. `AckPoll`: the acknowledgement file at the grain of remove, rename, exists and open,
   and the polling loops with their timeouts.
2. Theorems: the letterbox and the way back to the source for all sizes, and with it the
   part of `EnrichmentSound` that is about one image.
3. A liveness property of shared-folder clients, once the agent answers a command it could
   not read.
4. Two imports at once, with two agents on one storage.
