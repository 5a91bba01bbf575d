---------------------------- MODULE CaptureOutput ----------------------------
(***************************************************************************)
(* What captures leave behind: the dataset directory of the capture host.  *)
(* orchestrator/main.py writes for each frame an image, a metadata file    *)
(* and a YOLO file, and after each frame one COCO file for the frames of   *)
(* its process.  refine_dataset fits the boxes of the frames on disk       *)
(* again, rebuild_coco_from_metadata writes the COCO file again, and the   *)
(* batch runner captures mission after mission and rebuilds at the end.    *)
(* One command runs at a time; it may stop at any step.                    *)
(*                                                                         *)
(* The exchange with DCS that takes one picture is DcsExchange.            *)
(***************************************************************************)
EXTENDS Integers, Sequences, FiniteSets, SequencesExt, Lists

CONSTANTS
  Missions, FramesPerMission,   \* how many, in the batch; frames per session
  MinUsable, MinPositions,      \* the bars of validate_mission
  Scenes,        \* what a picture may show
  Versions,      \* versions of the box refiner
  Configs,       \* the version and settings a command may run with
  Undeletable,   \* kinds of files that another program may hold open
  MaxShots, MaxCommands, MaxCrashes   \* bounds

Mission == 1..Missions
Frames == {<<m, i>> : m \in Mission, i \in 1..FramesPerMission}
FramesOf(m) == [i \in 1..FramesPerMission |-> <<m, i>>]
Before(f, g) == f[1] < g[1] \/ (f[1] = g[1] /\ f[2] < g[2])

\* sorted(glob("*.json")): by mission prefix, then by the padded number.
Sorted(frames) ==
  {s \in UNION {[1..n -> frames] : n \in 0..Missions * FramesPerMission} :
     Range(s) = frames /\ \A i, j \in DOMAIN s : i < j => Before(s[i], s[j])}
AllFrames ==
  [k \in 1..Missions * FramesPerMission |->
     <<((k - 1) \div FramesPerMission) + 1, ((k - 1) % FramesPerMission) + 1>>]

ALLOWED_CLASSES == {"ships", "helicopters", "airplanes"}
ALLOWED_TIERS == {"exact_visible", "exact", "strong", "approximate"}

\* What a version of the refiner makes of the pixels inside a proposal box:
\* none, a fit of no size, a fit below the bar of the mission validator, a
\* fit, a fit of half the image, or a proposal outside the image.
Sights == {"nothing", "speck", "tiny", "body", "huge", "outside"}
RawObject == [class : ALLOWED_CLASSES \cup {"unknown"}, box : {"none", "bad", "good"},
              trusted : BOOLEAN, sees : [Versions -> Sights]]
Scene == [sync : BOOLEAN, height : BOOLEAN, level : BOOLEAN, pose : Nat, objects : Seq(RawObject)]

ASSUME OutputAssumption ==
  /\ Missions \in Nat \ {0} /\ FramesPerMission \in Nat \ {0}
  /\ Scenes \subseteq Scene /\ Configs \subseteq [version : Versions, fallback : BOOLEAN]
  /\ Undeletable \subseteq {"image", "metadata", "yolo"}
  /\ MaxShots \in Nat /\ MaxCommands \in Nat /\ MaxCrashes \in Nat

VARIABLES
  image,      \* per frame: images/<frame>.png
  metadata,   \* per frame: metadata/<frame>.json
  yolo,       \* per frame: yolo_labels/<frame>.txt
  coco,       \* annotations/_annotations.coco.json
  job,        \* the command that runs, or the last one
  batch,      \* what the batch runner still does
  shots, commands, crashes

files == <<image, metadata, yolo, coco>>
vars == <<files, job, batch, shots, commands, crashes>>

Missing == [at |-> "missing"]
Torn == [at |-> "torn"]
Doc(x) == [at |-> "whole", doc |-> x]
Whole(f) == f.at = "whole"
There(f) == f.at # "missing"

NoImage == [there |-> FALSE, whole |-> FALSE, shot |-> 0]

\* by and kept, a history: the configurations the boxes were refined with, oldest
\* first, and whether a session tried in vain to remove the file.
NoScene == [sync |-> FALSE, height |-> FALSE, level |-> FALSE, pose |-> 0, objects |-> <<>>]
NoMetadata == [at |-> "missing", shot |-> 0, scene |-> NoScene, objects |-> <<>>,
               usable |-> FALSE, by |-> <<>>, kept |-> FALSE]
TornMetadata == [NoMetadata EXCEPT !.at = "torn"]

-----------------------------------------------------------------------------
(***************************************************************************)
(* build_frame_metadata: the objects of the snapshot, with proposal boxes. *)
(***************************************************************************)
\* validate_projection and the tier rules that follow it.
BuildObject(o) ==
  [class |-> o.class, box |-> IF o.box = "none" THEN "none" ELSE "geometry", proposal |-> "none",
   valid |-> o.box = "good", sees |-> o.sees,
   tier |-> IF o.box # "good" THEN "reject" ELSE IF o.trusted THEN "strong" ELSE "approximate"]

Usable(scene, objects) ==
  scene.sync /\ scene.height /\ \E k \in DOMAIN objects : objects[k].valid

Built(shot, scene) ==
  LET seen == Those(scene.objects, {o \in Range(scene.objects) : o.class \in ALLOWED_CLASSES})
      objects == [k \in DOMAIN seen |-> BuildObject(seen[k])]
  IN [at |-> "whole", shot |-> shot, scene |-> scene, objects |-> objects,
      usable |-> Usable(scene, objects), by |-> <<>>, kept |-> FALSE]

(***************************************************************************)
(* refine_frame                                                            *)
(***************************************************************************)
Fitted(o, version, accepted) ==
  [o EXCEPT !.box = version, !.valid = accepted, !.tier = IF accepted THEN "exact_visible" ELSE "reject"]

\* The tier of the object stays as it was.
GeometryFallback(o) == [o EXCEPT !.box = "clipped"]

Refused(o) == [o EXCEPT !.box = "none", !.valid = FALSE, !.tier = "reject"]

\* Searched in the last box, not in the projected one.
WithProposal_Bug(o) == [o EXCEPT !.proposal = o.box]

\* The box of the projection is kept, as the region to search when the object is
\* refined once more.
WithProposal(o) == IF o.proposal = "none" THEN [o EXCEPT !.proposal = o.box] ELSE o

RefineObject(obj, config) ==
  LET o == WithProposal(obj)
      sight == o.sees[config.version]
  IN IF o.proposal = "none" THEN obj
     ELSE CASE sight = "speck" -> Fitted(o, config.version, FALSE)
            [] sight \in {"tiny", "body", "huge"} -> Fitted(o, config.version, TRUE)
            [] sight = "nothing" /\ config.fallback /\ o.valid -> GeometryFallback(o)
            [] OTHER -> Refused(o)

\* An image that cannot be read leaves the metadata as it is.
Refined(md, config, readable) ==
  LET objects == [k \in DOMAIN md.objects |-> RefineObject(md.objects[k], config)]
  IN IF ~readable THEN md
     ELSE [md EXCEPT !.objects = objects, !.usable = Usable(md.scene, objects),
                     !.by = Append(@, config)]

(***************************************************************************)
(* DatasetExporter, and the same rules in rebuild                          *)
(***************************************************************************)
Exportable(o) == o.valid /\ o.tier \in ALLOWED_TIERS /\ o.box # "none"

Labels(md) ==
  IF md.usable THEN Those(md.objects, {o \in Range(md.objects) : Exportable(o)}) ELSE <<>>

YoloOf(md) == [k \in DOMAIN Labels(md) |-> [class |-> Labels(md)[k].class, box |-> Labels(md)[k].box]]

NothingExported == [images |-> <<>>, anns |-> <<>>]

AddFrame(acc, f, md) ==
  LET id == Len(acc.images) + 1
      labels == Labels(md)
  IN IF ~md.usable THEN acc
     ELSE [images |-> Append(acc.images, [id |-> id, frame |-> f]),
           anns |-> acc.anns \o [k \in DOMAIN labels |->
             [id |-> Len(acc.anns) + k, image |-> id, class |-> labels[k].class,
              box |-> labels[k].box, tier |-> labels[k].tier]]]

\* The metadata files that parse, in the order of their names.
Collected ==
  LET upTo[n \in 0..Len(AllFrames)] ==
        IF n = 0 THEN NothingExported
        ELSE IF metadata[AllFrames[n]].at = "whole"
             THEN AddFrame(upTo[n - 1], AllFrames[n], metadata[AllFrames[n]]) ELSE upTo[n - 1]
  IN upTo[Len(AllFrames)]

-----------------------------------------------------------------------------
(***************************************************************************)
(* The commands.  left: the frames still to be done, the current one first;*)
(* md, exported: the memory of the process.                                *)
(***************************************************************************)
NoConfig == [version |-> "none", fallback |-> FALSE]
NoJob == [pc |-> "idle", kind |-> "none", scope |-> {}, config |-> NoConfig, left |-> <<>>,
          open |-> FALSE, md |-> NoMetadata, exported |-> NothingExported, result |-> "none"]

FirstStep == [session |-> "unlink_image", refine |-> "reread", rebuild |-> "collect"]
Running == job.pc # "idle"

Starts(kind, frames, config) ==
  job' = [NoJob EXCEPT !.kind = kind, !.scope = Range(frames), !.config = config, !.left = frames,
            !.pc = IF kind = "refine" /\ frames = <<>> THEN "collect" ELSE FirstStep[kind]]
Ends(result) == job' = [NoJob EXCEPT !.kind = job.kind, !.scope = job.scope, !.result = result]

NoBatch == [todo |-> <<>>, keepGoing |-> FALSE]

Init ==
  /\ image = [f \in Frames |-> NoImage] /\ metadata = [f \in Frames |-> NoMetadata]
  /\ yolo = [f \in Frames |-> Missing] /\ coco = Missing
  /\ job = NoJob /\ batch = NoBatch
  /\ shots = 0 /\ commands = 0 /\ crashes = 0

Asked ==
  /\ ~Running /\ batch.todo = <<>>
  /\ commands < MaxCommands /\ commands' = commands + 1
  /\ UNCHANGED <<files, shots, crashes>>

\* main.py --frames N --frame-id <mission>, or one frame by its own id.
Session ==
  /\ Asked /\ UNCHANGED batch
  /\ \E frames \in {FramesOf(m) : m \in Mission} \cup {<<f>> : f \in Frames}, c \in Configs :
       Starts("session", frames, c)

Existing == {f \in Frames : metadata[f].at # "missing"}

\* refine_dataset.py, of all frames or of --frame-id.
RefineDataset ==
  /\ Asked /\ UNCHANGED batch
  /\ \E frames \in Sorted(Existing) \cup {<<f>> : f \in Frames}, c \in Configs : Starts("refine", frames, c)

Rebuild == Asked /\ Starts("rebuild", <<>>, NoConfig) /\ UNCHANGED batch

(***************************************************************************)
(* The steps of a command                                                  *)
(***************************************************************************)
Frame == Head(job.left)
At(pc) == job.pc = pc
GoTo(pc) == job' = [job EXCEPT !.pc = pc, !.open = FALSE]
Opened == job' = [job EXCEPT !.open = TRUE]
Quiet == UNCHANGED <<batch, commands, crashes>>

\* The next frame, or what follows the last one.
NextFrame(last) ==
  job' = [job EXCEPT !.left = Tail(@), !.open = FALSE,
                     !.pc = IF Tail(job.left) = <<>> THEN last ELSE FirstStep[job.kind]]

\* clear_artifacts: a file that cannot be removed is left, with a warning.
ClearArtifact ==
  /\ \/ /\ At("unlink_image") /\ GoTo("unlink_metadata") /\ UNCHANGED <<metadata, yolo>>
        /\ \/ image' = [image EXCEPT ![Frame] = NoImage]
           \/ "image" \in Undeletable /\ UNCHANGED image
     \/ /\ At("unlink_metadata") /\ GoTo("unlink_yolo") /\ UNCHANGED <<image, yolo>>
        /\ \/ metadata' = [metadata EXCEPT ![Frame] = NoMetadata]
           \/ /\ "metadata" \in Undeletable /\ There(metadata[Frame])
              /\ metadata' = [metadata EXCEPT ![Frame] = [@ EXCEPT !.kept = TRUE]]
     \/ /\ At("unlink_yolo") /\ GoTo("shoot") /\ UNCHANGED <<image, metadata>>
        /\ \/ yolo' = [yolo EXCEPT ![Frame] = Missing]
           \/ "yolo" \in Undeletable /\ UNCHANGED yolo
  /\ Quiet /\ UNCHANGED <<coco, shots>>

\* The exchange with DCS, which may fail, then copy2 of the screenshot.
Shoot ==
  /\ At("shoot")
  /\ \/ /\ ~job.open /\ shots < MaxShots
        /\ \E s \in Scenes : job' = [job EXCEPT !.open = TRUE, !.md = Built(shots + 1, s)]
        /\ shots' = shots + 1
        /\ image' = [image EXCEPT ![Frame] = [there |-> TRUE, whole |-> FALSE, shot |-> shots + 1]]
     \/ ~job.open /\ Ends("failed") /\ UNCHANGED <<shots, image>>
     \/ /\ job.open /\ GoTo("metadata") /\ UNCHANGED shots
        /\ image' = [image EXCEPT ![Frame] = [@ EXCEPT !.whole = TRUE]]
  /\ Quiet /\ UNCHANGED <<metadata, yolo, coco>>

\* The exporter gets the frame before its boxes are refined.
WriteMetadata_Bug ==
  /\ At("metadata")
  /\ \/ LET md == Refined(job.md, job.config, image[Frame].whole)
        IN /\ metadata' = [metadata EXCEPT ![Frame] = md]
           /\ job' = [job EXCEPT !.pc = "yolo", !.md = md, !.exported = AddFrame(@, Frame, job.md)]
     \/ metadata[Frame].kept /\ Ends("failed") /\ UNCHANGED metadata
  /\ Quiet /\ UNCHANGED <<image, yolo, coco, shots>>

\* refine_frame, atomic_write_json, add_frame.  A file that cannot be removed
\* cannot be replaced either, and its session fails (json_io.py:38-46).
WriteMetadata ==
  /\ At("metadata")
  /\ \/ LET md == Refined(job.md, job.config, image[Frame].whole)
        IN /\ metadata' = [metadata EXCEPT ![Frame] = md]
           /\ job' = [job EXCEPT !.pc = "yolo", !.md = md, !.exported = AddFrame(@, Frame, md)]
     \/ metadata[Frame].kept /\ Ends("failed") /\ UNCHANGED metadata
  /\ Quiet /\ UNCHANGED <<image, yolo, coco, shots>>

\* The metadata, with what this version of the refiner finds in the picture beside
\* them: anything, when that is not the picture they describe.
AsSeen(f, version) ==
  LET md == metadata[f]
  IN IF ~image[f].there \/ ~image[f].whole \/ image[f].shot = md.shot THEN {md}
     ELSE {[md EXCEPT !.objects = [k \in DOMAIN md.objects |->
                                     [md.objects[k] EXCEPT !.sees = [@ EXCEPT ![version] = sights[k]]]]] :
             sights \in [DOMAIN md.objects -> Sights]}

Reread ==
  /\ At("reread")
  /\ IF metadata[Frame].at # "whole" THEN Ends("failed")
     ELSE \E md \in AsSeen(Frame, job.config.version) :
            job' = [job EXCEPT !.pc = "rewrite", !.md = Refined(md, job.config, image[Frame].whole)]
  /\ Quiet /\ UNCHANGED <<files, shots>>

\* write_json of refine_dataset: in place.
Rewrite ==
  /\ At("rewrite")
  /\ \/ ~job.open /\ Opened /\ metadata' = [metadata EXCEPT ![Frame] = TornMetadata]
     \/ job.open /\ GoTo("yolo") /\ metadata' = [metadata EXCEPT ![Frame] = job.md]
  /\ Quiet /\ UNCHANGED <<image, yolo, coco, shots>>

WriteYolo ==
  /\ At("yolo")
  /\ \/ ~job.open /\ Opened /\ yolo' = [yolo EXCEPT ![Frame] = Torn]
     \/ /\ job.open /\ yolo' = [yolo EXCEPT ![Frame] = Doc(YoloOf(job.md))]
        /\ IF job.kind = "session" THEN GoTo("coco") ELSE NextFrame("collect")
  /\ Quiet /\ UNCHANGED <<image, metadata, coco, shots>>

\* refine_dataset stops at a file that does not parse, the rebuild leaves it out.
Collect ==
  /\ At("collect")
  /\ IF job.kind = "refine" /\ \E f \in Frames : metadata[f].at = "torn" THEN Ends("failed")
     ELSE job' = [job EXCEPT !.pc = "coco", !.exported = Collected]
  /\ Quiet /\ UNCHANGED <<files, shots>>

\* write_coco; a session then turns to its next frame.
WriteCoco ==
  /\ At("coco")
  /\ \/ ~job.open /\ Opened /\ coco' = Torn
     \/ /\ job.open /\ coco' = Doc(job.exported)
        /\ IF job.kind = "session" /\ Tail(job.left) # <<>> THEN NextFrame("idle") ELSE Ends("ok")
  /\ Quiet /\ UNCHANGED <<image, metadata, yolo, shots>>

\* The process of the command dies, and the batch runner with it or not.
Crash ==
  /\ Running /\ crashes < MaxCrashes /\ crashes' = crashes + 1
  /\ Ends("crashed") /\ batch' \in {batch, NoBatch}
  /\ UNCHANGED <<files, shots, commands>>

CommandStep ==
  \/ ClearArtifact \/ Shoot \/ WriteMetadata \/ Reread \/ Rewrite \/ WriteYolo \/ Collect
  \/ WriteCoco

(***************************************************************************)
(* The two validators                                                      *)
(***************************************************************************)
\* A box that is not a fit is taken to have a size in between.
Size(o) == IF o.box \in Versions THEN o.sees[o.box] ELSE "body"
Boxes(md) == {k \in DOMAIN md.objects : md.objects[k].valid /\ md.objects[k].box # "none"}
Sized(md, sizes) == {k \in Boxes(md) : Size(md.objects[k]) \in sizes}

Captured(m) == {f \in Frames : f[1] = m /\ metadata[f].at # "missing"}
Poses(frames) == {metadata[f].scene.pose : f \in frames}

\* validate_mission_capture: of one mission.  An unusable frame is an error.
MissionValid(m) ==
  /\ Captured(m) # {}
  /\ \A f \in Captured(m) :
       /\ metadata[f].at = "whole" /\ metadata[f].usable /\ metadata[f].scene.level
       /\ Sized(metadata[f], {"huge"}) = {} /\ Sized(metadata[f], {"body"}) # {}
  /\ Cardinality(Poses(Captured(m))) >= MinPositions
  /\ Cardinality(Captured(m)) >= MinUsable

\* validate_static_neutral_dataset: of the whole directory.  A YOLO file that was
\* cut off at the end of a line passes, so one that is torn may be accepted.
DatasetValid ==
  /\ \A f \in Frames :
       /\ image[f].there /\ metadata[f].at = "whole" /\ metadata[f].usable
       /\ metadata[f].scene.level
       /\ Sized(metadata[f], {"huge"}) = {} /\ Boxes(metadata[f]) # {}
       /\ There(yolo[f]) /\ (Whole(yolo[f]) => yolo[f].doc # <<>>)
  /\ \A m \in Mission : Cardinality(Poses(Range(FramesOf(m)))) = FramesPerMission
  /\ Whole(coco) /\ Len(coco.doc.images) = Cardinality(Frames) /\ coco.doc.anns # <<>>

(***************************************************************************)
(* run_caucasus_static_neutral_100.ps1                                     *)
(***************************************************************************)
BatchSteps ==
  [k \in 1..2 * Missions + 1 |->
     IF k = 2 * Missions + 1 THEN [what |-> "rebuild", mission |-> 0]
     ELSE [what |-> IF k % 2 = 1 THEN "capture" ELSE "check", mission |-> (k + 1) \div 2]]

Batch ==
  /\ Asked /\ UNCHANGED job
  /\ \E keep \in BOOLEAN : batch' = [todo |-> BatchSteps, keepGoing |-> keep]

Of(what) == ~Running /\ batch.todo # <<>> /\ Head(batch.todo).what = what
MissionAt == Head(batch.todo).mission
BatchOn == batch' = [batch EXCEPT !.todo = Tail(@)]

\* With the settings of caucasus_static_neutral_capture.yaml.
BatchCapture ==
  /\ Of("capture") /\ BatchOn
  /\ \E c \in Configs : c.fallback /\ Starts("session", FramesOf(MissionAt), c)
  /\ UNCHANGED <<files, shots, commands, crashes>>

\* A mission that failed, or is rejected, stops the batch unless told otherwise.
BatchCheck ==
  /\ Of("check")
  /\ IF batch.keepGoing \/ (job.result = "ok" /\ MissionValid(MissionAt)) THEN BatchOn
     ELSE batch' = NoBatch
  /\ UNCHANGED <<files, job, shots, commands, crashes>>

BatchRebuild ==
  /\ Of("rebuild") /\ BatchOn /\ Starts("rebuild", <<>>, NoConfig)
  /\ UNCHANGED <<files, shots, commands, crashes>>

Next ==
  \/ Session \/ RefineDataset \/ Rebuild \/ Batch
  \/ CommandStep \/ Crash
  \/ BatchCapture \/ BatchCheck \/ BatchRebuild

Spec == Init /\ [][Next]_vars

(***************************************************************************)
(* Properties                                                              *)
(***************************************************************************)
Succeeded(kinds) == ~Running /\ job.result = "ok" /\ job.kind \in kinds

\* A metadata file describes the picture that lies beside it, whatever was
\* captured again under the same frame id and wherever a session or a
\* refinement stopped.  Not so a file that a session could not remove, until a
\* session replaces it: clear_artifacts goes on with a warning, and the new
\* picture comes to lie beside the old metadata (main.py:194-210, 238-276).
MetadataOfImage ==
  \A f \in Frames : metadata[f].at = "whole" /\ ~metadata[f].kept /\ image[f].there =>
    image[f].shot = metadata[f].shot

\* The annotations of one image stand together, and are the labels of its frame.
HoldsLabels(c, k, md) ==
  LET labels == Labels(md[c.images[k].frame])
  IN \E first \in 0..Len(c.anns) :
       /\ {j \in DOMAIN c.anns : c.anns[j].image = c.images[k].id} = (first + 1)..(first + Len(labels))
       /\ \A j \in DOMAIN labels : LET ann == c.anns[first + j] IN
            ann.class = labels[j].class /\ ann.box = labels[j].box /\ ann.tier = labels[j].tier

\* The usable ones of these frames are listed once each, under ids of their own,
\* with the labels that the metadata give.
Describes(c, frames, md) ==
  /\ {c.images[k].frame : k \in DOMAIN c.images} = {f \in frames : md[f].usable}
  /\ \A k, l \in DOMAIN c.images :
       c.images[k].id = c.images[l].id \/ c.images[k].frame = c.images[l].frame => k = l
  /\ \A k \in DOMAIN c.images : HoldsLabels(c, k, md)
  /\ \A i, j \in DOMAIN c.anns : c.anns[i].id = c.anns[j].id => i = j

CocoTrue(frames) == Whole(coco) /\ Describes(coco.doc, frames, metadata)

\* A command that ends well has repaired what an earlier one left half written:
\* image, metadata, YOLO and COCO file agree on its frames, and after a
\* refinement or a rebuild the COCO file holds every usable frame of all
\* sessions (main.py:263-265, refine_dataset.py:79-113, rebuild_coco_from_
\* metadata.py:57-151).
TrueWhenDone ==
  /\ Succeeded({"session"}) => CocoTrue(job.scope) /\ \A f \in job.scope : image[f].whole
  /\ Succeeded({"refine", "rebuild"}) => CocoTrue(Frames)
  /\ Succeeded({"session", "refine"}) =>
       \A f \in job.scope : metadata[f].at = "whole" /\ yolo[f] = Doc(YoloOf(metadata[f]))

\* A directory that the validator accepts is complete: no image is cut off, each
\* is the one its metadata describes, and the COCO file lists every frame once.
\* The validator cannot tell metadata that a session could not remove: the
\* picture beside such a file may be another one, and cut off
\* (validate_static_neutral_dataset.py:36-176).
AcceptedIsComplete ==
  ~Running /\ DatasetValid =>
    /\ \A f \in Frames : metadata[f].kept \/ (image[f].whole /\ image[f].shot = metadata[f].shot)
    /\ \A f \in Frames : \E k \in DOMAIN coco.doc.images : coco.doc.images[k].frame = f

OutputConsistent == MetadataOfImage /\ TrueWhenDone /\ AcceptedIsComplete

\* "in lock-step with a freshly captured frame" (refine_dataset.py:6-10): however
\* often a frame was refined, and with whichever versions, its objects are what
\* a capture with the last version would have made of the same picture, as
\* long as no refinement but the first falls back to geometry and the picture
\* beside the metadata is theirs.
RefinedLikeCaptured ==
  \A f \in Frames : LET md == metadata[f] IN
    md.at = "whole" /\ ~md.kept /\ md.by # <<>> /\ (\A k \in 2..Len(md.by) : ~md.by[k].fallback) =>
      LET fresh == Refined(Built(md.shot, md.scene), Last(md.by), TRUE)
      IN md.objects = fresh.objects /\ md.usable = fresh.usable
=============================================================================
