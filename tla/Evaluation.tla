------------------------------ MODULE Evaluation ------------------------------
(***************************************************************************)
(* "evaluation_export.cli evaluate" (cli.py, evaluate.py, inference.py,    *)
(* report.py) on the raw data set that Enrichment has cut into tiles: an   *)
(* image goes through the network as a whole and in tiles at several       *)
(* scales, a few crops at a time; the detections of all crops are taken    *)
(* back to the image, reduced (Fusion), and scored (Scoring).              *)
(* The network is external: it may answer each crop with any of Answers.   *)
(***************************************************************************)
EXTENDS Enrichment, Scoring

CONSTANTS
  Jobs,          \* what the command is started with: see StartEvaluation
  Answers,       \* what the network may find in one crop
  MaxFound,      \* bound on the detections of one image
  MatchIoU       \* merge.iou_threshold, also that of the totals

VARIABLES
  job,           \* the arguments and the configuration of the command
  phase,         \* where evaluate() is; how the command ended
  image_at, stage,        \* position in the images, in the ordered scales
  fed, net, results,      \* crops already given to the network, what it answered for
                          \* those it saw (history), what predict_batch returns
  found, post, fused,     \* of one image: all detections, after NMS, after fusion
  predictions,            \* predictions_by_image
  reports                 \* the files written

evaluationVars == <<job, phase, image_at, stage, fed, net, results,
                    found, post, fused, predictions, reports>>
imageVars == <<fed, net, results, found, post, fused>>
vars == <<enrichmentVars, evaluationVars>>

NoJob == [backend |-> "none"]
Ended == {"refused", "failed", "raised", "done"}   \* exit 2, exit 1, traceback, exit 0

EvaluationInit ==
  /\ job = NoJob /\ phase = "idle" /\ image_at = 0 /\ stage = 0
  /\ fed = 0 /\ net = <<>> /\ results = <<>>
  /\ found = <<>> /\ post = <<>> /\ fused = <<>>
  /\ predictions = <<>> /\ reports = {}

Init == EnrichmentInit /\ EvaluationInit

-----------------------------------------------------------------------------
(* Scales: "crop" defaults to true here, and to false in Enrichment.       *)
EvalScale(entry) ==
  [name |-> entry.name, mode |-> entry.mode,
   size |-> IF entry.mode = "resize" THEN entry.size ELSE <<>>,
   crop |-> entry.crop # "false"]
IsFull(s) == s.mode = "source_full_image"
Ordered ==
  LET all == [i \in DOMAIN job.scales |-> EvalScale(job.scales[i])] IN
  IF job.full_image_first
  THEN SelectSeq(all, IsFull) \o SelectSeq(all, LAMBDA s : ~IsFull(s))
  ELSE all

EvalImages == raw[job.split]
EvalImage == EvalImages[image_at]
NeedsPixels == job.backend # "mock"
\* The size of the file wins over the one the COCO file states.
SourceSize == IF NeedsPixels THEN EvalImage.disk ELSE EvalImage.size

\* The inputs of the network for one image at one scale.
Crop(kind, size, offset) == [kind |-> kind, scale_size |-> size, offset |-> offset]
WorkSize(s) == IF s.mode = "resize" THEN s.size ELSE SourceSize
Crops(s) ==
  IF IsFull(s) THEN <<Crop("letterbox", SourceSize, <<0, 0>>)>>
  ELSE IF ~s.crop THEN <<Crop("whole", WorkSize(s), <<0, 0>>)>>
  ELSE LET tiles == Tiles(WorkSize(s), CropSize, Stride, EdgeTiles) IN
       [k \in DOMAIN tiles |-> Crop("tile", WorkSize(s), tiles[k].offset)]
CurrentCrops == Crops(Ordered[stage])

\* A whole image that is fed as it is must have the size of the network's input.
BuildFails(s) ==
  /\ ~IsFull(s) /\ ~s.crop /\ NeedsPixels
  /\ WorkSize(s) # <<CropSize, CropSize>>

-----------------------------------------------------------------------------
(* The command.  A job is [backend, given, trouble, split, scales,         *)
(* full_image_first, method, score, most, fusion, batch, engine, table,    *)
(* optional]: given, the arguments the backend needs are there; trouble,   *)
(* what is wrong with the model: "none", a "package" or the "file" is      *)
(* missing, or its "contents" cannot be used; engine, the batch a TensorRT *)
(* engine is built for, 0 for any; table, the answers of the mock:         *)
(* <<image, scale name or "any", offset>> to detections; optional, the     *)
(* reports asked for.                                                      *)

\* The constructors, and which of their exceptions the command turns into exit 1.
Catches(exceptions, trouble) ==
  IF trouble = "none" THEN "image" ELSE IF trouble \in exceptions THEN "failed" ELSE "raised"
MockPredictor(trouble) == Catches({"file", "contents"}, trouble)   \* a ValueError for contents
PyTorchYOLOXPredictor(trouble) == Catches({"package", "file"}, trouble)
ONNXYOLOXPredictor(trouble) == Catches({"package", "file"}, trouble)
TensorRTYOLOXPredictor(trouble) == Catches({"package", "file"}, trouble)
BuildPredictor(j) ==
  CASE j.backend = "mock" -> MockPredictor(j.trouble)
    [] j.backend = "pytorch" -> PyTorchYOLOXPredictor(j.trouble)
    [] j.backend = "onnx" -> ONNXYOLOXPredictor(j.trouble)
    [] j.backend = "trt" -> TensorRTYOLOXPredictor(j.trouble)

StartEvaluation ==
  /\ phase = "idle" /\ state = "done"
  /\ \E j \in Jobs :
       /\ job' = j
       /\ phase' = IF ~j.given THEN "refused"
                   ELSE IF BuildPredictor(j) # "image" THEN BuildPredictor(j)
                   ELSE IF j.split \notin DOMAIN raw \/ j.scales = <<>> THEN "raised"
                   ELSE "image"
  /\ image_at' = 1
  /\ UNCHANGED <<enrichmentVars, stage, imageVars, predictions, reports>>

\* imread of a missing file raises.
LoadImage ==
  /\ phase = "image" /\ image_at <= Len(EvalImages)
  /\ phase' = IF NeedsPixels /\ ~EvalImage.present THEN "raised" ELSE "crops"
  /\ stage' = 1
  /\ found' = <<>> /\ post' = <<>> /\ fused' = <<>> /\ fed' = 0 /\ net' = <<>> /\ results' = <<>>
  /\ UNCHANGED <<enrichmentVars, job, image_at, predictions, reports>>

BuildCropInputs ==
  /\ phase = "crops" /\ stage <= Len(Ordered)
  /\ phase' = IF BuildFails(Ordered[stage]) THEN "raised" ELSE "infer"
  /\ fed' = 0 /\ net' = <<>>
  /\ results' = IF BuildFails(Ordered[stage]) THEN <<>>
                ELSE [i \in DOMAIN CurrentCrops |-> <<>>]
  /\ UNCHANGED <<enrichmentVars, job, image_at, stage, found, post, fused, predictions, reports>>

Looked(table, c) ==
  LET key(name) == <<EvalImage.id, name, c.offset>> IN
  IF key(Ordered[stage].name) \in DOMAIN table THEN table[key(Ordered[stage].name)]
  ELSE IF key("any") \in DOMAIN table THEN table[key("any")] ELSE <<>>
MockPredict ==
  /\ phase = "infer" /\ ~NeedsPixels
  /\ net' = [i \in DOMAIN CurrentCrops |-> Looked(job.table, CurrentCrops[i])]
  /\ results' = net' /\ fed' = Len(CurrentCrops) /\ phase' = "map"
  /\ UNCHANGED <<enrichmentVars, job, image_at, stage, found, post, fused, predictions, reports>>

\* One batch of at most job.batch crops.  A fixed engine answers with as many
\* rows as it was built for: crops beyond them are never looked at, and rows
\* beyond the batch are uninitialized memory.  A row without detections (None)
\* leaves the entry as it is.
Rows(n) == IF job.engine = 0 THEN n ELSE job.engine
FedAfter(n) == fed + n
SlotOf_Bug(row) == row
SlotOf(row) == fed + row
StoreRows(answers, n) ==
  LET rows == {r \in 1..Rows(n) : answers[r] # <<>>} IN
  [i \in DOMAIN results |->
     IF \E r \in rows : SlotOf(r) = i THEN answers[CHOOSE r \in rows : SlotOf(r) = i]
                                      ELSE results[i]]
InferChunk ==
  /\ phase = "infer" /\ NeedsPixels /\ fed < Len(CurrentCrops)
  /\ LET n == Smaller(job.batch, Len(CurrentCrops) - fed) IN
     \E answers \in [1..Rows(n) -> Answers] :
       /\ Len(found) + Sum([i \in DOMAIN net |-> Len(net[i])])
            + Sum([i \in DOMAIN answers |-> Len(answers[i])]) <= MaxFound
       /\ net' = [i \in DOMAIN net \cup (fed + 1)..(fed + Smaller(n, Rows(n))) |->
                    IF i \in DOMAIN net THEN net[i] ELSE answers[i - fed]]
       /\ results' = StoreRows(answers, n)
       /\ phase' = IF \E r \in 1..Rows(n) : answers[r] # <<>> /\ fed + r > Len(results)
                   THEN "raised" ELSE phase
       /\ fed' = FedAfter(n)
  /\ UNCHANGED <<enrichmentVars, job, image_at, stage, found, post, fused, predictions, reports>>
ChunksDone ==
  /\ phase = "infer" /\ NeedsPixels /\ fed = Len(CurrentCrops)
  /\ phase' = "map"
  /\ UNCHANGED <<enrichmentVars, job, image_at, stage, imageVars, predictions, reports>>

CropToSource(b, c) ==
  Clip(IF c.kind = "letterbox" THEN LetterboxToSource(b, Letterbox(SourceSize, CropSize), Unit)
       ELSE Resize(Translate(b, Unit * c.offset[1], Unit * c.offset[2]), SourceSize, c.scale_size),
       InUnits(SourceSize))
DetsToSource(dets, c) ==
  LET mapped == [k \in DOMAIN dets |-> [dets[k] EXCEPT !.box = CropToSource(@, c)]] IN
  SelectSeq(mapped, LAMBDA d : d.box.x1 < d.box.x2 /\ d.box.y1 < d.box.y2)
MapToSource ==
  /\ phase = "map"
  /\ found' = found \o FlattenSeq([i \in DOMAIN results |-> DetsToSource(results[i], CurrentCrops[i])])
  /\ IF stage < Len(Ordered) THEN stage' = stage + 1 /\ phase' = "crops"
                             ELSE stage' = stage /\ phase' = "reduce"
  /\ UNCHANGED <<enrichmentVars, job, image_at, fed, net, results, post, fused, predictions, reports>>

ReduceDetections ==
  /\ phase = "reduce"
  /\ post' = Postprocess(job.method, found, MatchIoU, job.score, job.most)
  /\ fused' = Fuse(post', job.fusion)
  /\ predictions' = [id \in DOMAIN predictions \cup {EvalImage.id} |->
                       IF id = EvalImage.id THEN fused' ELSE predictions[id]]
  /\ phase' = "reduced"
  /\ UNCHANGED <<enrichmentVars, job, image_at, stage, fed, net, results, found, reports>>

\* The locals of the loop body are dead after it.
NextEvalImage ==
  /\ phase = "reduced"
  /\ image_at' = image_at + 1 /\ phase' = "image" /\ stage' = 0
  /\ fed' = 0 /\ net' = <<>> /\ results' = <<>> /\ found' = <<>> /\ post' = <<>> /\ fused' = <<>>
  /\ UNCHANGED <<enrichmentVars, job, predictions, reports>>

\* _build_gts: the images of the COCO file, each with its boxes.
GroundTruth ==
  [id \in {EvalImages[i].id : i \in DOMAIN EvalImages} |->
     LET anns == WithId(EvalImages, id).anns IN
     [k \in DOMAIN anns |-> [cls |-> anns[k].cls, box |-> anns[k].box]]]
WriteReports ==
  /\ phase = "image" /\ image_at > Len(EvalImages)
  /\ reports' = {"summary", "per_class", "predictions"} \cup job.optional
  /\ phase' = "done"
  /\ UNCHANGED <<enrichmentVars, job, image_at, stage, imageVars, predictions>>

EvaluationNext ==
  \/ StartEvaluation \/ LoadImage \/ BuildCropInputs \/ MockPredict \/ InferChunk \/ ChunksDone
  \/ MapToSource \/ ReduceDetections \/ NextEvalImage \/ WriteReports

Next == (EnrichmentNext /\ UNCHANGED evaluationVars) \/ EvaluationNext
Spec == Init /\ [][Next]_vars

-----------------------------------------------------------------------------
(* Properties.                                                             *)

\* Where a point of the source is in a crop.
ToCrop(b, c) ==
  IF c.kind = "letterbox" THEN SourceToLetterbox(b, Letterbox(SourceSize, CropSize), Unit)
  ELSE Translate(Resize(b, c.scale_size, SourceSize), -Unit * c.offset[1], -Unit * c.offset[2])

\* Every detection can be traced to what the network saw: however the crops are
\* cut into batches, an engine with at most as many rows as a batch gives a crop
\* the detections made on that crop, or none if it never looked at it, and it looks
\* at all of them when it fits the batch.  (The rows a larger engine leaves over
\* land on later crops, and a smaller one skips crops: the defaults, an engine of
\* one row and batches of eight, do that.)  Taken to the source and back the
\* detections are what the network drew, as far as the source reaches, and only
\* those in the padding are lost.
DetectionsTraceable ==
  phase = "map" =>
    /\ job.engine <= job.batch =>
         \A i \in DOMAIN results : results[i] = IF i \in DOMAIN net THEN net[i] ELSE <<>>
    /\ job.engine \in {0, job.batch} => DOMAIN net = DOMAIN results
    /\ \A i \in DOMAIN results :
         LET c == CurrentCrops[i]
             picture == ToCrop(Box(0, 0, Unit * SourceSize[1], Unit * SourceSize[2]), c)
             back == DetsToSource(results[i], c)
             drawn == SelectSeq(results[i], LAMBDA d : Meet(d.box, picture))
         IN /\ Len(back) = Len(drawn)
            /\ \A k \in DOMAIN back : ToCrop(back[k].box, c) = Common(drawn[k].box, picture)

\* What non-maximum suppression returns: sorted and truncated; no two
\* detections of one class on the same place; and a detection that is missing
\* was weak, or a better one of its class is on its place, or the list is full.
Sorted(dets) == \A i, j \in DOMAIN dets : i < j => dets[i].conf >= dets[j].conf
SuppressionSound ==
  phase = "reduced" =>
    /\ Sorted(post) /\ Len(post) <= job.most
    /\ job.method \in {"nms", "class_aware_nms"} =>
         /\ ToSet(post) \subseteq ToSet(Confident(found, job.score))
         /\ \A i, j \in DOMAIN post :
              i # j /\ post[i].cls = post[j].cls => ~IoUAbove(post[i].box, post[j].box, MatchIoU)
         /\ \A d \in ToSet(Confident(found, job.score)) \ ToSet(post) :
              \/ Len(post) = job.most
              \/ \E p \in ToSet(post) : /\ p.cls = d.cls /\ p.conf >= d.conf
                                        /\ IoUAbove(p.box, d.box, MatchIoU)

\* Fragments that belong together, directly or through others, end in one
\* detection that covers them all and has a possible shape, or all of them
\* stay as they were; every detection ends in exactly one place.
FusionSound ==
  phase = "reduced" /\ job.fusion # "off" =>
    LET groups == Groups(post, job.fusion)
        group(i) == CHOOSE n \in DOMAIN groups : i \in groups[n].members
    IN /\ Sum([n \in DOMAIN groups |-> Cardinality(groups[n].members)]) = Len(post)
       /\ \A i \in DOMAIN post : \E n \in DOMAIN groups : i \in groups[n].members
       /\ \A i, j \in DOMAIN post :
            i # j /\ ShouldMerge(post[i], post[j]) =>
              \/ group(i) = group(j)
              \/ {group(i), group(j)} \subseteq {n \in DOMAIN groups : Cardinality(groups[n].members) = 1}
       /\ \A n \in DOMAIN groups : Cardinality(groups[n].members) > 1 =>
            LET members == [k \in groups[n].members |-> post[k]]
                w == Width(groups[n].det.box)
                h == Height(groups[n].det.box)
            IN /\ \A k \in DOMAIN members : members[k].cls = groups[n].det.cls
               /\ job.fusion = "union" => \A k \in DOMAIN members : Inside(members[k].box, groups[n].det.box)
               /\ w > 0 /\ h > 0 /\ ~Above(w, h, MaxAspect) /\ ~Above(h, w, MaxAspect)

\* The reports agree with each other: each box is found once or missed, each
\* detection is right or wrong, in the totals, in the lists of false examples
\* and in the confusion matrix.
CountClass(lists, c) == Sum([im \in DOMAIN lists |-> Len(OfClass(lists[im], c))])
ReportsAgree ==
  phase = "done" =>
    LET tally == Tally(predictions, GroundTruth, MatchIoU)
        wrong == FalseExamples(predictions, GroundTruth, MatchIoU)
        matrix == Confusion(predictions, GroundTruth, MatchIoU)
        all == 0..Background
    IN /\ \A c \in Known :
            /\ tally[c].tp + tally[c].fn = CountClass(GroundTruth, c)
            /\ tally[c].tp + tally[c].fp = CountClass(predictions, c)
            /\ Sum([p \in all |-> matrix[<<c, p>>]]) = CountClass(GroundTruth, c)
            /\ Sum([g \in all |-> matrix[<<g, c>>]]) = CountClass(predictions, c)
            /\ matrix[<<c, c>>] <= CountClass(GroundTruth, c)
       /\ Sum([im \in DOMAIN wrong.fp |-> Cardinality(wrong.fp[im])]) = Sum([c \in Known |-> tally[c].fp])
       /\ Sum([im \in DOMAIN wrong.fn |-> Cardinality(wrong.fn[im])]) = Sum([c \in Known |-> tally[c].fn])

\* Average precision is 1 for a class exactly when its most confident
\* detections are right and find every box, and 0 exactly when nothing is found.
PerfectScore ==
  phase = "done" =>
    \A c \in Known :
      LET hits == ClassHits(predictions, GroundTruth, c, MatchIoU)
          boxes == CountClass(GroundTruth, c)
          ap == AveragePrecision(hits, boxes)
      IN /\ 0 <= ap[1] /\ ap[1] <= ap[2]
         /\ ap[1] = ap[2] <=> boxes > 0 /\ Len(hits) >= boxes /\ \A i \in 1..boxes : hits[i]
         /\ ap[1] = 0 <=> \A i \in DOMAIN hits : ~hits[i]

\* The list of an image is reduced without losing, doubling or inventing objects;
\* soft_nms and wbf, which change confidences and boxes, are held to order and
\* length only.
ReductionSound == SuppressionSound /\ FusionSound

\* The figures in the reports follow from detections and boxes.
ScoresHonest == ReportsAgree /\ PerfectScore
=============================================================================
