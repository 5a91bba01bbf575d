------------------------------ MODULE Enrichment ------------------------------
(***************************************************************************)
(* enrich_dataset (dataset_enrichment/enrich.py): every image of a raw     *)
(* data set becomes tiles at several scales with the labels visible in     *)
(* them.  The build of the tile cache runs it in its .building directory   *)
(* (module TileCache sees that as one step per tile); here it is what it   *)
(* writes: the COCO file, the manifests and the image files of each split. *)
(* The sizes are those of the COCO file; that an image file has them is not *)
(* looked at here.                                                         *)
(***************************************************************************)
EXTENDS Boxes, FiniteSets, SequencesExt

CONSTANTS
  RawDatasets,   \* the raw data sets: split -> images, or no entry for a missing COCO file
  Configs,       \* the sections "enrichment": [scales, keep_background, canvas]
  Unit,          \* coordinate units per pixel
  CropSize, Stride, EdgeTiles,
  VisibleThreshold,
  ImagesPerSplit      \* num_images_per_split; more than there are: no limit

SPLIT_NAMES == <<"train", "val", "test">>
ASSUME EnrichmentAssumption ==
  /\ Unit \in Nat \ {0} /\ CropSize \in Nat \ {0} /\ Stride \in Nat \ {0}
  /\ EdgeTiles \in BOOLEAN

VARIABLES
  raw, config,        \* the inputs: an image is [id, size, disk, present, anns], its
                      \* size in the COCO file and on disk; an annotation [id, cls, box]
  split,              \* position in SPLIT_NAMES
  at, scale_at,       \* position in the images of the split, in scales
  out,                \* the COCO file and the manifest of the split, in memory
  saved,              \* instances_{split}.json on disk
  disk,               \* <<split, file>> of the image files written
  dropped,            \* the records of dropped_tiles_manifest.jsonl
  state               \* "running", "done", "raised"

inputVars == <<raw, config>>
positionVars == <<split, at, scale_at>>
outputVars == <<out, saved, disk, dropped>>
enrichmentVars == <<inputVars, positionVars, outputVars, state>>

Empty == [images |-> <<>>, anns |-> <<>>, manifest |-> <<>>]

\* A scale without "crop" is not cut into tiles.
ParseScale(entry) ==
  [name |-> entry.name, mode |-> entry.mode, size |-> entry.size, crop |-> entry.crop = "true"]
Scales == [i \in DOMAIN config.scales |-> ParseScale(config.scales[i])]

Split == SPLIT_NAMES[split]
SplitImages ==
  LET all == raw[Split] IN SubSeq(all, 1, Smaller(Len(all), ImagesPerSplit))
Image == SplitImages[at]

EnrichmentInit ==
  /\ raw \in RawDatasets /\ config \in Configs
  /\ split = 1 /\ at = 0 /\ scale_at = 0
  /\ out = Empty /\ saved = <<>> /\ disk = {} /\ dropped = {}
  /\ state = "running"

-----------------------------------------------------------------------------
ScaleSize(image, scale) == IF scale.mode = "keep_original" THEN image.size ELSE scale.size
ScaledBox(b, image, scale) == Resize(b, ScaleSize(image, scale), image.size)
InUnits(v) == <<Unit * v[1], Unit * v[2]>>

\* The new image and its labels [ann, box], added to the COCO lists under the
\* next free ids, and the manifest record.
AddImage(o, image, scale, offset, size, labels) ==
  LET id == Len(o.images) + 1
      first == Len(o.anns)
  IN [images |-> Append(o.images, [id |-> id, source |-> image.id, size |-> size,
                                   scale |-> scale, offset |-> offset]),
      anns |-> o.anns \o [k \in DOMAIN labels |->
                 [id |-> first + k, image |-> id, cls |-> labels[k].ann.cls,
                  box |-> labels[k].box, source |-> labels[k].ann.id]],
      manifest |-> Append(o.manifest,
                 [image |-> id, kept |-> {labels[k].ann.id : k \in DOMAIN labels},
                  dropped |-> {image.anns[k].id : k \in DOMAIN image.anns}
                                \ {labels[k].ann.id : k \in DOMAIN labels}])]

NewFiles(o) == {<<Split, i>> : i \in (Len(out.images) + 1)..Len(o.images)}

\* The annotations of the image that a tile keeps, in the tile's coordinates.
TileLabels(image, scale, offset) ==
  LET scaled(ann) == ScaledBox(ann.box, image, scale)
      seen == SelectSeq(image.anns, LAMBDA ann :
                Visible(scaled(ann), InUnits(offset), Unit * CropSize, VisibleThreshold, Unit * Unit))
  IN [k \in DOMAIN seen |-> [ann |-> seen[k],
                             box |-> InTile(scaled(seen[k]), InUnits(offset), Unit * CropSize)]]
WholeLabels(image, scale) ==
  [k \in DOMAIN image.anns |-> [ann |-> image.anns[k],
                                box |-> ScaledBox(image.anns[k].box, image, scale)]]

-----------------------------------------------------------------------------
(* Each step is one round of the loop over splits, images and scales.      *)
HasCoco == Split \in DOMAIN raw
Running == state = "running"
InImage == Running /\ HasCoco /\ at \in 1..Len(SplitImages)

Raise ==
  /\ state' = "raised"
  /\ UNCHANGED <<inputVars, positionVars, outputVars>>

NoScales == Running /\ split = 1 /\ at = 0 /\ config.scales = <<>> /\ Raise

NextSplit ==
  /\ IF split = Len(SPLIT_NAMES) THEN state' = "done" /\ split' = split
                                 ELSE state' = state /\ split' = split + 1
  /\ at' = 0 /\ scale_at' = 0

\* A split without COCO file is skipped with a warning; nothing is saved for it.
MissingCoco ==
  /\ Running /\ config.scales # <<>> /\ at = 0 /\ ~HasCoco
  /\ NextSplit
  /\ UNCHANGED <<inputVars, outputVars>>

StartSplit ==
  /\ Running /\ config.scales # <<>> /\ at = 0 /\ HasCoco
  /\ at' = 1 /\ scale_at' = 0 /\ out' = Empty
  /\ UNCHANGED <<inputVars, split, saved, disk, dropped, state>>

NextImage == at' = at + 1 /\ scale_at' = 0
NextScale == IF scale_at < Len(config.scales) THEN at' = at /\ scale_at' = scale_at + 1 ELSE NextImage

\* An image file that is missing, or one without objects when those are not kept.
SkipImage ==
  /\ InImage /\ scale_at = 0
  /\ ~Image.present \/ (Image.anns = <<>> /\ ~config.keep_background)
  /\ NextImage
  /\ UNCHANGED <<inputVars, split, outputVars, state>>

Add(o) ==
  /\ out' = o /\ disk' = disk \cup NewFiles(o)
  /\ UNCHANGED <<inputVars, split, saved, state>>

\* An image without objects becomes one letterboxed image; the canvas is square.
KeepImageWithoutObjects ==
  /\ InImage /\ scale_at = 0 /\ Image.present /\ Image.anns = <<>> /\ config.keep_background
  /\ config.canvas[1] = config.canvas[2]
  /\ Add(AddImage(out, Image, "background", <<0, 0>>, config.canvas, <<>>))
  /\ NextImage /\ dropped' = dropped
BackgroundNotSquare ==
  /\ InImage /\ scale_at = 0 /\ Image.present /\ Image.anns = <<>> /\ config.keep_background
  /\ config.canvas[1] # config.canvas[2]
  /\ Raise

ReadImage ==
  /\ InImage /\ scale_at = 0 /\ Image.present /\ Image.anns # <<>>
  /\ scale_at' = 1
  /\ UNCHANGED <<inputVars, split, at, outputVars, state>>

Scale == Scales[scale_at]
InScale == InImage /\ scale_at > 0

\* All tiles of the scaled image, each kept if it shows an object.
TileScale ==
  /\ InScale /\ Scale.crop
  /\ LET tiles == Tiles(ScaleSize(Image, Scale), CropSize, Stride, EdgeTiles)
         labels(t) == TileLabels(Image, Scale, t.offset)
         kept == SelectSeq(tiles, LAMBDA t : labels(t) # <<>>)
     IN /\ Add(FoldLeft(LAMBDA o, t : AddImage(o, Image, Scale.name, t.offset,
                                               <<CropSize, CropSize>>, labels(t)),
                        out, kept))
        /\ dropped' = dropped \cup {<<Split, Image.id, Scale.name, t.offset>> :
                                      t \in ToSet(tiles) \ ToSet(kept)}
  /\ NextScale

\* The whole image at the size of the scale, with every object.
WholeImage ==
  /\ InScale /\ ~Scale.crop /\ Scale.mode # "keep_original"
  /\ Add(AddImage(out, Image, Scale.name, <<0, 0>>, Scale.size, WholeLabels(Image, Scale)))
  /\ NextScale /\ dropped' = dropped
\* scale.size is None: it cannot be unpacked.
WholeImageWithoutSize == InScale /\ ~Scale.crop /\ Scale.mode = "keep_original" /\ Raise

SaveCoco ==
  /\ Running /\ HasCoco /\ at > Len(SplitImages)
  /\ saved' = [s \in DOMAIN saved \cup {Split} |-> IF s = Split THEN out ELSE saved[s]]
  /\ NextSplit
  /\ UNCHANGED <<inputVars, out, disk, dropped>>

EnrichmentNext ==
  \/ NoScales \/ MissingCoco \/ StartSplit \/ SkipImage \/ KeepImageWithoutObjects
  \/ BackgroundNotSquare \/ ReadImage \/ TileScale \/ WholeImage \/ WholeImageWithoutSize
  \/ SaveCoco

-----------------------------------------------------------------------------
(* Properties.                                                             *)
WithId(entries, id) == CHOOSE e \in ToSet(entries) : e.id = id
Source(s, record) == WithId(raw[s], record.source)
ScaleNamed(name) == CHOOSE i \in DOMAIN Scales : Scales[i].name = name
Scaling(record) == Scales[ScaleNamed(record.scale)]
IsTile(record) == record.scale # "background" /\ Scaling(record).crop

\* What training reads from a saved split is consistent: ids run from 1 without
\* a gap over all images and scales, every image listed has its file, every
\* label lies on its image, and the manifest accounts for every object of the
\* source image as kept or dropped.
CocoConsistent ==
  \A s \in DOMAIN saved :
    LET o == saved[s] IN
    /\ \A i \in DOMAIN o.images : o.images[i].id = i /\ <<s, i>> \in disk
    /\ \A k \in DOMAIN o.anns :
         /\ o.anns[k].id = k /\ o.anns[k].image \in DOMAIN o.images
         /\ LET size == InUnits(o.images[o.anns[k].image].size) IN
            Area(o.anns[k].box) > 0 /\ Inside(o.anns[k].box, Box(0, 0, size[1], size[2]))
    /\ Len(o.manifest) = Len(o.images)
    /\ \A i \in DOMAIN o.manifest :
         /\ o.manifest[i].image = i
         /\ o.manifest[i].kept = {o.anns[k].source : k \in {j \in DOMAIN o.anns : o.anns[j].image = i}}
         /\ o.manifest[i].kept \cup o.manifest[i].dropped
              = {a.id : a \in ToSet(Source(s, o.images[i]).anns)}

\* A label, taken back through the tile and the scale, is exactly the part of
\* its object that the tile shows, and enough of it.
LabelsShowObjects ==
  \A s \in DOMAIN saved : \A k \in DOMAIN saved[s].anns :
    LET label == saved[s].anns[k]
        record == saved[s].images[label.image]
        image == Source(s, record)
        ann == WithId(image.anns, label.source)
        size == ScaleSize(image, Scaling(record))
        back == Resize(Translate(label.box, Unit * record.offset[1], Unit * record.offset[2]),
                       image.size, size)
        region == Box(Unit * record.offset[1], Unit * record.offset[2],
                      Unit * (record.offset[1] + record.size[1]),
                      Unit * (record.offset[2] + record.size[2]))
    IN /\ label.cls = ann.cls
       /\ back = Common(ann.box, Resize(region, image.size, size))
       /\ IsTile(record) => AtLeast(Area(back), Area(ann.box), VisibleThreshold)

\* Nothing small is lost between tiles: an object that is no longer than the
\* overlap of two tiles is whole in one of them at every scale with tiles, and
\* a scale without tiles shows every object.
ObjectsNotLost ==
  EdgeTiles => \A s \in DOMAIN saved :
    \A image \in {i \in ToSet(SubSeq(raw[s], 1, Smaller(Len(raw[s]), ImagesPerSplit))) : i.present} :
      \A ann \in ToSet(image.anns), n \in DOMAIN Scales :
        LET b == ScaledBox(ann.box, image, Scales[n])
            labels == {k \in DOMAIN saved[s].anns :
                         /\ saved[s].images[saved[s].anns[k].image].scale = Scales[n].name
                         /\ saved[s].images[saved[s].anns[k].image].source = image.id
                         /\ saved[s].anns[k].source = ann.id}
            small == /\ Width(b) <= Unit * (CropSize - Stride)
                     /\ Height(b) <= Unit * (CropSize - Stride)
                     /\ Area(b) >= Unit * Unit
        IN (small \/ ~Scales[n].crop)
             => \E k \in labels : /\ Width(saved[s].anns[k].box) = Width(b)
                                  /\ Height(saved[s].anns[k].box) = Height(b)

\* What training reads is consistent, shows the objects, and shows all of them.
EnrichmentSound == CocoConsistent /\ LabelsShowObjects /\ ObjectsNotLost
=============================================================================
