----------------------------- MODULE RawDatasets -----------------------------
(***************************************************************************)
(* Raw datasets: the directories under datasets/raw and the commands that  *)
(* fill them.  adapter-normalize turns one staging directory into a        *)
(* dataset of three splits, migrate_legacy_dataset turns one raw dataset   *)
(* into another; both write file by file, in place, and the last file,     *)
(* dataset_info.json, is what others wait for.  One import runs at a time; *)
(* it may stop at any step.                                                *)
(*                                                                         *)
(* A document is missing, torn (opened for writing and not yet complete)   *)
(* or whole; its value is what the readers take from it.                   *)
(***************************************************************************)
EXTENDS Integers, Sequences, FiniteSets, SequencesExt, Lists

CONSTANTS
  Frames,      \* the captured frames; a frame is the stem of its file name
  Bucket,      \* per frame: sha256(stem) modulo SPLIT_BUCKETS
  StagingIds, DatasetIds,
  MaxCrashes   \* bound: how often an import or a pipeline stops half-way

SPLIT_BUCKETS == 10000
SPLITS == <<"train", "val", "test">>
Splits == {"train", "val", "test"}

ASSUME DatasetAssumption ==
  /\ Bucket \in [Frames -> 0..(SPLIT_BUCKETS - 1)]
  /\ MaxCrashes \in Nat

VARIABLES
  staging,   \* per staging id: its directory
  raw,       \* per dataset id: its directory
  jobs,      \* the imports still to be asked for
  imp,       \* the import that runs
  stamp,     \* how many imports have begun: the time
  origin,    \* history, per dataset: what its last import was to hold
  broken,    \* history: datasets that a cut-off removal, a move to another
             \* dataset or the expiry of their source has left without files
  givenUp,   \* history: frames that a command was told to remove
  crashes

datasetVars == <<staging, raw, jobs, imp, stamp, origin, broken, givenUp, crashes>>

(***************************************************************************)
(* Documents                                                               *)
(***************************************************************************)
Missing == [at |-> "missing"]
Torn == [at |-> "torn"]
Doc(x) == [at |-> "whole", doc |-> x]
Whole(f) == f.at = "whole"
IsFile(f) == f.at # "missing"

CANONICAL_CATEGORIES == [c \in 0..2 |-> <<"ships", "helicopters", "airplanes">>[c + 1]]
LEGACY_CATEGORIES == [c \in 0..3 |-> <<"ships", "buoys", "helicopters", "airplanes">>[c + 1]]
LEGACY_CATEGORY_ID_REMAP_Bug == [c \in {0, 2, 3} |-> IF c = 3 THEN 2 ELSE c]
LEGACY_CATEGORY_ID_REMAP == [c \in {0, 2, 3} |-> IF c = 0 THEN 0 ELSE c - 1]
Buoys == 1

\* images: [id, frame]; anns: [id, image, cat]; cats: category id -> name.
Coco(images, anns, cats) == [images |-> images, anns |-> anns, cats |-> cats]

Ids(seq) == {seq[i].id : i \in DOMAIN seq}
Listed(coco) == {coco.images[i].frame : i \in DOMAIN coco.images}
UniqueIds(seq) == \A i, j \in DOMAIN seq : seq[i].id = seq[j].id => i = j

AbsentDir ==
  [there |-> FALSE, coco |-> [sp \in Splits |-> Missing], images |-> [sp \in Splits |-> {}],
   cut |-> {}, classes |-> Missing, manifest |-> Missing, info |-> Missing, report |-> Missing]
NoOrigin == [frames |-> {}, labels |-> {}, splits |-> {}, files |-> {}]
\* A dataset_info.json without created_at.
NoStamp == -1
NoStaging == [there |-> FALSE, coco |-> Missing, images |-> {}]

(***************************************************************************)
(* The split of a COCO file                                                *)
(***************************************************************************)
SumToOne(ratios) == ratios.train + ratios.val + ratios.test = SPLIT_BUCKETS

\* ratios are in units of 1/SPLIT_BUCKETS; the last split takes the rest.
AssignSplit(f, ratios) ==
  IF Bucket[f] < ratios.train THEN "train"
  ELSE IF Bucket[f] < ratios.train + ratios.val THEN "val" ELSE "test"

OfImage(coco, id) == Those(coco.anns, {a \in Range(coco.anns) : a.image = id})

\* split_by_image_ids: by id, so images that share one go where either goes.
SplitCoco(coco, ratios, sp) ==
  LET assigned == {g.id : g \in {h \in Range(coco.images) : AssignSplit(h.frame, ratios) = sp}}
      images == Those(coco.images, {g \in Range(coco.images) : g.id \in assigned})
  IN Coco(images, FlattenSeq([i \in DOMAIN images |-> OfImage(coco, images[i].id)]), coco.cats)

\* split_of_image: of two images with one id the last decides.
SplitOfImage(coco, ratios, id) ==
  LET those == {i \in DOMAIN coco.images : coco.images[i].id = id}
      last == CHOOSE i \in those : \A j \in those : j <= i
  IN AssignSplit(coco.images[last].frame, ratios)

Counts(coco) == [images |-> Len(coco.images), anns |-> Len(coco.anns)]

\* remap_split_coco for the four-class layout: the buoys go, the rest is renumbered.
RemapLegacy(coco) ==
  LET anns == Those(coco.anns, {a \in Range(coco.anns) : a.cat # Buoys})
  IN Coco(coco.images,
          [i \in DOMAIN anns |-> [anns[i] EXCEPT !.cat = LEGACY_CATEGORY_ID_REMAP[@]]],
          CANONICAL_CATEGORIES)

RemapSplit(coco, cats) ==
  IF cats = CANONICAL_CATEGORIES THEN [coco EXCEPT !.cats = CANONICAL_CATEGORIES]
  ELSE RemapLegacy(coco)

Remappable(coco, cats) ==
  cats = CANONICAL_CATEGORIES \/ \A i \in DOMAIN coco.anns : coco.anns[i].cat \in DOMAIN LEGACY_CATEGORIES

(***************************************************************************)
(* validate_raw_dataset: what makes it report an error                     *)
(***************************************************************************)

CocoValid(coco, files) ==
  /\ UniqueIds(coco.images) /\ UniqueIds(coco.anns)
  /\ Listed(coco) \subseteq files
  /\ \A i \in DOMAIN coco.anns : /\ coco.anns[i].image \in Ids(coco.images)
                                 /\ coco.anns[i].cat \in DOMAIN coco.cats

CategoriesAllowed(cats) ==
  \A c \in DOMAIN cats : c \in DOMAIN CANONICAL_CATEGORIES /\ cats[c] = CANONICAL_CATEGORIES[c]

CategoryIdsAllowed(coco) ==
  \A i \in DOMAIN coco.anns : coco.anns[i].cat \in DOMAIN CANONICAL_CATEGORIES

CountsAgree(d) ==
  /\ \A sp \in DOMAIN d.info.doc.splits : d.info.doc.splits[sp] = Counts(d.coco[sp].doc)
  /\ d.info.doc.images = Len(d.coco["train"].doc.images) + Len(d.coco["val"].doc.images)
                           + Len(d.coco["test"].doc.images)

Disjoint(d) ==
  \A s, t \in Splits : s # t =>
    /\ Listed(d.coco[s].doc) \cap Listed(d.coco[t].doc) = {}
    /\ Ids(d.coco[s].doc.anns) \cap Ids(d.coco[t].doc.anns) = {}

Validates(d) ==
  /\ d.there /\ Whole(d.info) /\ Whole(d.classes)
  /\ \A sp \in Splits :
       /\ Whole(d.coco[sp])
       /\ CocoValid(d.coco[sp].doc, d.images[sp])
       /\ CategoryIdsAllowed(d.coco[sp].doc)
       /\ DOMAIN d.classes.doc # {} => DOMAIN d.coco[sp].doc.cats = DOMAIN d.classes.doc
  /\ CategoriesAllowed(d.classes.doc)
  /\ Disjoint(d) /\ CountsAgree(d)

\* What cmd_wait_for_dataset waits for.
Sentinel(d) == IsFile(d.info)

(***************************************************************************)
(* An import.  `out` is the directory it is to leave, `todo` what it still *)
(* writes, in order.                                                       *)
(***************************************************************************)
Idle == [pc |-> "idle", last |-> "none"]
Job == imp.job
Target == raw[Job.to]
Ended(result) == imp' = [pc |-> "idle", last |-> result]

File(what, sp, f) == [what |-> what, split |-> sp, frame |-> f]
DocItem(what) == File(what, "train", 0)
CocoItem(sp) == File("coco", sp, 0)

At(f, sp) == [frame |-> f, split |-> sp]
CopiesOf(f) == {d \in DatasetIds : \E sp \in Splits : f \in raw[d].images[sp] /\ <<sp, f>> \notin raw[d].cut}
FramesIn(d) == UNION {raw[d].images[sp] : sp \in Splits}
InStaging(f) == \E s \in StagingIds : f \in staging[s].images

Present(d) == {sp \in Splits : IsFile(d.coco[sp])}
Parsed(d) == {sp \in Splits : Whole(d.coco[sp])}

ClassOf(coco, a) == IF a.cat \in DOMAIN coco.cats THEN coco.cats[a.cat] ELSE "none"
LabelsOf(coco) ==
  {[frame |-> p[1].frame, ann |-> p[2].id, class |-> ClassOf(coco, p[2])] :
     p \in {q \in Range(coco.images) \X Range(coco.anns) : q[1].id = q[2].image}}

\* What a directory holds, in the form of origin.
Inventory(d) ==
  [frames |-> UNION {{At(f, sp) : f \in Listed(d.coco[sp].doc)} : sp \in Parsed(d)},
   labels |-> UNION {LabelsOf(d.coco[sp].doc) : sp \in Parsed(d)},
   splits |-> Parsed(d),
   files |-> UNION {d.images[sp] \cap Listed(d.coco[sp].doc) : sp \in Parsed(d)}]

InitImport ==
  /\ imp = Idle /\ stamp = 0
  /\ origin = [d \in DatasetIds |-> Inventory(raw[d])]
  /\ broken = {} /\ crashes = 0
  /\ givenUp = {f \in Frames : ~InStaging(f) /\ CopiesOf(f) = {}}

\* Both commands check before they touch anything.
SourceReady(j) ==
  IF j.op = "normalize"
  THEN staging[j.from].there /\ IsFile(staging[j.from].coco)
  ELSE /\ raw[j.from].there /\ Whole(raw[j.from].classes)
       /\ raw[j.from].classes.doc \in {CANONICAL_CATEGORIES, LEGACY_CATEGORIES}

\* dataset_content_hash: the annotation files, and the paths and sizes of the images.
SameContent(a, b) == a.coco = b.coco /\ a.images = b.images /\ a.cut = b.cut

Identical(j) ==
  /\ j.op = "migrate" /\ IsFile(raw[j.to].classes)
  /\ raw[j.from].classes.doc = CANONICAL_CATEGORIES
  /\ SameContent(raw[j.from], raw[j.to])

ImportStart ==
  /\ imp.pc = "idle" /\ jobs # <<>>
  /\ jobs' = Tail(jobs) /\ stamp' = stamp + 1
  /\ LET j == Head(jobs)
         exists == raw[j.to].there
     IN IF ~SourceReady(j) THEN Ended("failed")
        ELSE IF exists /\ Identical(j) THEN Ended("same")
        ELSE IF exists /\ ~j.overwrite THEN Ended("failed")
        ELSE imp' = [pc |-> IF exists /\ ~j.dry THEN "clear" ELSE "read", job |-> j]
  /\ UNCHANGED <<staging, raw, origin, broken, givenUp, crashes>>

\* shutil.rmtree goes through the directory in the order of the file system.
Parts == {"images", "annotations", "metadata", "report"}
Cleared(d, part) ==
  CASE part = "images" -> [d EXCEPT !.images = AbsentDir.images, !.cut = {}]
    [] part = "annotations" -> [d EXCEPT !.coco = AbsentDir.coco]
    [] part = "metadata" -> [d EXCEPT !.classes = Missing, !.manifest = Missing, !.info = Missing]
    [] part = "report" -> [d EXCEPT !.report = Missing]

Clears(id, part) ==
  /\ raw[id].there /\ Cleared(raw[id], part) # raw[id]
  /\ raw' = [raw EXCEPT ![id] = Cleared(@, part)]
  /\ broken' = broken \cup {id}

RmtreeDone_Bug(id) ==
  /\ raw[id].there
  /\ raw' = [raw EXCEPT ![id].there = FALSE]
  /\ broken' = broken \ {id}

RmtreeDone(id) ==
  /\ raw[id] = [AbsentDir EXCEPT !.there = TRUE]
  /\ raw' = [raw EXCEPT ![id] = AbsentDir]
  /\ broken' = broken \ {id}

\* The overwritten dataset is given up, with the frames that are nowhere else.
ClearTarget ==
  /\ imp.pc = "clear"
  /\ \/ \E part \in Parts :
          /\ Clears(Job.to, part)
          /\ givenUp' = IF part = "images"
                        THEN givenUp \cup {f \in FramesIn(Job.to) :
                                             CopiesOf(f) \subseteq {Job.to} /\ ~InStaging(f)}
                        ELSE givenUp
          /\ UNCHANGED imp
     \/ RmtreeDone(Job.to) /\ imp' = [imp EXCEPT !.pc = "read"] /\ UNCHANGED givenUp
  /\ UNCHANGED <<staging, jobs, stamp, origin, crashes>>

(***************************************************************************)
(* Reading the source and laying out the target                            *)
(***************************************************************************)
\* where: the split of each image.
ImageItems(coco, where) ==
  [i \in DOMAIN coco.images |-> File("image", where[coco.images[i].id], coco.images[i].frame)]

NormalizeOut(j, coco) ==
  LET split == [sp \in Splits |-> SplitCoco(coco, j.ratios, sp)]
  IN [AbsentDir EXCEPT
        !.coco = [sp \in Splits |-> Doc(split[sp])],
        !.classes = Doc(coco.cats),
        !.manifest = Doc({<<SplitOfImage(coco, j.ratios, g.id), g.frame>> : g \in Range(coco.images)}),
        !.info = Doc([splits |-> [sp \in Splits |-> Counts(split[sp])],
                      images |-> Len(coco.images), by |-> "normalize", stamp |-> stamp])]

NormalizeTodo_Bug(j, coco) ==
  LET where == [id \in Ids(coco.images) |-> SplitOfImage(coco, j.ratios, id)]
  IN [i \in 1..3 |-> CocoItem(SPLITS[i])]
       \o <<DocItem("manifest"), DocItem("classes"), DocItem("info")>>
       \o (IF j.images /\ j.mode = "hardlink" THEN <<DocItem("probe")>> ELSE <<>>)
       \o (IF j.images THEN ImageItems(coco, where) ELSE <<>>)

NormalizeTodo(j, coco) ==
  LET where == [id \in Ids(coco.images) |-> SplitOfImage(coco, j.ratios, id)]
  IN [i \in 1..3 |-> CocoItem(SPLITS[i])]
       \o (IF j.images /\ j.mode = "hardlink" THEN <<DocItem("probe")>> ELSE <<>>)
       \o (IF j.images THEN ImageItems(coco, where) ELSE <<>>)
       \o <<DocItem("manifest"), DocItem("classes"), DocItem("info")>>

\* A file that does not parse, or ratios that do not sum to one, stop the
\* command after the old target is gone.
NormalizeRead ==
  /\ imp.pc = "read" /\ Job.op = "normalize"
  /\ LET file == staging[Job.from].coco
     IN IF ~Whole(file) \/ (~SumToOne(Job.ratios) /\ file.doc.images # <<>>)
        THEN Ended("failed") /\ UNCHANGED <<raw, origin>>
        ELSE /\ imp' = [pc |-> "write", open |-> FALSE, job |-> Job, out |-> NormalizeOut(Job, file.doc),
                        todo |-> NormalizeTodo(Job, file.doc)]
             /\ raw' = [raw EXCEPT ![Job.to].there = TRUE]
             /\ origin' = [origin EXCEPT ![Job.to] =
                  [frames |-> {At(f, AssignSplit(f, Job.ratios)) : f \in Listed(file.doc)},
                   labels |-> LabelsOf(file.doc), splits |-> Splits,
                   files |-> IF Job.images THEN staging[Job.from].images \cap Listed(file.doc) ELSE {}]]
  /\ UNCHANGED <<staging, jobs, stamp, broken, givenUp, crashes>>

\* The splits that parse and whose categories all have a place.
Readable(d) == {sp \in Parsed(d) : Remappable(d.coco[sp].doc, d.classes.doc)}

\* dataset_info.json keeps the date of the source, if it had one; the report bears
\* the date of the migration.
MigrateOut(d) ==
  LET new == [sp \in Readable(d) |-> RemapSplit(d.coco[sp].doc, d.classes.doc)]
      count(sp) == IF sp \in Readable(d) THEN Len(new[sp].images) ELSE 0
  IN [AbsentDir EXCEPT
        !.coco = [sp \in Splits |-> IF sp \in Readable(d) THEN Doc(new[sp]) ELSE Missing],
        !.classes = Doc(CANONICAL_CATEGORIES), !.manifest = d.manifest,
        !.info = Doc([splits |-> [sp \in Readable(d) |-> Counts(new[sp])],
                      images |-> count("train") + count("val") + count("test"), by |-> "migrate",
                      stamp |-> IF Whole(d.info) THEN d.info.doc.stamp ELSE NoStamp]),
        !.report = Doc(stamp)]

\* Each split, and the old dataset_info.json, is read when it is reached; one that
\* cannot be read ends the command with what comes before it written.
MigrateTodo(d) ==
  LET splitItems(sp) ==
        IF sp \in Readable(d)
        THEN LET coco == d.coco[sp].doc
             IN <<CocoItem(sp)>> \o ImageItems(coco, [id \in Ids(coco.images) |-> sp])
        ELSE IF sp \in Present(d) THEN <<DocItem("unreadable")>> ELSE <<>>
  IN splitItems("train") \o splitItems("val") \o splitItems("test")
       \o <<DocItem("classes"), DocItem(IF d.info = Torn THEN "unreadable" ELSE "info")>>
       \o (IF IsFile(d.manifest) THEN <<DocItem("manifest")>> ELSE <<>>) \o <<DocItem("report")>>

MigrateRead ==
  /\ imp.pc = "read" /\ Job.op = "migrate"
  /\ LET d == raw[Job.from]
     IN IF Job.dry
        THEN Ended(IF Readable(d) = Present(d) THEN "planned" ELSE "failed") /\ UNCHANGED origin
        ELSE /\ imp' = [pc |-> "write", open |-> FALSE, job |-> Job, out |-> MigrateOut(d), todo |-> MigrateTodo(d)]
             /\ origin' = [origin EXCEPT ![Job.to] =
                  [Inventory(d) EXCEPT !.labels = {l \in @ : l.class # "buoys"}]]
  /\ UNCHANGED <<staging, raw, jobs, stamp, broken, givenUp, crashes>>

(***************************************************************************)
(* Writing the target, one file after the other                            *)
(***************************************************************************)
Item == Head(imp.todo)
NextItem == imp' = [imp EXCEPT !.todo = Tail(@), !.open = FALSE]
Opened == imp' = [imp EXCEPT !.open = TRUE]

Unreadable == Item.what = "unreadable" /\ Ended("failed") /\ UNCHANGED <<staging, raw>>

DocAt(d) ==
  CASE Item.what = "coco" -> d.coco[Item.split]
    [] Item.what = "classes" -> d.classes
    [] Item.what = "manifest" -> d.manifest
    [] Item.what = "info" -> d.info
    [] Item.what = "report" -> d.report

WithDoc(d, file) ==
  CASE Item.what = "coco" -> [d EXCEPT !.there = TRUE, !.coco[Item.split] = file]
    [] Item.what = "classes" -> [d EXCEPT !.there = TRUE, !.classes = file]
    [] Item.what = "manifest" -> [d EXCEPT !.manifest = file]
    [] Item.what = "info" -> [d EXCEPT !.info = file]
    [] Item.what = "report" -> [d EXCEPT !.report = file]

\* save_coco, write_text: the file is opened in place, then written.
WriteDoc ==
  /\ Item.what \in {"coco", "manifest", "classes", "info", "report"}
  /\ \/ ~imp.open /\ Opened /\ raw' = [raw EXCEPT ![Job.to] = WithDoc(@, Torn)]
     \/ imp.open /\ NextItem /\ raw' = [raw EXCEPT ![Job.to] = WithDoc(@, DocAt(imp.out))]
  /\ UNCHANGED staging

\* The probe makes its link inside the target: it does not see that the
\* source is on another volume.
Probe ==
  /\ Item.what = "probe"
  /\ \/ Job.links /\ NextItem
     \/ ~Job.links /\ Job.fallback
          /\ imp' = [imp EXCEPT !.todo = Tail(@), !.job.mode = "copy"]
     \/ ~Job.links /\ ~Job.fallback /\ Ended("failed")
  /\ UNCHANGED <<staging, raw>>

SourceHas == IF Job.op = "normalize" THEN Item.frame \in staging[Job.from].images
             ELSE Item.frame \in raw[Job.from].images[Item.split]

\* The target with the image, complete or only begun.
WithImage(d, begun) ==
  [d EXCEPT !.images[Item.split] = @ \cup {Item.frame},
            !.cut = IF begun THEN @ \cup {<<Item.split, Item.frame>>}
                             ELSE @ \ {<<Item.split, Item.frame>>}]

SkipMissing == ~imp.open /\ ~SourceHas /\ NextItem /\ UNCHANGED <<staging, raw>>

\* gc has taken the source away in the middle of a copy, which is complete or not.
CopyFails ==
  /\ imp.open /\ ~SourceHas /\ Ended("failed")
  /\ \E begun \in BOOLEAN : raw' = [raw EXCEPT ![Job.to] = WithImage(@, begun)]
  /\ UNCHANGED staging

CopyImage ==
  /\ SourceHas
  /\ raw' = [raw EXCEPT ![Job.to] = WithImage(@, ~imp.open)]
  /\ IF imp.open THEN NextItem ELSE Opened
  /\ UNCHANGED staging

\* A rename: source and target are on one volume.
MoveImage ==
  /\ SourceHas /\ NextItem
  /\ IF Job.op = "normalize"
     THEN /\ staging' = [staging EXCEPT ![Job.from].images = @ \ {Item.frame}]
          /\ raw' = [raw EXCEPT ![Job.to] = WithImage(@, FALSE)]
     ELSE /\ raw' = [raw EXCEPT ![Job.from].images[Item.split] = @ \ {Item.frame},
                                ![Job.to] = WithImage(@, FALSE)]
          /\ UNCHANGED staging

\* os.link fails on another volume, and where the file is already there.
Linkable == Job.links /\ ~Job.cross /\ Item.frame \notin Target.images[Item.split]

LinkImage ==
  /\ SourceHas /\ ~imp.open
  /\ \/ Linkable /\ NextItem /\ raw' = [raw EXCEPT ![Job.to] = WithImage(@, FALSE)]
     \/ ~Linkable /\ ~Job.fallback /\ Ended("failed") /\ UNCHANGED raw
  /\ UNCHANGED staging

PlaceImage ==
  /\ Item.what = "image"
  /\ \/ SkipMissing
     \/ CopyFails
     \/ Job.mode = "copy" /\ CopyImage
     \/ Job.mode = "move" /\ MoveImage
     \/ Job.mode = "hardlink" /\ LinkImage
     \/ Job.mode = "hardlink" /\ Job.fallback /\ (imp.open \/ ~Linkable) /\ CopyImage

ImportWrite ==
  /\ imp.pc = "write" /\ imp.todo # <<>>
  /\ WriteDoc \/ Probe \/ PlaceImage \/ Unreadable
  /\ broken' = IF Job.op = "migrate" /\ raw'[Job.from] # raw[Job.from]
               THEN broken \cup {Job.from} ELSE broken
  /\ UNCHANGED <<jobs, stamp, origin, givenUp, crashes>>

(***************************************************************************)
(* After the last file: the source goes if that was asked for              *)
(***************************************************************************)
DropsSource_Bug == IF Job.op = "normalize" THEN Job.cleanup /\ ~Job.keep ELSE Job.delete

\* --cleanup-staging needs the images to have been imported.
DropsSource ==
  IF Job.op = "normalize" THEN Job.cleanup /\ ~Job.keep /\ Job.images ELSE Job.delete

ImportDone ==
  /\ imp.pc = "write" /\ imp.todo = <<>>
  /\ IF DropsSource THEN imp' = [imp EXCEPT !.pc = "drop"] ELSE Ended("ok")
  /\ UNCHANGED <<staging, raw, jobs, stamp, origin, broken, givenUp, crashes>>

\* The frames of the source that the import did not list go with it.
UnlistedInStaging(s) == staging[s].images \ {o.frame : o \in origin[Job.to].frames}
UnlistedIn(d) ==
  {f \in FramesIn(d) : \A sp \in Splits :
     f \in raw[d].images[sp] => At(f, sp) \notin origin[Job.to].frames}

DropStaging ==
  /\ imp.pc = "drop" /\ Job.op = "normalize"
  /\ LET s == Job.from
     IN \/ /\ staging[s].images # {}
           /\ staging' = [staging EXCEPT ![s].images = {}]
           /\ givenUp' = givenUp \cup UnlistedInStaging(s)
           /\ UNCHANGED imp
        \/ /\ IsFile(staging[s].coco)
           /\ staging' = [staging EXCEPT ![s].coco = Missing]
           /\ UNCHANGED <<imp, givenUp>>
        \/ /\ staging[s].images = {} /\ ~IsFile(staging[s].coco)
           /\ staging' = [staging EXCEPT ![s] = NoStaging]
           /\ Ended("ok") /\ UNCHANGED givenUp
  /\ UNCHANGED <<raw, jobs, stamp, origin, broken, crashes>>

DropRaw ==
  /\ imp.pc = "drop" /\ Job.op = "migrate"
  /\ \/ \E part \in Parts :
          /\ Clears(Job.from, part)
          /\ givenUp' = IF part = "images" THEN givenUp \cup UnlistedIn(Job.from) ELSE givenUp
          /\ UNCHANGED imp
     \/ RmtreeDone(Job.from) /\ Ended("ok") /\ UNCHANGED givenUp
  /\ UNCHANGED <<staging, jobs, stamp, origin, crashes>>

ImportCrash ==
  /\ imp.pc # "idle" /\ crashes < MaxCrashes
  /\ crashes' = crashes + 1 /\ Ended("crashed")
  /\ UNCHANGED <<staging, raw, jobs, stamp, origin, broken, givenUp>>

ImportSteps ==
  \/ ImportStart \/ ClearTarget \/ NormalizeRead \/ MigrateRead
  \/ ImportWrite \/ ImportDone \/ DropStaging \/ DropRaw

(***************************************************************************)
(* Properties                                                              *)
(***************************************************************************)
Docs == {"missing", "torn", "whole"}

ImageRecords == [id : Int, frame : Frames]
AnnRecords == [id : Int, image : Int, cat : Int]

IsCoco(c) ==
  c = Coco(c.images, c.anns, c.cats) /\ c.images \in Seq(ImageRecords) /\ c.anns \in Seq(AnnRecords)
CocoFile(f) == f.at \in Docs /\ (Whole(f) => IsCoco(f.doc))

StagingOK(s) ==
  /\ s = [there |-> s.there, coco |-> s.coco, images |-> s.images]
  /\ s.there \in BOOLEAN /\ s.images \subseteq Frames /\ CocoFile(s.coco)

\* A file that is only begun is one of the directory, which has no classes yet.
DirectoryOK(d) ==
  /\ d = [there |-> d.there, coco |-> d.coco, images |-> d.images, cut |-> d.cut,
          classes |-> d.classes, manifest |-> d.manifest, info |-> d.info, report |-> d.report]
  /\ d.images \in [Splits -> SUBSET Frames] /\ DOMAIN d.coco = Splits
  /\ d.there \in BOOLEAN /\ (~d.there => d = AbsentDir)
  /\ \A sp \in Splits : CocoFile(d.coco[sp])
  /\ d.cut \subseteq Splits \X Frames /\ \A c \in d.cut : c[2] \in d.images[c[1]]
  /\ d.cut # {} => d.classes = Missing

\* The commands there are; none migrates a dataset onto itself.
Jobs ==
  [op : {"normalize"}, from : StagingIds, to : DatasetIds, dry : {FALSE}, mode : {"copy", "move", "hardlink"},
   ratios : [train : Nat, val : Nat, test : Nat], overwrite : BOOLEAN, fallback : BOOLEAN, links : BOOLEAN,
   cross : BOOLEAN, images : BOOLEAN, cleanup : BOOLEAN, keep : BOOLEAN]
  \cup
  {j \in [op : {"migrate"}, from : DatasetIds, to : DatasetIds, dry : BOOLEAN, mode : {"copy", "move", "hardlink"},
          overwrite : BOOLEAN, fallback : BOOLEAN, links : BOOLEAN, cross : BOOLEAN, delete : BOOLEAN] : j.from # j.to}

DatasetTypeOK ==
  /\ DOMAIN staging = StagingIds /\ \A s \in StagingIds : StagingOK(staging[s])
  /\ DOMAIN raw = DatasetIds /\ \A d \in DatasetIds : DirectoryOK(raw[d])
  /\ jobs \in Seq(Jobs) /\ stamp \in Nat
  /\ imp.pc \in {"idle", "clear", "read", "write", "drop"}
  /\ imp.pc # "idle" => imp.job \in Jobs
  /\ broken \subseteq DatasetIds /\ givenUp \subseteq Frames /\ crashes \in 0..MaxCrashes

\* The directory d holds what an import into it was to leave.
Complete(d, o) ==
  /\ Whole(d.classes) /\ d.cut = {}
  /\ \A sp \in o.splits : /\ Whole(d.coco[sp])
                         /\ Whole(d.info) => d.info.doc.splits[sp] = Counts(d.coco[sp].doc)
  /\ \A f \in o.files : \E sp \in Splits : f \in d.images[sp]

\* "dataset_info.json (last)": whoever waits for that file finds the dataset
\* complete, whatever import was cut off and whichever command wrote it, unless
\* `broken` (adapter.py:267-291, cli.py:110-139, migrate_legacy_dataset.py:
\* 225-248).
ReadyMeansComplete ==
  \A d \in DatasetIds : Sentinel(raw[d]) /\ d \notin broken => Complete(raw[d], origin[d])

\* What earlier commands may have left in a directory.
LeftBefore(d) ==
  /\ DirectoryOK(d)
  /\ Sentinel(d) => Complete(d, Inventory(d))
  /\ Whole(d.info) /\ d.info.doc.by # "migrate" => d.info.doc.stamp = 0
  /\ Whole(d.report) => d.report.doc = 0

\* A capture lists each of its frames once, and both commands write the list of
\* classes and the categories of the splits from one source.
OnceEach(coco) ==
  \A i, j \in DOMAIN coco.images : coco.images[i].frame = coco.images[j].frame => i = j

Regular(d) ==
  \A sp \in Splits : Whole(d.coco[sp]) =>
    /\ OnceEach(d.coco[sp].doc)
    /\ Whole(d.classes) => d.coco[sp].doc.cats = d.classes.doc

LabelCount(d) == Len(d.coco["train"].doc.anns) + Len(d.coco["val"].doc.anns) + Len(d.coco["test"].doc.anns)

\* A directory that passes the validator holds each listed frame of its source
\* once, with its file, in the split its hash gives it, and each label of those
\* frames once and under its own class name: shared ids, lost files, torn
\* imports and unmapped classes are all caught (validate_raw_dataset.py:44-192).
ValidatedIsFaithful ==
  \A d \in DatasetIds : Validates(raw[d]) =>
    LET now == Inventory(raw[d])
    IN /\ now.frames = origin[d].frames /\ now.labels = origin[d].labels
       /\ Cardinality(now.frames) = raw[d].info.doc.images
       /\ Cardinality(now.labels) = LabelCount(raw[d])
       /\ \A o \in now.frames : o.frame \in raw[d].images[o.split]

\* A captured frame is lost only by a command that was told to remove it: an
\* import that fails or stops leaves every frame in its source or its target,
\* whatever the placement, the fallback and the flags (adapter.py:80-106,
\* 215-225; cli.py:189-199; migrate_legacy_dataset.py:203-217, 259-264).
FramesKept ==
  \A f \in Frames : InStaging(f) \/ CopiesOf(f) # {} \/ f \in givenUp

\* An import that is cut off deceives nobody and loses nothing.
ImportsSafe == ReadyMeansComplete /\ FramesKept
=============================================================================
