--------------------------- MODULE MCDataLifecycle ---------------------------
(***************************************************************************)
(* The datasets, imports, runs and gc passes the model checker considers.  *)
(***************************************************************************)
EXTENDS DataLifecycle

\* Two buckets at the boundaries of the splits.
Buckets == <<6999, 7000, 8500>>
Ratios == [train |-> 7000, val |-> 1500, test |-> 1500]
NoSum == [Ratios EXCEPT !.test = 1000]

Img(id, f) == [id |-> id, frame |-> f]
Ann(id, image, cat) == [id |-> id, image |-> image, cat |-> cat]

Plain == Coco(<<Img(1, 1), Img(2, 2)>>, <<Ann(1, 1, 0), Ann(2, 2, 2)>>, CANONICAL_CATEGORIES)
\* A merged file: two images with one id.
Twins == Coco(<<Img(1, 1), Img(1, 2)>>, <<Ann(1, 1, 0)>>, CANONICAL_CATEGORIES)
\* A frame whose file is gone, a file that is not listed, a label without image.
Ragged == Coco(<<Img(1, 1), Img(2, 3)>>, <<Ann(1, 1, 0), Ann(2, 2, 1), Ann(3, 7, 1)>>, CANONICAL_CATEGORIES)
Other == Coco(<<Img(5, 3), Img(2, 2)>>, <<Ann(4, 5, 1)>>, CANONICAL_CATEGORIES)
FourClass == Coco(<<Img(1, 1), Img(2, 3)>>, <<Ann(1, 1, 0), Ann(2, 2, 3), Ann(3, 2, 1), Ann(4, 2, 2)>>, LEGACY_CATEGORIES)

Source(coco, images) == [there |-> TRUE, coco |-> coco, images |-> images]
Staged(src) == <<src, NoStaging>>
Sources == {Source(Doc(Plain), {1, 2}), Source(Doc(Twins), {1, 2}),
            Source(Doc(Ragged), {1, 2}), Source(Torn, {1})}

\* A raw dataset of the four-class time, and one without its test split.
OldDir(all, splits) ==
  LET coco(sp) == SplitCoco(all, Ratios, sp)
  IN [AbsentDir EXCEPT
        !.there = TRUE, !.coco = [sp \in Splits |-> IF sp \in splits THEN Doc(coco(sp)) ELSE Missing],
        !.images = [sp \in Splits |-> Listed(coco(sp))],
        !.classes = Doc(LEGACY_CATEGORIES),
        !.info = Doc([splits |-> [sp \in splits |-> Counts(coco(sp))], images |-> 2,
                      by |-> "normalize", stamp |-> 0])]

Normalize(flags, mode) ==
  [op |-> "normalize", from |-> 1, to |-> "d", dry |-> FALSE, mode |-> mode, ratios |-> Ratios,
   overwrite |-> "overwrite" \in flags, fallback |-> "fallback" \in flags,
   links |-> "nolinks" \notin flags, cross |-> "cross" \in flags,
   images |-> "noimages" \notin flags, cleanup |-> "cleanup" \in flags, keep |-> FALSE]

\* Never onto itself: see README.
Migrate(flags, mode) ==
  [op |-> "migrate", from |-> "d", to |-> "e", mode |-> mode,
   dry |-> "dry" \in flags, overwrite |-> "overwrite" \in flags, fallback |-> "fallback" \in flags,
   links |-> TRUE, cross |-> "cross" \in flags, delete |-> "delete" \in flags]

Modes == {"copy", "move", "hardlink"}

Scenario(s, r, js, as, n, old) ==
  [staging |-> Staged(s), raw |-> r, jobs |-> js, attempts |-> as, passes |-> n, expired |-> old]

NoRaw == [d \in {} |-> AbsentDir]
Old(splits) == [d \in {"d"} |-> OldDir(FourClass, splits)]
\* A category that no layout has.
OldUnknown == [d \in {"d"} |-> OldDir(Coco(FourClass.images, <<Ann(1, 1, 9)>>, LEGACY_CATEGORIES), Splits)]
OldTorn == [d \in {"d"} |-> [OldDir(FourClass, Splits) EXCEPT !.info = Torn]]
OldNoInfo == [d \in {"d"} |-> [OldDir(FourClass, {"train"}) EXCEPT !.info = Missing]]
OldHalf == [d \in {"d"} |-> [OldDir(FourClass, Splits) EXCEPT !.coco["test"] = Torn, !.info = Missing]]

Imports ==
  {Scenario(s, NoRaw, <<Normalize(flags, m)>>, <<>>, 0, {}) :
     s \in Sources, m \in Modes, flags \in SUBSET {"fallback", "nolinks", "cross", "noimages", "cleanup"}}
  \cup
  {Scenario(s, NoRaw, <<Normalize(f, m), second>>, <<>>, 0, {}) :
     s \in Sources, m \in {"copy", "move"}, f \in SUBSET {"cleanup"},
     second \in {Normalize(g, k) : g \in SUBSET {"overwrite", "cleanup"}, k \in {"copy", "move"}}
            \cup {Migrate({"delete"}, "copy"), Migrate({}, "move"), Migrate({}, "hardlink")}}
  \cup
  {Scenario(Source(Doc(Plain), {}), Old(sp), <<Migrate(flags, m), Migrate({"overwrite"}, "copy")>>, <<>>, 0, {}) :
     sp \in {Splits, {"train", "val"}}, m \in Modes, flags \in SUBSET {"fallback", "cross", "delete", "dry"}}
  \cup {Scenario(Source(Doc(Plain), {}), old, <<Migrate({"dry"}, "copy"), Migrate({}, "copy")>>, <<>>, 0, {}) :
           old \in {OldUnknown, OldTorn, OldHalf}}
  \cup {Scenario(Source(Doc(Plain), {1, 2}), NoRaw,
                 <<[Normalize({}, "copy") EXCEPT !.ratios = NoSum]>>, <<>>, 0, {})}

Attempt(r, c, stages) == [run |-> r, dataset |-> "d", cache |-> c, replace |-> TRUE, stages |-> stages]

\* An import is repeated while a run validates and registers its dataset.
Registrations ==
  {Scenario(s, NoRaw, <<Normalize({}, "copy"), Normalize(f, "copy")>>,
            <<Attempt(1, 1, <<"create_pipeline_run", "validate_raw_dataset", "register_dataset">>)>>, 0, {}) :
     s \in {Source(Doc(Plain), {1, 2}), Source(Doc(Twins), {1, 2})}, f \in {{"overwrite"}}}

\* A dataset is migrated, and once more, while it is registered; its source has a
\* dataset_info.json or not.
Migrations ==
  {Scenario(Source(Doc(Plain), {}), old, <<Migrate({}, "copy"), Migrate({"overwrite"}, "copy")>>,
            <<[Attempt(1, 1, <<"register_dataset">>) EXCEPT !.dataset = "e"]>>, 0, {}) :
     old \in {Old({"train", "val"}), OldNoInfo}}

\* run_all always replaces; the command given by hand may not.
TwoRegistrations ==
  LET again == Attempt(1, 1, <<"register_dataset">>) IN
  {Scenario(Source(Doc(Ragged), {1, 2}), NoRaw, <<Normalize({}, "copy")>>,
            <<again, [again EXCEPT !.replace = r]>>, 0, {}) : r \in BOOLEAN}

\* Two attempts at one run id, each with training, exports and registration.
\* The dataset is filled again from another capture, before or after it is registered.
Replacements ==
  LET register == Attempt(1, 1, <<"register_dataset">>)
      second == [Normalize({"overwrite"}, "copy") EXCEPT !.from = 2]
  IN {[Scenario(Source(Doc(Plain), {1, 2}), NoRaw, <<Normalize({}, "copy"), second>>, <<register, register>>, 0, {})
         EXCEPT !.staging = <<Source(Doc(Plain), {1, 2}), Source(Doc(Other), {2, 3})>>]}

ExportStages == <<"create_pipeline_run", "train_yolox", "evaluate_model", "export_onnx", "export_trt_fp16",
                  "export_trt_int8", "register_artifacts", "update_pipeline_run_status">>
ExportRuns ==
  {Scenario(Source(Doc(Plain), {}), Old(Splits), <<>>, <<Attempt(1, 1, ExportStages), Attempt(1, 1, ExportStages)>>, 0, {})}

\* Three attempts that share caches, and a pass at any time between their steps.
\* In one list the second run takes a new cache and the third attempt repeats the
\* first run with the first cache; in the other the first run is measured.
CacheStages == <<"create_pipeline_run", "register_dataset", "build_or_reuse_tile_cache", "evaluate_model",
                 "register_artifacts">>
Measured == <<"create_pipeline_run", "register_dataset", "build_or_reuse_tile_cache", "train_yolox",
              "evaluate_model", "register_artifacts">>
Short == <<"create_pipeline_run", "build_or_reuse_tile_cache">>
Passes ==
  {Scenario(Source(Doc(Plain), {1, 2}), NoRaw, js, <<>>, 1, {1}) :
     js \in {<<Normalize({}, "move")>>, <<Normalize({}, "copy"), Migrate({}, "move")>>}}
  \cup
  {Scenario(Source(Doc(Plain), {}), Old(Splits), <<>>, as, 1, {}) :
     as \in {<<Attempt(1, 1, CacheStages), Attempt(2, 2, CacheStages), Attempt(1, 1, CacheStages)>>,
             <<Attempt(1, 1, Measured), Attempt(2, 2, Short), Attempt(3, 2, Short)>>}}

Requests == Imports \cup Registrations \cup Migrations \cup TwoRegistrations \cup Replacements \cup ExportRuns \cup Passes
=============================================================================
