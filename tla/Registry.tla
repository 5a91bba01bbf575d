------------------------------ MODULE Registry ------------------------------
(***************************************************************************)
(* The SQLite registry and the commands that fill it: register_dataset     *)
(* (one transaction per row), the row of a pipeline run, the row of a tile *)
(* cache.  Each table is a set of rows; foreign keys are enforced.         *)
(* `proc` is the subprocess of the stage a pipeline is at: one at a time.  *)
(***************************************************************************)
EXTENDS RawDatasets

CONSTANTS RunIds, CacheIds

VARIABLES
  db,     \* the tables
  proc,   \* the subprocess: where it is, and how the last one ended
  kept    \* history: datasets whose last registration ended well

registryVars == <<db, proc, kept>>

EmptyDb ==
  [datasets |-> {}, images |-> {}, anns |-> {}, runs |-> {}, caches |-> {},
   artifacts |-> {}, checkpoints |-> {}, reports |-> {}]

\* A column that is empty.
Null == 0

InitRegistry == db = EmptyDb /\ proc = [pc |-> "idle", result |-> "none"] /\ kept = {}

Exits(result) == proc' = [pc |-> "exit", result |-> result]

(***************************************************************************)
(* Operations of SQLiteMetadataStore: the tables after one transaction,    *)
(* and what the schema refuses                                             *)
(***************************************************************************)
Has(table, id) == \E r \in table : r.id = id
RowOf(table, id) == CHOOSE r \in table : r.id = id
Upsert(table, row) == {r \in table : r.id # row.id} \cup {row}

ImageUid(row) == <<row.dataset, row.split, row.id>>

CanRegisterImage(row) ==
  Has(db.datasets, row.dataset) /\ \A r \in db.images : ImageUid(r) # ImageUid(row)

CanRegisterAnnotation(row) ==
  /\ Has(db.datasets, row.dataset)
  /\ \E r \in db.images : ImageUid(r) = <<row.dataset, row.split, row.image>>
  /\ \A r \in db.anns : ImageUid(r) # ImageUid(row)

\* Rows of other tables that name the run keep it from being deleted.
RunReferenced(r) ==
  \E row \in db.artifacts \cup db.checkpoints \cup db.reports : row.run = r

UpdateRun(r, change) ==
  [db EXCEPT !.runs = {IF row.id = r THEN [f \in DOMAIN row |-> IF f \in DOMAIN change THEN change[f] ELSE row[f]]
                       ELSE row : row \in @}]

DropDatasetRows_Bug(d) ==
  [db EXCEPT !.anns = {r \in @ : r.dataset # d}]

\* The row of the dataset stays: runs and caches may refer to it.
DropDatasetRows(d) ==
  [db EXCEPT !.anns = {r \in @ : r.dataset # d}, !.images = {r \in @ : r.dataset # d}]

(***************************************************************************)
(* register_dataset                                                        *)
(***************************************************************************)
ImageRows(d, sp, coco) ==
  [i \in DOMAIN coco.images |->
     [table |-> "images", dataset |-> d, split |-> sp, id |-> coco.images[i].id,
      frame |-> coco.images[i].frame, objects |-> OfImage(coco, coco.images[i].id) # <<>>]]

AnnotationRows(d, sp, coco) ==
  [i \in DOMAIN coco.anns |->
     [table |-> "anns", dataset |-> d, split |-> sp, id |-> coco.anns[i].id,
      image |-> coco.anns[i].image, cat |-> coco.anns[i].cat]]

\* compute_directory_hash stands for the whole content of the directory.
RegisterHash(d, replace) ==
  /\ IF Whole(raw[d].info)
     THEN proc' = [pc |-> "reg_open", dataset |-> d, replace |-> replace, hash |-> raw[d]]
     ELSE Exits("failed")
  /\ UNCHANGED <<db, kept>>

RegisterOpen ==
  /\ proc.pc = "reg_open"
  /\ \/ /\ Has(db.datasets, proc.dataset) /\ ~proc.replace
        /\ Exits("failed") /\ UNCHANGED <<db, kept>>
     \/ /\ Has(db.datasets, proc.dataset) => proc.replace
        /\ db' = IF Has(db.datasets, proc.dataset) THEN DropDatasetRows(proc.dataset) ELSE db
        /\ proc' = [proc EXCEPT !.pc = "reg_upsert"]
        /\ kept' = kept \ {proc.dataset}

\* The row says "registered" before any image or annotation is.
RegisterUpsert ==
  /\ proc.pc = "reg_upsert"
  /\ IF proc.hash.info.doc.stamp = NoStamp
     THEN Exits("failed") /\ UNCHANGED db
     ELSE /\ db' = [db EXCEPT !.datasets = Upsert(@, [id |-> proc.dataset, hash |-> proc.hash])]
          /\ proc' = [pc |-> "reg_rows", dataset |-> proc.dataset, left |-> SPLITS, rows |-> <<>>]
  /\ UNCHANGED kept

\* Each split is read when it is reached; one that is not there is skipped.
RegisterSplit ==
  /\ proc.pc = "reg_rows" /\ proc.rows = <<>> /\ proc.left # <<>>
  /\ LET d == proc.dataset
         sp == Head(proc.left)
         file == raw[d].coco[sp]
         rows == IF Whole(file) THEN ImageRows(d, sp, file.doc) \o AnnotationRows(d, sp, file.doc) ELSE <<>>
     IN IF file.at = "torn" THEN Exits("failed")
        ELSE proc' = [pc |-> "reg_rows", dataset |-> d, left |-> Tail(proc.left), rows |-> rows]
  /\ UNCHANGED <<db, kept>>

RegisterRow ==
  /\ proc.pc = "reg_rows" /\ proc.rows # <<>>
  /\ LET row == Head(proc.rows)
         ok == IF row.table = "images" THEN CanRegisterImage(row) ELSE CanRegisterAnnotation(row)
     IN IF ok
        THEN /\ db' = IF row.table = "images" THEN [db EXCEPT !.images = @ \cup {row}]
                      ELSE [db EXCEPT !.anns = @ \cup {row}]
             /\ proc' = [proc EXCEPT !.rows = Tail(@)]
        ELSE Exits("failed") /\ UNCHANGED db
  /\ UNCHANGED kept

RegisterEnd ==
  /\ proc.pc = "reg_rows" /\ proc.rows = <<>> /\ proc.left = <<>>
  /\ Exits("ok") /\ kept' = kept \cup {proc.dataset}
  /\ UNCHANGED db

RegisterSteps == RegisterOpen \/ RegisterUpsert \/ RegisterSplit \/ RegisterRow \/ RegisterEnd

(***************************************************************************)
(* The rows of a run and of a tile cache                                   *)
(***************************************************************************)
\* create --replace: the old row goes in a transaction of its own.
CreateDelete(r) ==
  /\ IF Has(db.runs, r) /\ RunReferenced(r)
     THEN Exits("failed") /\ UNCHANGED db
     ELSE /\ db' = [db EXCEPT !.runs = {row \in @ : row.id # r}]
          /\ proc' = [pc |-> "create_insert", result |-> "none"]
  /\ UNCHANGED kept

\* A dataset that is not registered yet is left out, and nothing adds it later.
CreateInsert(r, d, now) ==
  /\ proc.pc = "create_insert" /\ Exits("ok")
  /\ db' = [db EXCEPT !.runs = @ \cup
              {[id |-> r, dataset |-> IF Has(db.datasets, d) THEN d ELSE "null",
                started |-> now, status |-> "running", cache |-> Null]}]
  /\ UNCHANGED kept

CloseRun(r) ==
  /\ db' = UpdateRun(r, [status |-> "success"])
  /\ Exits(IF Has(db.runs, r) THEN "ok" ELSE "failed")
  /\ UNCHANGED kept

\* INSERT OR REPLACE, refused without the row of the dataset.
WithTileCache(c, d, now) ==
  IF Has(db.datasets, d)
  THEN [db EXCEPT !.caches = Upsert(@, [id |-> c, dataset |-> d, created |-> now])]
  ELSE db

(***************************************************************************)
(* Properties                                                              *)
(***************************************************************************)
RowsOf(d) ==
  [images |-> UNION {Range(ImageRows(d, sp, raw[d].coco[sp].doc)) : sp \in Present(raw[d])},
   anns |-> UNION {Range(AnnotationRows(d, sp, raw[d].coco[sp].doc)) : sp \in Present(raw[d])}]

\* A directory with the date of the import that made it: created_at, or that of
\* the report for a migration, whose dataset_info.json has the date of its source.
Dated(d) == Whole(d.info) /\ (d.info.doc.by = "migrate" => Whole(d.report))

\* A registration that ended well for the content the directory still has has
\* left exactly its images and annotations in the tables: although the hash,
\* the row of the dataset and each other row are written at moments of their
\* own, an import may rewrite the directory in between, and a registration may
\* follow one that failed or was killed (register_dataset.py:35-152).  Not so
\* if it hashed a migration that had still to write its report: when another
\* migration of the same source has come to that point, the same content is
\* there again, and the registration may have read its rows in between.
RegistryFaithful ==
  \A r \in db.datasets : r.id \in kept /\ raw[r.id] = r.hash /\ Dated(r.hash) =>
    /\ {row \in db.images : row.dataset = r.id} = RowsOf(r.id).images
    /\ {row \in db.anns : row.dataset = r.id} = RowsOf(r.id).anns
=============================================================================
