------------------------------- MODULE Export -------------------------------
(***************************************************************************)
(* What a pipeline run makes of its checkpoint: the ONNX model, the two    *)
(* TensorRT engines, their reports, the evaluation report, and the rows    *)
(* that register them.  The files live under the run id, so another        *)
(* attempt at the run id finds those of the one before.  A file holds the  *)
(* number of the attempt whose training its weights come from; torch,      *)
(* onnx, tensorrt and the trainer are external.                            *)
(***************************************************************************)
EXTENDS Registry

VARIABLES files, shaken

exportVars == <<files, shaken>>

Precisions == {"fp16", "int8"}
Models == {"onnx", "fp16", "int8"}

\* ckpt: weights; model[m]: the file; report[m]: the content whose hash the
\* report names; table: the calibration table; summary: the evaluation.
NoFiles == [ckpt |-> Missing, model |-> [m \in Models |-> Missing],
            report |-> [m \in Models |-> Missing], table |-> Missing, summary |-> Missing]

\* shaken: history, the exports that were cut off between model and report.
InitExport == files = [r \in RunIds |-> NoFiles] /\ shaken = {}

\* External: an ONNX file has the weights, an engine the weights and the table.
OnnxOf(weights) == [weights |-> weights, table |-> 0]
EngineOf(onnx, table) == [weights |-> onnx.weights, table |-> table]

Train(r, attempt) ==
  /\ files' = [files EXCEPT ![r].ckpt = Doc(attempt)]
  /\ Exits("ok") /\ UNCHANGED <<db, kept, shaken>>

Evaluate(r) ==
  /\ IF Whole(files[r].ckpt)
     THEN files' = [files EXCEPT ![r].summary = Doc(files[r].ckpt.doc)] /\ Exits("ok")
     ELSE Exits("failed") /\ UNCHANGED files
  /\ UNCHANGED <<db, kept, shaken>>

(***************************************************************************)
(* export_to_onnx and build_tensorrt_engine                                *)
(***************************************************************************)
\* Both check their input before they write anything.
ExportOnnx(r) ==
  /\ IF Whole(files[r].ckpt)
     THEN proc' = [pc |-> "model", what |-> "onnx", run |-> r, content |-> OnnxOf(files[r].ckpt.doc)]
     ELSE Exits("failed")
  /\ UNCHANGED <<db, kept, files, shaken>>

TrainImages(d) == raw[d].images["train"]

\* int8: the images or a table must be there; without the directory of the
\* images even a table does not help.
CanCalibrate(r, d) == raw[d].there /\ (TrainImages(d) # {} \/ IsFile(files[r].table))

BuildEngine(r, precision, d) ==
  /\ IF ~Whole(files[r].model["onnx"]) \/ (precision = "int8" /\ ~CanCalibrate(r, d))
     THEN Exits("failed")
     ELSE proc' = [pc |-> IF precision = "int8" THEN "calibrate" ELSE "model", what |-> precision,
                   run |-> r, content |-> EngineOf(files[r].model["onnx"].doc, 0)]
  /\ UNCHANGED <<db, kept, files, shaken>>

Calibrate_Bug ==
  /\ proc.pc = "calibrate"
  /\ files' = [files EXCEPT ![proc.run].table = Doc(proc.content.weights)]
  /\ proc' = [proc EXCEPT !.pc = "report", !.content.table = proc.content.weights]
  /\ UNCHANGED <<db, kept, shaken>>

\* The calibrator reads the table if there is one, whatever it was made for;
\* otherwise it makes one of these weights and writes it.
Calibrate ==
  /\ proc.pc = "calibrate"
  /\ LET table == IF IsFile(files[proc.run].table) THEN files[proc.run].table.doc
                  ELSE proc.content.weights
     IN /\ files' = [files EXCEPT ![proc.run].table = Doc(table)]
        /\ proc' = [proc EXCEPT !.pc = "model", !.content.table = table]
  /\ UNCHANGED <<db, kept, shaken>>

\* The model is written in place, its report after it.
WriteModel ==
  /\ proc.pc \in {"model", "model_open"}
  /\ files' = [files EXCEPT ![proc.run].model[proc.what] =
                 IF proc.pc = "model" THEN Torn ELSE Doc(proc.content)]
  /\ proc' = [proc EXCEPT !.pc = IF @ = "model" THEN "model_open" ELSE "report"]
  /\ shaken' = shaken \cup {<<proc.run, proc.what>>}
  /\ UNCHANGED <<db, kept>>

\* The hash is that of the file as it is now.
WriteReport ==
  /\ proc.pc = "report"
  /\ files' = [files EXCEPT ![proc.run].report[proc.what] = files[proc.run].model[proc.what]]
  /\ shaken' = shaken \ {<<proc.run, proc.what>>} /\ Exits("ok") /\ UNCHANGED <<db, kept>>

ExportSteps == Calibrate \/ WriteModel \/ WriteReport

(***************************************************************************)
(* register_artifacts: the old rows of the run go in one transaction, then *)
(* every file found is hashed and inserted in one of its own; an insert    *)
(* that fails is skipped.                                                  *)
(***************************************************************************)
\* A name is the kind of the file and the model it is about, if any.
Ckpt == <<"ckpt", "">>
Summary == <<"summary", "">>
Table == <<"table", "">>
Exports == <<Table, <<"model", "onnx">>, <<"report", "onnx">>, <<"model", "fp16">>,
             <<"report", "fp16">>, <<"model", "int8">>, <<"report", "int8">>>>

FileNamed(r, name) ==
  CASE name = Ckpt -> files[r].ckpt
    [] name = Summary -> files[r].summary
    [] name = Table -> files[r].table
    [] name[1] = "model" -> files[r].model[name[2]]
    [] name[1] = "report" -> files[r].report[name[2]]

\* In this order; the evaluation report is registered twice, as a report and as a file.
Entry(table, name) == [table |-> table, name |-> name]
ToRegister ==
  <<Entry("checkpoints", Ckpt), Entry("reports", Summary), Entry("artifacts", Summary)>>
    \o [i \in DOMAIN Exports |-> Entry("artifacts", Exports[i])]

RegisterArtifacts(r) ==
  /\ db' = [db EXCEPT !.artifacts = {a \in @ : a.run # r},
                      !.checkpoints = {a \in @ : a.run # r},
                      !.reports = {a \in @ : a.run # r}]
  /\ proc' = [pc |-> "art_rows", run |-> r, todo |-> ToRegister]
  /\ UNCHANGED <<kept, files, shaken>>

\* A file that is not there is not listed.  The key is the run, the table and the
\* name; the run must have its row.
RegisterArtifact ==
  /\ proc.pc = "art_rows" /\ proc.todo # <<>>
  /\ LET e == Head(proc.todo)
         taken == \E a \in db[e.table] : a.run = proc.run /\ a.name = e.name
         file == FileNamed(proc.run, e.name)
         row == [run |-> proc.run, name |-> e.name, hash |-> file]
     IN db' = IF ~IsFile(file) \/ taken \/ ~Has(db.runs, proc.run) THEN db
              ELSE CASE e.table = "checkpoints" -> [db EXCEPT !.checkpoints = @ \cup {row}]
                     [] e.table = "reports" -> [db EXCEPT !.reports = @ \cup {row}]
                     [] OTHER -> [db EXCEPT !.artifacts = @ \cup {row}]
  /\ proc' = [proc EXCEPT !.todo = Tail(@)]
  /\ UNCHANGED <<kept, files, shaken>>

ArtifactsEnd ==
  /\ proc.pc = "art_rows" /\ proc.todo = <<>>
  /\ Exits("ok") /\ UNCHANGED <<db, kept, files, shaken>>

ArtifactSteps == RegisterArtifact \/ ArtifactsEnd

(***************************************************************************)
(* Properties                                                              *)
(***************************************************************************)
ExportTypeOK ==
  \A r \in RunIds : /\ \A m \in Models : files[r].model[m].at \in Docs /\ files[r].report[m].at \in Docs
                   /\ files[r].ckpt.at \in Docs /\ files[r].table.at \in Docs

\* A report names the hash of another file than the one beside it only after
\* an export that was cut off (export.py:174-193, 283-312).
ReportsMatch ==
  \A r \in RunIds, m \in Models :
    files[r].report[m] # files[r].model[m] => <<r, m>> \in shaken

\* When every stage of an attempt from the export on has succeeded, the model
\* and both engines carry the weights of the checkpoint, though the files, the
\* table and the rows of earlier attempts lie under the same names; the table
\* of the int8 engine may be one of earlier weights (export.py:269-280,
\* 423-426).  The rows of the run are its files, each with its hash
\* (register_artifacts.py:49-110).
ExportedWhole(r) ==
  /\ \A m \in Models : Whole(files[r].model[m]) /\ files[r].model[m].doc.weights = files[r].ckpt.doc
  /\ files[r].model["int8"].doc.table = files[r].table.doc
  /\ Whole(files[r].table) /\ files[r].table.doc <= files[r].ckpt.doc

ArtifactRowsTrue(r) ==
  {[name |-> a.name, hash |-> a.hash] : a \in {b \in db.artifacts : b.run = r}} =
    {[name |-> n, hash |-> FileNamed(r, n)] :
       n \in {x \in Range(Exports) \cup {Summary} : IsFile(FileNamed(r, x))}}
=============================================================================
