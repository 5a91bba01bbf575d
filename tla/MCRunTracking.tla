--------------------------- MODULE MCRunTracking ---------------------------
(***************************************************************************)
(* The choice of the stages (_select_stages of run_all.py), and the        *)
(* choices the model checker considers.                                    *)
(***************************************************************************)
EXTENDS RunTracking

\* The arguments are sets; startAt and stopAfter have at most one member.  A
\* request that names an unknown stage, or a stop_after before start_at, raises
\* before the run begins and is not considered.
SelectStages(only, startAt, stopAfter, skip) ==
  LET wanted(s) == /\ \A t \in startAt : Canonical(t) <= Canonical(s)
                   /\ \A t \in stopAfter : Canonical(s) <= Canonical(t)
                   /\ s \notin skip
      named(s) == s \in only
  IN IF only # {} THEN SelectSeq(STAGES_ORDER, named) ELSE SelectSeq(STAGES_ORDER, wanted)

\* A run without its longest stages, and a slice that keeps no row.
Choices == {
  SelectStages({"create_pipeline_run", "train_yolox", "register_artifacts",
                "update_pipeline_run_status"}, {}, {}, {}),
  SelectStages({}, {"register_dataset"}, {"train_yolox"}, {})}
OneChoice == {SelectStages({"create_pipeline_run", "validate_raw_dataset"}, {}, {}, {})}
=============================================================================
