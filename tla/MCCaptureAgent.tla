---------------------------- MODULE MCCaptureAgent ----------------------------
(***************************************************************************)
(* Values for the model checker: which transport each client uses, and,    *)
(* where all of them use HTTP, the symmetry of the run ids and a view.     *)
(***************************************************************************)
EXTENDS CaptureAgent, TLC

ViaHttp == [r \in Runs |-> "http"]
AnyOrder == Permutations(Runs)
\* One run comes through the folder, the others over HTTP.
ViaBoth == LET s == CHOOSE r \in Runs : TRUE IN
           [r \in Runs |-> IF r = s THEN "shared" ELSE "http"]
\* Over HTTP nobody reads the mirror files, and which requests were served is a
\* history that only ServedOnce reads: states that differ in these alone are one.
HttpView ==
  <<runnerVars, status, watchVars, clientVars, up, orphans, dataVars, beside, stops>>
=============================================================================
