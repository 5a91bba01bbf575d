-------------------------------- MODULE JobSlot --------------------------------
(***************************************************************************)
(* What the capture agent promises about the one DCS installation it       *)
(* drives: there is one slot, a run takes it when it is free, only the run *)
(* that holds it works on the machine, and it gives the slot back when it  *)
(* has stopped working, unless it dies.  Module CaptureAgent implements    *)
(* this specification.                                                     *)
(***************************************************************************)
CONSTANTS Runs, NoRun

VARIABLES slot, working
vars == <<slot, working>>

Init == slot = NoRun /\ working = {}

Take(r) ==
  /\ slot = NoRun /\ working = {}
  /\ slot' = r /\ UNCHANGED working

Work(r) ==
  /\ slot = r /\ working = {}
  /\ working' = {r} /\ UNCHANGED slot

Rest(r) ==
  /\ slot = r /\ working = {r}
  /\ working' = {} /\ UNCHANGED slot

Release(r) ==
  /\ slot = r /\ working = {}
  /\ slot' = NoRun /\ UNCHANGED working

\* The agent dies: its slot is lost with it.
Crash == slot' = NoRun /\ working' = {}

Next == Crash \/ \E r \in Runs : Take(r) \/ Work(r) \/ Rest(r) \/ Release(r)

Spec == Init /\ [][Next]_vars
=============================================================================
