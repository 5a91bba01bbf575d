----------------------------- MODULE PairedCapture -----------------------------
(***************************************************************************)
(* What one capture promises, without files, callbacks or processes.  An   *)
(* exposure fixes one view of the simulator under a token: the instant of  *)
(* the world and the camera pose.  A frame that enters the dataset takes   *)
(* its telemetry and its image from the same exposure of its own token.    *)
(* Exposures may be retaken or thrown away; frames are kept for ever.      *)
(*                                                                         *)
(* Module DcsExchange implements this specification (DcsExchange!Paired).  *)
(***************************************************************************)
CONSTANTS Tokens, Views, NoView

VARIABLES exposure, kept
vars == <<exposure, kept>>

Init ==
  /\ exposure = [t \in Tokens |-> NoView]
  /\ kept = {}

Expose(t) ==
  /\ \E v \in Views : exposure' = [exposure EXCEPT ![t] = v]
  /\ UNCHANGED kept

Discard(t) ==
  /\ exposure' = [exposure EXCEPT ![t] = NoView]
  /\ UNCHANGED kept

Keep(t) ==
  /\ exposure[t] # NoView
  /\ kept' = kept \cup
       {[tok |-> t, telemetry |-> exposure[t], image |-> exposure[t]]}
  /\ UNCHANGED exposure

Next == \E t \in Tokens : Expose(t) \/ Discard(t) \/ Keep(t)

Spec == Init /\ [][Next]_vars
=============================================================================
