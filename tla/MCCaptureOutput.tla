--------------------------- MODULE MCCaptureOutput ---------------------------
(***************************************************************************)
(* The pictures and refiner versions the model checker considers.          *)
(***************************************************************************)
EXTENDS CaptureOutput

\* What the old and the new version of the refiner see of an object.
Object(class, box, old, new) ==
  [class |-> class, box |-> box, trusted |-> class = "ships", sees |-> [old |-> old, new |-> new]]

Picture(pose, objects) ==
  [sync |-> TRUE, height |-> TRUE, level |-> TRUE, pose |-> pose, objects |-> objects]

\* One that the new version refuses, and one where it sees too much.
Pictures ==
  {Picture(1, <<Object("ships", "good", "body", "nothing"), Object("unknown", "good", "body", "body")>>),
   Picture(2, <<Object("airplanes", "good", "nothing", "huge"), Object("helicopters", "bad", "tiny", "nothing")>>)}

\* The settings of the batch, and those of config.yaml after a change of the code.
BatchThenNew == {[version |-> "old", fallback |-> TRUE], [version |-> "new", fallback |-> FALSE]}
=============================================================================
