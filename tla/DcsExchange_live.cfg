SPECIFICATION FairSpec
CONSTANTS
  MaxAttempts = 2
  MaxNow = 3
  ProbeFirst = TRUE
  PauseFirst = TRUE
  Faults = {"unlink", "startpause", "screenshot", "camera"}
PROPERTY CaptureCompletes
PROPERTY CaptureUnpauses
PROPERTY PairedSpec
\* The run ends after its frames, and the mission may be over.
CHECK_DEADLOCK FALSE
