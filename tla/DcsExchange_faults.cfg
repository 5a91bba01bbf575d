SPECIFICATION Spec
CONSTANTS
  MaxAttempts = 2
  MaxNow = 3
  ProbeFirst = TRUE
  PauseFirst = TRUE
  Faults = {"abort", "setpause", "snapshot", "screenshot", "mission", "ackwrite", "camera"}
INVARIANT TypeOK
INVARIANT FramePairing
INVARIANT AppliedCameraIsInFrame
INVARIANT SnapshotInPause
PROPERTY PhotographedOnce
\* The run ends after its frames, and the mission may be over.
CHECK_DEADLOCK FALSE
