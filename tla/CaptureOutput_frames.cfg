SPECIFICATION Spec
CONSTANTS
  Missions = 1
  FramesPerMission = 2
  MinUsable = 2
  MinPositions = 2
  Scenes <- Pictures
  Versions = {"old", "new"}
  Configs <- BatchThenNew
  Undeletable = {"image", "metadata", "yolo"}
  MaxShots = 3
  MaxCommands = 3
  MaxCrashes = 1
INVARIANTS OutputConsistent RefinedLikeCaptured
\* No command need follow the last one.
CHECK_DEADLOCK FALSE
