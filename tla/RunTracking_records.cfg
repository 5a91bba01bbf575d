SPECIFICATION FairSpec
CONSTANTS
  Selections <- Choices
  MaxAttempts = 2
  MaxFaults = 1
  Watchers = {"live", "room"}
  Faults = {"stage", "write", "mirror", "die", "orphan", "attached"}
INVARIANTS TypeOK LastWord RegistryClosed RowsHonest
PROPERTIES NoClobber RunEnds WatchEnds
CHECK_DEADLOCK FALSE
