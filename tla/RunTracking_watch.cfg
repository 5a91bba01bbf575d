SPECIFICATION Spec
CONSTANTS
  Selections <- OneChoice
  MaxAttempts = 1
  MaxFaults = 0
  Watchers = {"live"}
  Faults = {}
INVARIANTS WatchEndsWithRun
CHECK_DEADLOCK FALSE
