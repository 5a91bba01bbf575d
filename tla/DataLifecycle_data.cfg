SPECIFICATION Spec
CONSTANTS
  Frames = {1, 2, 3}
  Bucket <- Buckets
  StagingIds = {1, 2}
  DatasetIds = {"d", "e"}
  RunIds = {1, 2, 3}
  CacheIds = {1, 2}
  KeepLast = 1
  KeepBest = 1
  MaxAge = 0
  KeepCaches = 1
  MaxCrashes = 1
  Scenarios <- Requests
INVARIANTS TypeOK ImportsSafe ValidatedIsFaithful RegistryFaithful RetentionSafe ExportSound
CHECK_DEADLOCK FALSE
