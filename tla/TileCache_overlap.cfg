SPECIFICATION Spec
CONSTANTS
  v1 = v1  v2 = v2  v3 = v3  k1 = k1  k2 = k2
  Runs = {r1, r2}
  Versions = {v1, v2}
  NoVersion = NoVersion
  Keys = {k1}
  Key <- SameKey
  MaxBuilds = 1
  Tiles = {t1, t2}
  Faults = {"concurrent"}
INVARIANTS PublishedWhole
CHECK_DEADLOCK FALSE
