SPECIFICATION Spec
CONSTANTS
  v1 = v1  v2 = v2  v3 = v3  k1 = k1  k2 = k2
  Runs = {r1, r2}
  Versions = {v1, v2, v3}
  NoVersion = NoVersion
  Keys = {k1, k2}
  Key <- KeyBySize
  MaxBuilds = 2
  Tiles = {t1, t2}
  Faults = {"fail"}
SYMMETRY Alike
INVARIANTS TypeOK PublishedWhole TrainedOnOwnData
PROPERTIES StoreSpec
CHECK_DEADLOCK FALSE
