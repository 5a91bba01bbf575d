SPECIFICATION Spec
CONSTANTS
  Runs = {r1, r2}
  NoRun = NoRun
  Via <- ViaHttp
  MaxRequests = 2
  MaxStops = 1
  Faults = {"process", "statuswrite", "lostreply", "giveup", "restart"}
SYMMETRY AnyOrder
VIEW HttpView
INVARIANTS TypeOK OneCapture FreshSuccess IdleMeansSettled
PROPERTIES SlotSpec
CHECK_DEADLOCK FALSE
