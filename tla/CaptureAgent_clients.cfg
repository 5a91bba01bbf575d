SPECIFICATION FairSpec
CONSTANTS
  Runs = {r1, r2, r3}
  NoRun = NoRun
  Via <- ViaBoth
  MaxRequests = 1
  MaxStops = 0
  Faults = {"process", "statuswrite"}
PROPERTIES ServedOnce BecomesIdle HttpClientsEnd
CHECK_DEADLOCK FALSE
