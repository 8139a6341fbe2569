SPECIFICATION Spec
CONSTANTS
  g1 = g1
  g2 = g2
  f1 = f1
  f2 = f2
  mt = mt
  mc = mc
  None = None
  NumMsgs = 3
  Gateways = {g1, g2}
  Protocols = {mt, mc}
  GwProto <- MCGwProto
  Requests <- MCRequests
  Flushers = {f1, f2}
  PageLimit = 2
  ScanLimit = 1
  MaxReloads = 1
  MaxCrashes = 1
  Scenarios <- SafetyScenarios
INVARIANTS
  OneDelivery
  OldGenerationDrained
  ReplayedOnce
  DeletedStaysDeleted
PROPERTIES
  FenceHolds
CHECK_DEADLOCK FALSE
