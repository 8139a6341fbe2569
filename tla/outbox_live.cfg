SPECIFICATION BusySpec
CONSTANTS
  g1 = g1
  g2 = g2
  f1 = f1
  f2 = f2
  mt = mt
  mc = mc
  None = None
  NumMsgs = 2
  Gateways = {g1, g2}
  Protocols = {mt, mc}
  GwProto <- MCGwProto
  Requests <- MCRequests
  Flushers = {f1, f2}
  PageLimit = 1
  ScanLimit = 1
  MaxReloads = 0
  MaxCrashes = 0
  Scenarios <- LiveScenarios
PROPERTIES
  QueueDrains
CHECK_DEADLOCK FALSE
