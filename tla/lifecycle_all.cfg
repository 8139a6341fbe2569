SPECIFICATION FairSpec
CONSTANTS
  g1 = g1
  g2 = g2
  e1 = e1
  e2 = e2
  None = None
  GatewayIds = {g1, g2}
  EventTasks = {e1, e2}
  MaxReloads = 1
  Scenarios <- AllScenarios
INVARIANTS
  EventsConverge
  NothingLeaks
PROPERTIES
  NoStartAfterShutdown
  OldCallbacksAreSilent
  Recovers
CHECK_DEADLOCK FALSE
