SPECIFICATION Spec
CONSTANTS
  g1 = g1
  g2 = g2
  o1 = o1
  o2 = o2
  o3 = o3
  o4 = o4
  None = None
  Gateways = {g1, g2}
  Ops = {o1, o2, o3, o4}
  Paths <- MCPaths
  Sections <- MCSections
  SectionOf <- MCSectionOf
  Values <- MCValues
  Scenarios <- AllScenarios
  MaxEdits = 1
  MaxDrops = 1
  MaxUnloads = 2
SYMMETRY Handlers
INVARIANTS DraftsAreCurrent SentOnce
PROPERTIES OnlyTheDraft
CHECK_DEADLOCK FALSE
