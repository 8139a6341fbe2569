SPECIFICATION FairSpec
CONSTANTS
  f1 = f1
  f2 = f2
  a = a
  b = b
  d = d
  x = x
  y = y
  j1 = j1
  j2 = j2
  None = None
  Flows = {f1, f2}
  Ids = {a, b, d}
  Addrs = {x, y}
  Versions = {1}
  Jobs = {j1, j2}
  MaxSetups = 2
  Scenarios <- EntryScenarios
INVARIANTS
  MarkIsEarned
  OneThread
  RunsWhatIsSaved
PROPERTIES
  OwnedLeavesKnowingly
  ConnectionsClose
CHECK_DEADLOCK FALSE
