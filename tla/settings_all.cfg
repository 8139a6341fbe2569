SPECIFICATION Spec
CONSTANTS
  Ops = {o1, o2, o3}
  None = None
  o1 = o1
  o2 = o2
  o3 = o3
  Scenarios <- AllScenarios
  MaxEdits = 1
  MaxDrops = 1
  MaxUpdates = 1
INVARIANTS SentOnce ReportedIsReal PinAccounted NoUpdateLost
PROPERTIES WritesOnWhatWasShown
CHECK_DEADLOCK FALSE
