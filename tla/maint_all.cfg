SPECIFICATION FairScanSpec
CONSTANTS
  Candidates = {n1, n2, n3}
  Interval = 4
  QuietSeconds = 2
  Spacing = 3
  TickSeconds = 1
  MaxRequests = 2
  Troubles <- AllTroubles
INVARIANTS
  NoRetryInCycle
PROPERTIES
  AttemptsSpaced
  CyclesGoOn
