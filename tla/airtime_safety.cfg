SPECIFICATION Spec
CONSTANTS
  g1 = g1
  g2 = g2
  t1 = t1
  t2 = t2
  Requests = {r1, r2}
  Gateways = {g1, g2}
  Targets = {t1, t2}
  Floor = 2
  TargetFloor = 3
  RebootFloor = 3
  Retention = 1
  Scenarios <- SafetyScenarios
  MaxClock = 4
SYMMETRY RequestSymmetry
PROPERTIES
  SlotsKept
  CooldownsLast
  ProbeRespectsAll
