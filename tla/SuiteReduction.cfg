SPECIFICATION FairSpec
CONSTANTS
  o1 = o1
  o2 = o2
  pair = pair
  Scenarios <- FourScenarios
  Obligations <- ThreeObligations
  McdcIds <- OnePair
  MaxCycles = 2
INVARIANTS
  ReportedSuiteSuffices
PROPERTIES
  KeepsPromise
  Terminates
CHECK_DEADLOCK FALSE
