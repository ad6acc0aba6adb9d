SPECIFICATION Spec
CONSTANTS
  o1 = o1
  pair = pair
  m1 = m1
  m2 = m2
  Scenarios <- ThreeScenarios
  Obligations <- TwoObligations
  McdcIds <- OnePair
  Mutants <- TwoMutants
  MaxCycles = 2
INVARIANTS
  ProgressIsReal
  ReportedSuiteSuffices
PROPERTIES
  KeepsPromise
CHECK_DEADLOCK FALSE
