SPECIFICATION CaseSpec
CONSTANTS
  s0 = s0
  s1 = s1
  s2 = s2
  s3 = s3
  o1 = o1
  o2 = o2
  o3 = o3
  pair = pair
  true = true
  false = false
  Raised = Raised
  MaxU16 = 3
  MaxI32 = 7
  Sources <- Cases
  FieldName <- Fields
  VariantName <- Variants
  Programs <- EveryProgram
CHECK_DEADLOCK FALSE
INVARIANTS
  WitnessesReplay
  WitnessesShortest
  VerdictIsRight
  LimitsAreReal
  AcceptedCasesRun
  PathsAgree
  ReportsAreConclusive
  CoverageIsObligations
  MutantVerdictsAgree
  AcceptanceIsSound
  FaultPolicyObserved
PROPERTIES
  Terminates
