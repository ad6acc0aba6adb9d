SPECIFICATION Spec
CONSTANTS
  FailureSets <- SomeFailures
  MaxRuns = 2
INVARIANTS
  NoEvidenceBehindAFailedGate
  EvidenceOfOneRun
  ManifestIsAccurate
  CompleteDirectoryIsEvidence
CHECK_DEADLOCK FALSE
