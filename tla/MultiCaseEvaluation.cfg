SPECIFICATION Spec
CONSTANTS
  m1 = m1
  m2 = m2
  m3 = m3
  a = a
  b = b
  x = x
  y = y
  Manifests <- AllManifests
  Ids <- TwoIds
  IdOf <- Identity
  Suites <- SuiteFiles
  FailureSets <- SingleFailures
  Bytes <- TwoContents
  MaxRuns = 2
INVARIANTS
  AcceptedIsSound
  AggregatedIsOnDisk
  NoEvidenceOfAnEarlierRun
  ExitCodeMatchesEvidence
CHECK_DEADLOCK FALSE
