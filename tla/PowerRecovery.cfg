SPECIFICATION FairSpec
CONSTANTS
  Snapshots <- RecoverySnapshots
  ScenarioStates <- AnyScenarioState
PROPERTIES
  RecoversWhenHealthy
