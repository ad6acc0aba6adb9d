SPECIFICATION FairSpec
CONSTANTS
  Snapshots <- AllSnapshots
  ScenarioStates <- AnyScenarioState
INVARIANTS
  CommandsNeedAuthenticatedLink
  SelectionCoherent
  LostLinkLatchedAndPublished
PROPERTIES
  ImplementsContract
  RecoversWhenHealthy
