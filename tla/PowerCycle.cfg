SPECIFICATION OSpec
CONSTANTS
  Snapshots <- AllSnapshots
  ScenarioStates <- AnyScenarioState
INVARIANTS
  PermitsNeedUsableSource
  IsolationKeepsASource
  CommandsCoherent
  DualLossCommitted
  CriticalBusLands
  BlockingFaultPublished
  MeetsExpectation
PROPERTIES
  ImplementsContract
