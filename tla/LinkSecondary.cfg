SPECIFICATION Spec
CONSTANTS
  Snapshots <- AllSnapshots
  ScenarioStates = {}
INVARIANTS
  SecondarySelectedWhenPrimaryDown
