SPECIFICATION RSpec
CONSTANTS
  Snapshots <- AllSnapshots
  ScenarioStates = {}
INVARIANTS
  NoAutomaticReturnAfterMismatch
