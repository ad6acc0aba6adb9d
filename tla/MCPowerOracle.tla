---------------------------- MODULE MCPowerOracle ----------------------------
(* Instances of PowerOracle for TLC. *)
EXTENDS PowerOracle

AnyScenarioState == RetainedStates
=============================================================================
