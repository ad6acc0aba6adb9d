------------------------- MODULE MCPowerSupervisor -------------------------
(* Instances of PowerSupervisor for TLC. *)
EXTENDS PowerSupervisor

(* Controlled scenarios and the coverage-closure vectors start from any    *)
(* state, latched or not; the synthesizer and the generated crate start    *)
(* from the declared initial state.                                        *)
AnyScenarioState == RetainedStates

(* For the liveness run, fewer snapshots: initialization is complete, no   *)
(* landing phase, overcurrent or persisted warning, and the two batteries  *)
(* are healthy or failed together.                                         *)
RecoverySnapshots ==
  {in \in AllSnapshots :
     /\ in.PayloadOvercurrent = FALSE /\ in.FlightPhaseLanding = FALSE
     /\ in.InitializationComplete
     /\ in.BatteryAHealthy = in.BatteryBHealthy
     /\ ~in.MainBusWarningPersisted}
=============================================================================
