--------------------------- MODULE PowerSupervisor ---------------------------
(***************************************************************************)
(* The power supervisor, the program of                                    *)
(* src/examples/power-supervisor/source/power-supervisor.ascp with the     *)
(* runtime-fault policy of                                                 *)
(* src/examples/power-supervisor/policies/runtime-fault-policy.json, run   *)
(* by the cycle of AirExecutionCycle.                                      *)
(***************************************************************************)

States == {"INITIALIZING", "NORMAL", "ENERGY_CONSERVATION", "DEGRADED",
           "CRITICAL", "RECOVERY_PENDING", "LOCKOUT"}

RetainedStates == [State : States, BlockingFaultLatched : BOOLEAN]

AllSnapshots ==
  [InputSetValid              : BOOLEAN, InitializationComplete  : BOOLEAN,
   BatteryAHealthy            : BOOLEAN, BatteryBHealthy         : BOOLEAN,
   EssentialPowerAvailable    : BOOLEAN, MainBusWarningPersisted : BOOLEAN,
   MainBusCritical            : BOOLEAN, ReserveEnergyLow        : BOOLEAN,
   ReturnEnergyInsufficient   : BOOLEAN,
   ContactorMismatchPersisted : BOOLEAN, RecoveryStable          : BOOLEAN,
   ResetAuthorized            : BOOLEAN, PayloadOvercurrent      : BOOLEAN,
   FlightPhaseLanding         : BOOLEAN]

OutputFrames ==
  [PayloadPermit            : BOOLEAN, ShedNonessentialLoads   : BOOLEAN,
   IsolateBatteryA          : BOOLEAN, IsolateBatteryB         : BOOLEAN,
   ReturnToHomeRequest      : BOOLEAN, ImmediateLandingRequest : BOOLEAN,
   MissionProgressionPermit : BOOLEAN, BlockingPowerFault      : BOOLEAN,
   SupervisorState          : States]

CONSTANTS Snapshots, ScenarioStates

ASSUME SnapshotsAssumption == Snapshots \subseteq AllSnapshots
ASSUME ScenarioStatesAssumption == ScenarioStates \subseteq RetainedStates

VARIABLES retained, cycle

InitialState == [State |-> "INITIALIZING", BlockingFaultLatched |-> FALSE]

-----------------------------------------------------------------------------
(* TRANSITION_STAGE: the conditions its branches share, then one operator  *)
(* per arm of the CASE, its ELSIF chain read in order.                     *)

SourceUsable(in) == in.BatteryAHealthy \/ in.BatteryBHealthy

DualLossTarget(in) ==
  IF in.EssentialPowerAvailable THEN "CRITICAL" ELSE "LOCKOUT"

PowerAnomaly(in) ==
  \/ in.ContactorMismatchPersisted
  \/ in.MainBusWarningPersisted
  \/ ~in.BatteryAHealthy
  \/ ~in.BatteryBHealthy

StableSupply(in) ==
  /\ in.RecoveryStable
  /\ ~in.ContactorMismatchPersisted
  /\ ~in.MainBusWarningPersisted
  /\ SourceUsable(in)
  /\ in.EssentialPowerAvailable

FullRecovery(in) ==
  /\ StableSupply(in)
  /\ ~in.MainBusCritical
  /\ ~in.ReturnEnergyInsufficient

FromInitializing(in) ==
  IF /\ in.InitializationComplete
     /\ SourceUsable(in)
     /\ in.EssentialPowerAvailable
  THEN "NORMAL"
  ELSE IF in.InitializationComplete THEN "LOCKOUT"
  ELSE "INITIALIZING"

FromNormal(in) ==
  IF ~SourceUsable(in) THEN DualLossTarget(in)
  ELSE IF in.MainBusCritical THEN "CRITICAL"
  ELSE IF in.ReturnEnergyInsufficient THEN "ENERGY_CONSERVATION"
  ELSE IF PowerAnomaly(in) THEN "DEGRADED"
  ELSE IF in.ReserveEnergyLow THEN "ENERGY_CONSERVATION"
  ELSE "NORMAL"

FromEnergyConservation(in) ==
  IF ~SourceUsable(in) THEN DualLossTarget(in)
  ELSE IF in.MainBusCritical THEN "CRITICAL"
  ELSE IF PowerAnomaly(in) THEN "DEGRADED"
  ELSE IF ~in.ReserveEnergyLow /\ ~in.ReturnEnergyInsufficient THEN "NORMAL"
  ELSE "ENERGY_CONSERVATION"

(* Defect: the bus test placed before the loss of both sources.            *)
BusBeforeDualLoss(in) ==
  IF in.MainBusCritical \/ in.ReturnEnergyInsufficient THEN "CRITICAL"
  ELSE IF ~SourceUsable(in) THEN DualLossTarget(in)
  ELSE IF StableSupply(in) THEN "RECOVERY_PENDING"
  ELSE "DEGRADED"

FromDegraded(in) ==
  IF ~SourceUsable(in) THEN DualLossTarget(in)
  ELSE IF in.MainBusCritical \/ in.ReturnEnergyInsufficient THEN "CRITICAL"
  ELSE IF StableSupply(in) THEN "RECOVERY_PENDING"
  ELSE "DEGRADED"

FromCritical(in) ==
  IF ~SourceUsable(in) /\ ~in.EssentialPowerAvailable THEN "LOCKOUT"
  ELSE IF FullRecovery(in) THEN "RECOVERY_PENDING"
  ELSE "CRITICAL"

(* Defect MUT-WEAKEN-RECOVERY: the return guard reduced to the reset.      *)
WeakenedRecovery(in) ==
  IF ~SourceUsable(in) THEN DualLossTarget(in)
  ELSE IF in.MainBusCritical THEN "CRITICAL"
  ELSE IF PowerAnomaly(in) THEN "DEGRADED"
  ELSE IF in.ResetAuthorized THEN "NORMAL"
  ELSE "RECOVERY_PENDING"

FromRecoveryPending(in) ==
  IF ~SourceUsable(in) THEN DualLossTarget(in)
  ELSE IF in.MainBusCritical THEN "CRITICAL"
  ELSE IF PowerAnomaly(in) THEN "DEGRADED"
  ELSE IF /\ in.ResetAuthorized
          /\ in.RecoveryStable
          /\ ~in.ReturnEnergyInsufficient
          /\ in.EssentialPowerAvailable
  THEN "NORMAL"
  ELSE "RECOVERY_PENDING"

(* Defect: the LOCKOUT arm left empty, as an unhandled state.              *)
LockoutNotHandled(in) == "LOCKOUT"

FromLockout(in) ==
  IF in.ResetAuthorized /\ FullRecovery(in) THEN "NORMAL" ELSE "LOCKOUT"

NextState(in, state) ==
  CASE state = "INITIALIZING"        -> FromInitializing(in)
    [] state = "NORMAL"              -> FromNormal(in)
    [] state = "ENERGY_CONSERVATION" -> FromEnergyConservation(in)
    [] state = "DEGRADED"            -> FromDegraded(in)
    [] state = "CRITICAL"            -> FromCritical(in)
    [] state = "RECOVERY_PENDING"    -> FromRecoveryPending(in)
    [] state = "LOCKOUT"             -> FromLockout(in)

(* The two arms that return to NORMAL on an authorized reset also clear    *)
(* the latch; an invalid snapshot sets it and leaves the state alone.      *)
LatchAfterCase(in, st) ==
  IF ~in.InputSetValid THEN TRUE
  ELSE IF /\ st.State \in {"RECOVERY_PENDING", "LOCKOUT"}
          /\ NextState(in, st.State) = "NORMAL"
  THEN FALSE
  ELSE st.BlockingFaultLatched

TransitionStage(in, st) ==
  LET next == IF in.InputSetValid THEN NextState(in, st.State) ELSE st.State
  IN  [State |-> next,
       BlockingFaultLatched |->
         \/ LatchAfterCase(in, st)
         \/ in.ContactorMismatchPersisted
         \/ next \in {"CRITICAL", "LOCKOUT"}]

-----------------------------------------------------------------------------
(* OUTPUT_STAGE: the defaults and the CASE on the state, then the          *)
(* invalid-input override, then the payload protection.                    *)

(* Defect MUT-SWAP-ISOLATION: the expression of battery B.                 *)
SwappedIsolation(in, state) ==
  state = "DEGRADED" /\ ~in.BatteryBHealthy /\ in.BatteryAHealthy

IsolationOfA(in, state) ==
  state = "DEGRADED" /\ ~in.BatteryAHealthy /\ in.BatteryBHealthy

IsolationOfB(in, state) ==
  state = "DEGRADED" /\ ~in.BatteryBHealthy /\ in.BatteryAHealthy

(* Defect MUT-CRITICAL-OUTPUT-DELETE, in the CRITICAL arm.                 *)
LandingOnlyInLockout(state) == state = "LOCKOUT"

LandingRequested(state) == state \in {"CRITICAL", "LOCKOUT"}

StateOutputs(in, st) ==
  LET state == st.State
  IN  [PayloadPermit            |-> state = "NORMAL",
       ShedNonessentialLoads    |-> state # "NORMAL",
       IsolateBatteryA          |-> IsolationOfA(in, state),
       IsolateBatteryB          |-> IsolationOfB(in, state),
       ReturnToHomeRequest      |-> \/ state \in {"DEGRADED", "CRITICAL"}
                                    \/ /\ state = "ENERGY_CONSERVATION"
                                       /\ in.ReturnEnergyInsufficient,
       ImmediateLandingRequest  |-> LandingRequested(state),
       MissionProgressionPermit |-> state = "NORMAL",
       BlockingPowerFault       |-> \/ st.BlockingFaultLatched
                                    \/ state \in {"CRITICAL", "LOCKOUT",
                                                  "RECOVERY_PENDING"},
       SupervisorState          |-> state]

(* Defect MUT-INVALID-OUTPUT-GUARD: the override never taken.              *)
InvalidInputIgnored(in, outputs) == outputs

InvalidInputOutputs(in, outputs) ==
  IF in.InputSetValid THEN outputs
  ELSE [PayloadPermit            |-> FALSE,
        ShedNonessentialLoads    |-> TRUE,
        IsolateBatteryA          |-> FALSE,
        IsolateBatteryB          |-> FALSE,
        ReturnToHomeRequest      |-> ~in.FlightPhaseLanding,
        ImmediateLandingRequest  |-> \/ in.FlightPhaseLanding
                                     \/ ~in.EssentialPowerAvailable,
        MissionProgressionPermit |-> FALSE,
        BlockingPowerFault       |-> TRUE,
        SupervisorState          |-> outputs.SupervisorState]

(* Defect: the permit withdrawn without shedding the load.                 *)
ProtectionWithoutShedding(in, outputs) ==
  IF in.PayloadOvercurrent
  THEN [outputs EXCEPT !.PayloadPermit = FALSE] ELSE outputs

PayloadProtection(in, outputs) ==
  IF in.PayloadOvercurrent
  THEN [outputs EXCEPT !.PayloadPermit = FALSE,
                       !.ShedNonessentialLoads = TRUE]
  ELSE outputs

OutputStage(in, st) ==
  PayloadProtection(in, InvalidInputOutputs(in, StateOutputs(in, st)))

-----------------------------------------------------------------------------
(* The runtime-fault policy.                                               *)

NormalCommitInhibited == TRUE

(* Defect: a policy without retained_assignments.                          *)
FaultNotRetained(working) == working

FaultRetained(working) == [working EXCEPT !.BlockingFaultLatched = TRUE]

(* The conservative frame, with the state the cycle has reached.           *)
FaultOutputs(outputs, working) ==
  [PayloadPermit            |-> FALSE, ShedNonessentialLoads   |-> TRUE,
   IsolateBatteryA          |-> FALSE, IsolateBatteryB         |-> FALSE,
   ReturnToHomeRequest      |-> FALSE, ImmediateLandingRequest |-> FALSE,
   MissionProgressionPermit |-> FALSE, BlockingPowerFault      |-> TRUE,
   SupervisorState          |-> working.State]

LatchActive(st) == st.BlockingFaultLatched

INSTANCE AirExecutionCycle

-----------------------------------------------------------------------------
(* Properties of a recorded cycle.                                         *)

Recorded == cycle # Idle

CycleResults ==
  [kind : {"completed"}, snapshot : AllSnapshots, fault : BOOLEAN,
   resident : RetainedStates, committed : RetainedStates,
   outputs : OutputFrames, inhibited : BOOLEAN,
   diagnostics : SUBSET DiagnosticIds]

(* Retained state and results stay inside the declared types of the        *)
(* program: every enumerator a stage can produce is a declared one.        *)
TypeOK ==
  /\ retained \in RetainedStates
  /\ cycle = Idle \/ cycle \in CycleResults

(* PWR-HLR-002: mission progression and payload power are permitted only   *)
(* by a cycle that saw a usable source, on valid inputs and without a      *)
(* runtime fault, whatever state the cycle started from.                   *)
PermitsNeedUsableSource ==
  Recorded /\ (\/ cycle.outputs.MissionProgressionPermit
              \/ cycle.outputs.PayloadPermit)
  => /\ SourceUsable(cycle.snapshot)
     /\ cycle.snapshot.InputSetValid
     /\ ~cycle.fault

(* PWR-HLR-006, PWR-HLR-007: isolation never removes a healthy battery,    *)
(* never both, and is commanded only while the other battery can carry the *)
(* load.                                                                   *)
IsolationKeepsASource ==
  Recorded =>
    /\ cycle.outputs.IsolateBatteryA =>
         ~cycle.snapshot.BatteryAHealthy /\ cycle.snapshot.BatteryBHealthy
    /\ cycle.outputs.IsolateBatteryB =>
         ~cycle.snapshot.BatteryBHealthy /\ cycle.snapshot.BatteryAHealthy

(* PWR-HLR-009 and the three layers of the output stage: whatever          *)
(* overrides applied, payload power is permitted exactly when loads are    *)
(* not shed, never under overcurrent, and mission progression is never     *)
(* permitted together with a request to go home or to land.                *)
CommandsCoherent ==
  Recorded =>
    /\ cycle.outputs.PayloadPermit <=>
         ~cycle.outputs.ShedNonessentialLoads
    /\ cycle.snapshot.PayloadOvercurrent => ~cycle.outputs.PayloadPermit
    /\ cycle.outputs.MissionProgressionPermit =>
         /\ ~cycle.outputs.ReturnToHomeRequest
         /\ ~cycle.outputs.ImmediateLandingRequest

(* PWR-HLR-008: once the supervisor has left INITIALIZING, a valid         *)
(* snapshot without a usable source commits CRITICAL or LOCKOUT, by        *)
(* essential power, in the same cycle and from every state, a faulted      *)
(* cycle included; LOCKOUT is not left.                                    *)
DualLossCommitted ==
  /\ Recorded
  /\ cycle.snapshot.InputSetValid
  /\ ~SourceUsable(cycle.snapshot)
  /\ cycle.resident.State # "INITIALIZING"
  => cycle.committed.State =
       IF cycle.resident.State = "LOCKOUT" THEN "LOCKOUT"
       ELSE DualLossTarget(cycle.snapshot)

(* PWR-HLR-005: from every state but INITIALIZING, a valid and fault-free  *)
(* cycle that sees the main bus critical requests an immediate landing,    *)
(* sheds the loads and commits CRITICAL or LOCKOUT.                        *)
CriticalBusLands ==
  /\ Recorded
  /\ cycle.snapshot.InputSetValid
  /\ cycle.snapshot.MainBusCritical
  /\ ~cycle.fault
  /\ cycle.resident.State # "INITIALIZING"
  => /\ cycle.outputs.ImmediateLandingRequest
     /\ cycle.outputs.ShedNonessentialLoads
     /\ cycle.committed.State \in {"CRITICAL", "LOCKOUT"}

(* PWR-HLR-010, PWR-HLR-015: after any cycle CRITICAL and LOCKOUT are      *)
(* latched, and the published blocking fault and state are those that the  *)
(* next cycle will find retained, RECOVERY_PENDING counting as blocked.    *)
BlockingFaultPublished ==
  Recorded =>
    /\ cycle.committed.State \in {"CRITICAL", "LOCKOUT"} =>
         cycle.committed.BlockingFaultLatched
    /\ cycle.outputs.SupervisorState = cycle.committed.State
    /\ cycle.outputs.BlockingPowerFault <=>
         (\/ cycle.committed.BlockingFaultLatched
          \/ cycle.committed.State = "RECOVERY_PENDING")

-----------------------------------------------------------------------------
(* Refinement of the recovery contract.                                    *)

(* The role of each state; ENERGY_CONSERVATION is left without a reset by  *)
(* design, so it counts as operational.                                    *)
ModeOf(state) ==
  CASE state = "INITIALIZING"                       -> "starting"
    [] state \in {"NORMAL", "ENERGY_CONSERVATION"} -> "operational"
    [] state \in {"DEGRADED", "CRITICAL"}          -> "restricted"
    [] state = "RECOVERY_PENDING"                   -> "pending"
    [] state = "LOCKOUT"                            -> "locked"

ResetGranted(in) ==
  in.InputSetValid /\ in.ResetAuthorized /\ in.RecoveryStable

RequestOf(c) ==
  IF c = Idle THEN "none"
  ELSE IF ResetGranted(c.snapshot) THEN "granted" ELSE "denied"

Contract == INSTANCE RecoveryContract WITH
  Released <- {"operational"},
  mode     <- ModeOf(retained.State),
  latched  <- retained.BlockingFaultLatched,
  request  <- RequestOf(cycle)

(* PWR-HLR-010 to 012: every cycle, faulted or not, is a step that the     *)
(* recovery contract allows, and the latch is cleared only by an           *)
(* authorized, stable return out of RECOVERY_PENDING or LOCKOUT.           *)
ImplementsContract == Contract!CSpec

-----------------------------------------------------------------------------
(* Liveness.                                                               *)

Healthy(in) ==
  /\ in.InputSetValid /\ in.InitializationComplete
  /\ in.BatteryAHealthy /\ in.BatteryBHealthy
  /\ ~in.ReserveEnergyLow
  /\ FullRecovery(in) /\ in.ResetAuthorized

(* If from some cycle on a scenario goes on with healthy, stable and       *)
(* authorized snapshots and no fault is injected, the supervisor reaches   *)
(* NORMAL and stays: no state, LOCKOUT and a latched one included, is a trap.*)
RecoversWhenHealthy ==
  /\ <>[](Recorded => Healthy(cycle.snapshot) /\ ~cycle.fault)
  /\ <>[][~StartScenario]_vars
  => <>[](retained.State = "NORMAL")
=============================================================================
