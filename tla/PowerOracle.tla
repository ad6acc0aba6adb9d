------------------------------ MODULE PowerOracle ------------------------------
(***************************************************************************)
(* The hand-coded oracle of the power supervisor (oracle_step in           *)
(* src/tools/aerost_tool.py), beside the program it judges.                *)
(* scenario_definitions runs the oracle over the cycles of each scenario,  *)
(* carrying the oracle's own retained state, and freezes what it computes  *)
(* as the expected result of each cycle; build_core_bundle stops when the  *)
(* reference interpreter disagrees with one of them.                       *)
(***************************************************************************)
EXTENDS PowerSupervisor

VARIABLE expected  \* the oracle's last result

ovars == <<retained, cycle, expected>>

-----------------------------------------------------------------------------
(* The oracle's chain of conditions for a state, which it stays in when    *)
(* none applies.                                                           *)

OracleChain(in, state) ==
  LET neither   == ~in.BatteryAHealthy /\ ~in.BatteryBHealthy
      either    == in.BatteryAHealthy \/ in.BatteryBHealthy
      anomaly   == \/ in.ContactorMismatchPersisted
                   \/ in.MainBusWarningPersisted
                   \/ ~in.BatteryAHealthy \/ ~in.BatteryBHealthy
      clear     == /\ ~in.ContactorMismatchPersisted
                   /\ ~in.MainBusWarningPersisted
                   /\ either /\ in.EssentialPowerAvailable
      enough    == ~in.MainBusCritical /\ ~in.ReturnEnergyInsufficient
      DualLossOr(other) ==
        IF neither /\ in.EssentialPowerAvailable THEN "CRITICAL"
        ELSE IF neither THEN "LOCKOUT"
        ELSE other
      UrgentOr(other) ==
        DualLossOr(IF in.MainBusCritical THEN "CRITICAL" ELSE other)
  IN  CASE state = "INITIALIZING" ->
             IF in.InitializationComplete /\ either
                /\ in.EssentialPowerAvailable THEN "NORMAL"
             ELSE IF in.InitializationComplete THEN "LOCKOUT" ELSE state
        [] state = "NORMAL" ->
             UrgentOr(IF in.ReturnEnergyInsufficient THEN "ENERGY_CONSERVATION"
                      ELSE IF anomaly THEN "DEGRADED"
                      ELSE IF in.ReserveEnergyLow THEN "ENERGY_CONSERVATION"
                      ELSE state)
        [] state = "ENERGY_CONSERVATION" ->
             UrgentOr(IF anomaly THEN "DEGRADED"
                      ELSE IF ~in.ReserveEnergyLow
                              /\ ~in.ReturnEnergyInsufficient
                      THEN "NORMAL" ELSE state)
        [] state = "DEGRADED" ->
             DualLossOr(IF ~enough THEN "CRITICAL"
                        ELSE IF in.RecoveryStable /\ clear
                        THEN "RECOVERY_PENDING" ELSE state)
        [] state = "CRITICAL" ->
             IF neither /\ ~in.EssentialPowerAvailable THEN "LOCKOUT"
             ELSE IF in.RecoveryStable /\ clear /\ enough
             THEN "RECOVERY_PENDING" ELSE state
        [] state = "RECOVERY_PENDING" ->
             UrgentOr(IF anomaly THEN "DEGRADED"
                      ELSE IF in.ResetAuthorized /\ in.RecoveryStable
                              /\ ~in.ReturnEnergyInsufficient
                              /\ in.EssentialPowerAvailable
                      THEN "NORMAL" ELSE state)
        [] state = "LOCKOUT" ->
             IF in.ResetAuthorized /\ in.RecoveryStable /\ clear /\ enough
             THEN "NORMAL" ELSE state

OracleState(in, state) ==
  IF in.InputSetValid THEN OracleChain(in, state) ELSE state

(* Defect: an oracle that forgets to release the latch on a reset.         *)
LatchNeverReleased(in, st, next) ==
  \/ ~in.InputSetValid
  \/ in.ContactorMismatchPersisted
  \/ next \in {"CRITICAL", "LOCKOUT"}
  \/ st.BlockingFaultLatched

OracleLatch(in, st, next) ==
  \/ ~in.InputSetValid
  \/ in.ContactorMismatchPersisted
  \/ next \in {"CRITICAL", "LOCKOUT"}
  \/ /\ st.BlockingFaultLatched
     /\ ~(st.State \in {"RECOVERY_PENDING", "LOCKOUT"} /\ next = "NORMAL")

-----------------------------------------------------------------------------
(* The oracle's outputs: the set of commands that it raises, the frame     *)
(* being their characteristic function.                                    *)

RaisedByState(in, state) ==
  CASE state = "NORMAL" -> {"PayloadPermit", "MissionProgressionPermit"}
    [] state = "ENERGY_CONSERVATION" ->
         {"ShedNonessentialLoads"} \cup
         {c \in {"ReturnToHomeRequest"} : in.ReturnEnergyInsufficient}
    [] state = "DEGRADED" ->
         {"ShedNonessentialLoads", "ReturnToHomeRequest"}
         \cup {c \in {"IsolateBatteryA"} :
                 ~in.BatteryAHealthy /\ in.BatteryBHealthy}
         \cup {c \in {"IsolateBatteryB"} :
                 ~in.BatteryBHealthy /\ in.BatteryAHealthy}
    [] state = "CRITICAL" ->
         {"ShedNonessentialLoads", "BlockingPowerFault",
          "ReturnToHomeRequest", "ImmediateLandingRequest"}
    [] state = "RECOVERY_PENDING" ->
         {"ShedNonessentialLoads", "BlockingPowerFault"}
    [] state = "LOCKOUT" ->
         {"ShedNonessentialLoads", "BlockingPowerFault",
          "ImmediateLandingRequest"}
    [] OTHER -> {"ShedNonessentialLoads"}

RaisedOnInvalid(in) ==
  {"ShedNonessentialLoads", "BlockingPowerFault"}
  \cup {c \in {"ReturnToHomeRequest"} : ~in.FlightPhaseLanding}
  \cup {c \in {"ImmediateLandingRequest"} :
          in.FlightPhaseLanding \/ ~in.EssentialPowerAvailable}

Raised(in, state, latched, fault) ==
  LET normal  == IF in.InputSetValid
                 THEN RaisedByState(in, state)
                      \cup {c \in {"BlockingPowerFault"} : latched}
                 ELSE RaisedOnInvalid(in)
      guarded == IF in.PayloadOvercurrent
                 THEN (normal \ {"PayloadPermit"})
                      \cup {"ShedNonessentialLoads"}
                 ELSE normal
  IN  IF fault THEN {"ShedNonessentialLoads", "BlockingPowerFault"}
               ELSE guarded

OutputNames ==
  {"PayloadPermit", "ShedNonessentialLoads", "IsolateBatteryA",
   "IsolateBatteryB", "ReturnToHomeRequest", "ImmediateLandingRequest",
   "MissionProgressionPermit", "BlockingPowerFault", "SupervisorState"}

OracleStep(st, in, fault) ==
  LET next    == OracleState(in, st.State)
      latched == OracleLatch(in, st, next)
      raised  == Raised(in, next, latched, fault)
  IN  [committed |-> [State |-> next,
                      BlockingFaultLatched |-> latched \/ fault],
       outputs   |-> [c \in OutputNames |->
                        IF c = "SupervisorState" THEN next ELSE c \in raised],
       inhibited |-> fault]

-----------------------------------------------------------------------------
(* The program and its oracle in lockstep.                                 *)

Unexecuted(st) == [committed |-> st, outputs |-> <<>>, inhibited |-> FALSE]

OInit == Init /\ expected = Unexecuted(InitialState)

OStartScenario == StartScenario /\ expected' = Unexecuted(retained')

OExecuteCycle ==
  /\ ExecuteCycle
  /\ expected' = OracleStep(expected.committed, cycle'.snapshot, cycle'.fault)

OCommitCycle == CommitCycle /\ expected' = Unexecuted(expected.committed)

ONext == OStartScenario \/ OExecuteCycle \/ OCommitCycle

OSpec == OInit /\ [][ONext]_ovars

(* Along every scenario the result of the program, faulted cycles included,*)
(* is the one that the oracle froze, although the oracle carries its own   *)
(* retained state from cycle to cycle: the differential gate on the oracle *)
(* (build_core_bundle) never stops the pipeline for this application.      *)
MeetsExpectation ==
  Recorded =>
    /\ cycle.committed = expected.committed
    /\ cycle.outputs = expected.outputs
    /\ cycle.inhibited = expected.inhibited
=============================================================================
