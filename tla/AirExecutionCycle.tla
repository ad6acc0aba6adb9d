--------------------------- MODULE AirExecutionCycle ---------------------------
(***************************************************************************)
(* The logical cycle of an AEROST application, as the reference            *)
(* interpreter runs it (execute_cycle_air and the scenario loop of         *)
(* run_reference_scenarios in src/tools/aerost_tool.py): a retained state  *)
(* and an immutable input snapshot go through the transition stage, the    *)
(* output stage and, when a blocking runtime fault is injected, the        *)
(* runtime-fault policy; the result is recorded and its committed state    *)
(* becomes the retained state of the next cycle.                           *)
(*                                                                         *)
(* The application is a parameter: its two stages and its fault policy are *)
(* operators, bound by PowerSupervisor and CommunicationLinkSupervisor.    *)
(***************************************************************************)

CONSTANTS
  Snapshots,              \* the input snapshots a cycle may be given
  ScenarioStates,         \* the retained states a scenario may start from
  InitialState,           \* the declared initializers of VAR_STATE
  TransitionStage(_, _),  \* (snapshot, retained state) -> working state
  OutputStage(_, _),      \* (snapshot, working state) -> outputs
  NormalCommitInhibited,  \* the policy's flag of that name
  FaultRetained(_),       \* working state after retained_assignments
  FaultOutputs(_, _),     \* (outputs, working state) after output_assignments
  LatchActive(_)          \* some latched flag has its active value

VARIABLES
  retained,  \* the state kept between cycles
  cycle      \* the CycleResult being recorded, or Idle between two cycles

vars == <<retained, cycle>>

Idle == [kind |-> "idle"]

(***************************************************************************)
(* Diagnostics are appended in a fixed order and at most once each, so the *)
(* set of identities says all that the list says.                          *)
(***************************************************************************)
DiagnosticIds == {"RUNTIME_FAULT", "STATE_TRANSITION", "FAULT_LATCHED"}

Diagnostics(resident, committed, fault) ==
  {d \in DiagnosticIds :
     \/ d = "RUNTIME_FAULT" /\ fault
     \/ d = "STATE_TRANSITION" /\ resident # committed
     \/ d = "FAULT_LATCHED" /\ LatchActive(committed)}

(***************************************************************************)
(* One whole cycle.  The stages always run, faulted or not: the policy     *)
(* overwrites what they computed, it does not undo it, so the retained     *)
(* variables that it does not name keep the working values of the faulted  *)
(* cycle.                                                                  *)
(***************************************************************************)
CycleResult(resident, snapshot, fault) ==
  LET working   == TransitionStage(snapshot, resident)
      normal    == OutputStage(snapshot, working)
      committed == IF fault THEN FaultRetained(working) ELSE working
  IN  [kind        |-> "completed",
       snapshot    |-> snapshot,
       fault       |-> fault,
       resident    |-> resident,
       committed   |-> committed,
       outputs     |-> IF fault THEN FaultOutputs(normal, committed)
                                ELSE normal,
       inhibited   |-> fault /\ NormalCommitInhibited,
       diagnostics |-> Diagnostics(resident, committed, fault)]

-----------------------------------------------------------------------------

Init ==
  /\ retained = InitialState
  /\ cycle = Idle

(* A scenario replaces the retained state by its initial_state.            *)
StartScenario ==
  /\ cycle = Idle
  /\ retained' \in ScenarioStates
  /\ UNCHANGED cycle

ExecuteCycle ==
  /\ cycle = Idle
  /\ \E snapshot \in Snapshots, fault \in BOOLEAN :
       cycle' = CycleResult(retained, snapshot, fault)
  /\ UNCHANGED retained

(* The result is appended to the trace and its state is carried over.      *)
CommitCycle ==
  /\ cycle # Idle
  /\ retained' = cycle.committed
  /\ cycle' = Idle

Next == StartScenario \/ ExecuteCycle \/ CommitCycle

Spec == Init /\ [][Next]_vars

(* Cycles are periodic: the runner never stops between two of them while   *)
(* there are cycles left.                                                  *)
Fairness == WF_vars(ExecuteCycle) /\ WF_vars(CommitCycle)

FairSpec == Spec /\ Fairness
=============================================================================
