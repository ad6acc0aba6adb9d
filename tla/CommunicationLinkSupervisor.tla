--------------------- MODULE CommunicationLinkSupervisor ---------------------
(***************************************************************************)
(* The communication-link supervisor, the program of src/examples/         *)
(* communication-link-supervisor/source/communication-link-supervisor.ascp *)
(* with the runtime-fault policy beside it, run by the cycle of            *)
(* AirExecutionCycle.                                                      *)
(***************************************************************************)

States == {"INITIALIZING", "NOMINAL", "DEGRADED", "LOST_LINK",
           "RECOVERY_PENDING", "LOCKOUT"}

RetainedStates == [State : States, LinkFaultLatched : BOOLEAN]

AllSnapshots ==
  [InputSetValid         : BOOLEAN, InitializationComplete      : BOOLEAN,
   PrimaryLinkAvailable  : BOOLEAN, SecondaryLinkAvailable      : BOOLEAN,
   LinkQualityDegraded   : BOOLEAN, LinkLossPersisted           : BOOLEAN,
   RecoveryStable        : BOOLEAN, ResetAuthorized             : BOOLEAN,
   CommandChannelAuthenticated : BOOLEAN]

OutputFrames ==
  [CommandPermit            : BOOLEAN, UsePrimaryLink           : BOOLEAN,
   UseSecondaryLink         : BOOLEAN, DegradedLinkIndication   : BOOLEAN,
   LostLinkProcedureRequest : BOOLEAN, ReturnToHomeRequest      : BOOLEAN,
   MissionProgressionPermit : BOOLEAN, BlockingLinkFault        : BOOLEAN,
   SupervisorState          : States]

CONSTANTS Snapshots, ScenarioStates

ASSUME SnapshotsAssumption == Snapshots \subseteq AllSnapshots
ASSUME ScenarioStatesAssumption == ScenarioStates \subseteq RetainedStates

VARIABLES retained, cycle

InitialState == [State |-> "INITIALIZING", LinkFaultLatched |-> FALSE]

-----------------------------------------------------------------------------
(* TRANSITION_STAGE.                                                       *)

LinkAvailable(in) == in.PrimaryLinkAvailable \/ in.SecondaryLinkAvailable

LinkLost(in) == in.LinkLossPersisted \/ ~LinkAvailable(in)

LinkAnomaly(in) ==
  \/ in.LinkQualityDegraded
  \/ ~in.PrimaryLinkAvailable
  \/ ~in.SecondaryLinkAvailable
  \/ ~in.CommandChannelAuthenticated

StableLink(in) ==
  /\ in.RecoveryStable
  /\ LinkAvailable(in)
  /\ in.CommandChannelAuthenticated

FromInitializing(in) ==
  IF /\ in.InitializationComplete
     /\ in.CommandChannelAuthenticated
     /\ LinkAvailable(in)
  THEN "NOMINAL"
  ELSE IF in.InitializationComplete THEN "LOCKOUT"
  ELSE "INITIALIZING"

FromNominal(in) ==
  IF LinkLost(in) THEN "LOST_LINK"
  ELSE IF LinkAnomaly(in) THEN "DEGRADED"
  ELSE "NOMINAL"

(* Full redundancy and quality, not mere stability, leave DEGRADED.        *)
FromDegraded(in) ==
  IF LinkLost(in) THEN "LOST_LINK"
  ELSE IF in.RecoveryStable /\ ~LinkAnomaly(in) THEN "RECOVERY_PENDING"
  ELSE "DEGRADED"

FromLostLink(in) ==
  IF StableLink(in) THEN "RECOVERY_PENDING" ELSE "LOST_LINK"

(* Defect MUT-WEAKEN-LINK-RECOVERY: the reset alone returns to NOMINAL.    *)
WeakenedRecovery(in) ==
  IF LinkLost(in) THEN "LOST_LINK"
  ELSE IF LinkAnomaly(in) THEN "DEGRADED"
  ELSE IF in.ResetAuthorized THEN "NOMINAL"
  ELSE "RECOVERY_PENDING"

FromRecoveryPending(in) ==
  IF LinkLost(in) THEN "LOST_LINK"
  ELSE IF LinkAnomaly(in) THEN "DEGRADED"
  ELSE IF in.ResetAuthorized /\ in.RecoveryStable THEN "NOMINAL"
  ELSE "RECOVERY_PENDING"

(* Defect: the LOCKOUT arm left empty, as an unhandled state.              *)
LockoutNotHandled(in) == "LOCKOUT"

FromLockout(in) ==
  IF in.ResetAuthorized /\ StableLink(in) THEN "RECOVERY_PENDING"
  ELSE "LOCKOUT"

NextState(in, state) ==
  CASE state = "INITIALIZING"     -> FromInitializing(in)
    [] state = "NOMINAL"          -> FromNominal(in)
    [] state = "DEGRADED"         -> FromDegraded(in)
    [] state = "LOST_LINK"        -> FromLostLink(in)
    [] state = "RECOVERY_PENDING" -> FromRecoveryPending(in)
    [] state = "LOCKOUT"          -> FromLockout(in)

(* Only the reset out of RECOVERY_PENDING clears the latch; an invalid     *)
(* snapshot sets it.                                                       *)
LatchAfterCase(in, st) ==
  IF ~in.InputSetValid THEN TRUE
  ELSE IF /\ st.State = "RECOVERY_PENDING"
          /\ NextState(in, st.State) = "NOMINAL"
  THEN FALSE
  ELSE st.LinkFaultLatched

(* Defect: a loss of link that is not latched.                             *)
LockoutOnlyLatched(in, st) ==
  LET next == IF in.InputSetValid THEN NextState(in, st.State) ELSE st.State
  IN  [State |-> next,
       LinkFaultLatched |-> LatchAfterCase(in, st) \/ next = "LOCKOUT"]

TransitionStage(in, st) ==
  LET next == IF in.InputSetValid THEN NextState(in, st.State) ELSE st.State
  IN  [State |-> next,
       LinkFaultLatched |->
         LatchAfterCase(in, st) \/ next \in {"LOST_LINK", "LOCKOUT"}]

-----------------------------------------------------------------------------
(* OUTPUT_STAGE.                                                           *)

(* Defect MUT-SWAP-LINK-SELECTION, in the primary selection.               *)
SwappedSelection(in, state) ==
  \/ state = "NOMINAL"
  \/ /\ state = "DEGRADED"
     /\ ~in.PrimaryLinkAvailable
     /\ in.SecondaryLinkAvailable

PrimarySelected(in, state) ==
  \/ state = "NOMINAL"
  \/ state = "DEGRADED" /\ in.PrimaryLinkAvailable

SecondarySelected(in, state) ==
  /\ state = "DEGRADED"
  /\ ~in.PrimaryLinkAvailable
  /\ in.SecondaryLinkAvailable

StateOutputs(in, st) ==
  LET state == st.State
  IN  [CommandPermit |->
         \/ state = "NOMINAL"
         \/ /\ state = "DEGRADED"
            /\ in.CommandChannelAuthenticated
            /\ LinkAvailable(in),
       UsePrimaryLink           |-> PrimarySelected(in, state),
       UseSecondaryLink         |-> SecondarySelected(in, state),
       DegradedLinkIndication   |-> state # "NOMINAL",
       LostLinkProcedureRequest |-> state \in {"LOST_LINK", "LOCKOUT"},
       ReturnToHomeRequest      |-> state \in {"DEGRADED", "LOST_LINK"},
       MissionProgressionPermit |-> state = "NOMINAL",
       BlockingLinkFault        |-> \/ st.LinkFaultLatched
                                    \/ state \in {"LOST_LINK", "LOCKOUT",
                                                  "RECOVERY_PENDING"},
       SupervisorState          |-> state]

(* The frame shared by the invalid-input override and the fault policy.    *)
ConservativeFrame(state) ==
  [CommandPermit            |-> FALSE, UsePrimaryLink         |-> FALSE,
   UseSecondaryLink         |-> FALSE, DegradedLinkIndication |-> TRUE,
   LostLinkProcedureRequest |-> TRUE,  ReturnToHomeRequest    |-> TRUE,
   MissionProgressionPermit |-> FALSE, BlockingLinkFault      |-> TRUE,
   SupervisorState          |-> state]

(* Defect MUT-INVALID-OUTPUT-GUARD: the override never taken.              *)
InvalidInputIgnored(in, st) == StateOutputs(in, st)

OutputStage(in, st) ==
  IF in.InputSetValid THEN StateOutputs(in, st)
  ELSE ConservativeFrame(st.State)

-----------------------------------------------------------------------------
(* The runtime-fault policy.                                               *)

NormalCommitInhibited == TRUE

FaultRetained(working) == [working EXCEPT !.LinkFaultLatched = TRUE]

(* The conservative frame, with the state the cycle has reached.           *)
FaultOutputs(outputs, working) == ConservativeFrame(working.State)

LatchActive(st) == st.LinkFaultLatched

INSTANCE AirExecutionCycle

-----------------------------------------------------------------------------
(* Properties of a recorded cycle.                                         *)

Recorded == cycle # Idle

CycleResults ==
  [kind : {"completed"}, snapshot : AllSnapshots, fault : BOOLEAN,
   resident : RetainedStates, committed : RetainedStates,
   outputs : OutputFrames, inhibited : BOOLEAN,
   diagnostics : SUBSET DiagnosticIds]

(* Retained state and results stay inside the declared types.              *)
TypeOK ==
  /\ retained \in RetainedStates
  /\ cycle = Idle \/ cycle \in CycleResults

(* LINK-HLR-006: commands are permitted only by a cycle that saw an        *)
(* authenticated channel over an available link, whatever its state.       *)
CommandsNeedAuthenticatedLink ==
  Recorded /\ cycle.outputs.CommandPermit
  => /\ cycle.snapshot.CommandChannelAuthenticated
     /\ LinkAvailable(cycle.snapshot)
     /\ cycle.snapshot.InputSetValid
     /\ ~cycle.fault

(* LINK-HLR-002, LINK-HLR-007: at most one link is selected, one at least  *)
(* whenever commands are permitted, and the mission never progresses while *)
(* the lost-link procedure or a return home is requested.                  *)
SelectionCoherent ==
  Recorded =>
    /\ ~(cycle.outputs.UsePrimaryLink /\ cycle.outputs.UseSecondaryLink)
    /\ cycle.outputs.CommandPermit =>
         cycle.outputs.UsePrimaryLink \/ cycle.outputs.UseSecondaryLink
    /\ cycle.outputs.MissionProgressionPermit =>
         /\ cycle.outputs.CommandPermit
         /\ ~cycle.outputs.LostLinkProcedureRequest
         /\ ~cycle.outputs.ReturnToHomeRequest

(* LINK-HLR-007, LINK-HLR-014: after any cycle LOST_LINK and LOCKOUT are   *)
(* latched and request the lost-link procedure in that same cycle, and     *)
(* the published blocking fault is what the next cycle finds retained.     *)
LostLinkLatchedAndPublished ==
  Recorded =>
    /\ cycle.committed.State \in {"LOST_LINK", "LOCKOUT"} =>
         /\ cycle.committed.LinkFaultLatched
         /\ cycle.outputs.LostLinkProcedureRequest
    /\ cycle.outputs.SupervisorState = cycle.committed.State
    /\ cycle.outputs.BlockingLinkFault <=>
         (\/ cycle.committed.LinkFaultLatched
          \/ cycle.committed.State = "RECOVERY_PENDING")

-----------------------------------------------------------------------------
(* Refinement of the recovery contract.                                    *)

ModeOf(state) ==
  CASE state = "INITIALIZING"               -> "starting"
    [] state = "NOMINAL"                    -> "operational"
    [] state \in {"DEGRADED", "LOST_LINK"}  -> "restricted"
    [] state = "RECOVERY_PENDING"           -> "pending"
    [] state = "LOCKOUT"                    -> "locked"

ResetGranted(in) ==
  in.InputSetValid /\ in.ResetAuthorized /\ in.RecoveryStable

RequestOf(c) ==
  IF c = Idle THEN "none"
  ELSE IF ResetGranted(c.snapshot) THEN "granted" ELSE "denied"

Contract == INSTANCE RecoveryContract WITH
  Released <- {"pending"},
  mode     <- ModeOf(retained.State),
  latched  <- retained.LinkFaultLatched,
  request  <- RequestOf(cycle)

(* LINK-HLR-008 to 010, LINK-HLR-014: every cycle, faulted or not, is a    *)
(* step that the recovery contract allows: LOCKOUT too is left only for    *)
(* RECOVERY_PENDING, and the latch is cleared only by an authorized,       *)
(* stable return from there.                                               *)
ImplementsContract == Contract!CSpec

-----------------------------------------------------------------------------
(* Liveness.                                                               *)

Healthy(in) ==
  /\ in.InputSetValid /\ in.InitializationComplete
  /\ in.RecoveryStable /\ in.ResetAuthorized
  /\ ~LinkAnomaly(in) /\ ~in.LinkLossPersisted

(* If from some cycle on a scenario goes on with healthy, stable and       *)
(* authorized snapshots and no fault is injected, the supervisor reaches   *)
(* NOMINAL and stays: no state, LOCKOUT included, is a trap.             *)
RecoversWhenHealthy ==
  /\ <>[](Recorded => Healthy(cycle.snapshot) /\ ~cycle.fault)
  /\ <>[][~StartScenario]_vars
  => <>[](retained.State = "NOMINAL")
=============================================================================
