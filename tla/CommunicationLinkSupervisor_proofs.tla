------------------ MODULE CommunicationLinkSupervisor_proofs ------------------
(***************************************************************************)
(* Proofs about CommunicationLinkSupervisor, for every set of snapshots    *)
(* and of scenario states: type correctness, the safety invariants of a    *)
(* recorded cycle, and the refinement of the recovery contract.            *)
(***************************************************************************)
EXTENDS CommunicationLinkSupervisor, TLAPS

(* The transition stage produces declared enumerators only.                *)
LEMMA NextStateType ==
  ASSUME NEW in \in AllSnapshots, NEW state \in States
  PROVE  NextState(in, state) \in States
BY DEF NextState, States, FromInitializing, FromNominal, FromDegraded,
       FromLostLink, FromRecoveryPending, FromLockout

(* The working state has the declared types of VAR_STATE.                  *)
LEMMA TransitionStageType ==
  ASSUME NEW in \in AllSnapshots, NEW st \in RetainedStates
  PROVE  TransitionStage(in, st) \in RetainedStates
<1>1. st.State \in States /\ st.LinkFaultLatched \in BOOLEAN
  BY DEF RetainedStates
<1>2. LatchAfterCase(in, st) \in BOOLEAN
  BY <1>1 DEF LatchAfterCase
<1>3. NextState(in, st.State) \in States
  BY <1>1, NextStateType
<1> QED
  BY <1>1, <1>2, <1>3 DEF TransitionStage, RetainedStates, AllSnapshots

(* Every output has a value of its declared type.                          *)
LEMMA OutputStageType ==
  ASSUME NEW in \in AllSnapshots, NEW st \in RetainedStates
  PROVE  OutputStage(in, st) \in OutputFrames
BY DEF OutputStage, StateOutputs, PrimarySelected, SecondarySelected,
       ConservativeFrame, OutputFrames,
       AllSnapshots, RetainedStates, States, LinkAvailable

(* A whole cycle, faulted or not, produces a typed result.                 *)
LEMMA CycleResultType ==
  ASSUME NEW st \in RetainedStates, NEW in \in AllSnapshots,
         NEW fault \in BOOLEAN
  PROVE  CycleResult(st, in, fault) \in CycleResults
BY TransitionStageType, OutputStageType
   DEF CycleResult, CycleResults, FaultRetained, FaultOutputs,
       ConservativeFrame, RetainedStates, OutputFrames,
       NormalCommitInhibited, Diagnostics

(* TypeOK is an invariant, for every set of snapshots and scenario states. *)
THEOREM TypeCorrect == Spec => []TypeOK
<1>1. Init => TypeOK
  BY DEF Init, TypeOK, InitialState, RetainedStates, States
<1>2. TypeOK /\ [Next]_vars => TypeOK'
  <2> SUFFICES ASSUME TypeOK, [Next]_vars PROVE TypeOK'
    OBVIOUS
  <2>1. CASE StartScenario
    BY <2>1, ScenarioStatesAssumption DEF StartScenario, TypeOK
  <2>2. CASE ExecuteCycle
    BY <2>2, CycleResultType, SnapshotsAssumption DEF ExecuteCycle, TypeOK
  <2>3. CASE CommitCycle
    BY <2>3 DEF CommitCycle, TypeOK, CycleResults
  <2>4. CASE UNCHANGED vars
    BY <2>4 DEF vars, TypeOK
  <2> QED
    BY <2>1, <2>2, <2>3, <2>4 DEF Next
<1> QED
  BY <1>1, <1>2, PTL DEF Spec

-----------------------------------------------------------------------------
(* The inductive invariant: between its execution and its commit, the      *)
(* recorded result is the cycle function of the state still retained.      *)
(* Everything said of a recorded cycle follows from it without any         *)
(* reference to earlier steps.                                             *)
IInv ==
  /\ TypeOK
  /\ Recorded => cycle = CycleResult(retained, cycle.snapshot, cycle.fault)

(* IInv holds in every reachable state, for every set of snapshots and of  *)
(* scenario states.                                                        *)
THEOREM ResultIsCycleOfRetained == Spec => []IInv
<1>1. Init => IInv
  BY DEF Init, IInv, TypeOK, Recorded, InitialState, RetainedStates, States
<1>2. IInv /\ TypeOK' /\ [Next]_vars => IInv'
  <2> SUFFICES ASSUME IInv, TypeOK', [Next]_vars PROVE IInv'
    OBVIOUS
  <2>1. CASE StartScenario
    BY <2>1 DEF StartScenario, IInv, Recorded
  <2>2. CASE ExecuteCycle
    <3>1. PICK in \in Snapshots, fault \in BOOLEAN :
            cycle' = CycleResult(retained, in, fault)
      BY <2>2 DEF ExecuteCycle
    <3>2. cycle'.snapshot = in /\ cycle'.fault = fault
      BY <3>1 DEF CycleResult
    <3> QED
      BY <2>2, <3>1, <3>2 DEF ExecuteCycle, IInv
  <2>3. CASE CommitCycle
    BY <2>3 DEF CommitCycle, IInv, Recorded
  <2>4. CASE UNCHANGED vars
    BY <2>4 DEF vars, IInv, Recorded
  <2> QED
    BY <2>1, <2>2, <2>3, <2>4 DEF Next
<1> QED
  BY <1>1, <1>2, TypeCorrect, PTL DEF Spec

(* What IInv says of a recorded cycle, in the form the proofs below use.   *)
LEMMA RecordedCycle ==
  ASSUME IInv, Recorded
  PROVE  /\ retained \in RetainedStates
         /\ cycle.snapshot \in AllSnapshots
         /\ cycle.fault \in BOOLEAN
         /\ cycle = CycleResult(retained, cycle.snapshot, cycle.fault)
         /\ cycle.resident = retained
         /\ cycle.committed =
              IF cycle.fault
              THEN FaultRetained(TransitionStage(cycle.snapshot, retained))
              ELSE TransitionStage(cycle.snapshot, retained)
         /\ cycle.outputs =
              IF cycle.fault
              THEN FaultOutputs(OutputStage(cycle.snapshot,
                                  TransitionStage(cycle.snapshot, retained)),
                                cycle.committed)
              ELSE OutputStage(cycle.snapshot, cycle.committed)
<1>1. cycle \in CycleResults
  BY DEF IInv, TypeOK, Recorded
<1>2. cycle = CycleResult(retained, cycle.snapshot, cycle.fault)
  BY DEF IInv
<1>3. /\ retained \in RetainedStates
      /\ cycle.snapshot \in AllSnapshots
      /\ cycle.fault \in BOOLEAN
  BY <1>1 DEF IInv, TypeOK, CycleResults
<1> DEFINE in == cycle.snapshot
           fault == cycle.fault
<1>4. CycleResult(retained, in, fault).resident = retained
  BY DEF CycleResult
<1>5. CycleResult(retained, in, fault).committed =
        IF fault THEN FaultRetained(TransitionStage(in, retained))
        ELSE TransitionStage(in, retained)
  BY DEF CycleResult
<1>6. CycleResult(retained, in, fault).outputs =
        IF fault THEN FaultOutputs(OutputStage(in,
                                     TransitionStage(in, retained)),
                                   CycleResult(retained, in, fault).committed)
        ELSE OutputStage(in, CycleResult(retained, in, fault).committed)
  BY <1>5 DEF CycleResult
<1> HIDE DEF in, fault
<1> QED
  BY <1>2, <1>3, <1>4, <1>5, <1>6 DEF in, fault

-----------------------------------------------------------------------------
(* What the stages do, in the form the safety theorems need.               *)

(* A valid snapshot leads to NOMINAL only over an authenticated link.      *)
LEMMA NominalNeedsLink ==
  ASSUME NEW in \in AllSnapshots, NEW state \in States,
         NextState(in, state) = "NOMINAL"
  PROVE  in.CommandChannelAuthenticated /\ LinkAvailable(in)
BY DEF NextState, States, FromInitializing, FromNominal, FromDegraded,
       FromLostLink, FromRecoveryPending, FromLockout, LinkLost,
       LinkAvailable, LinkAnomaly

(* The outputs as functions of the snapshot and the committed state.       *)
LEMMA OutputsOfStage ==
  ASSUME NEW in \in AllSnapshots, NEW st \in RetainedStates,
         NEW o, o = OutputStage(in, st)
  PROVE  /\ o.CommandPermit =>
              /\ in.InputSetValid
              /\ \/ st.State = "NOMINAL"
                 \/ in.CommandChannelAuthenticated /\ LinkAvailable(in)
              /\ o.UsePrimaryLink \/ o.UseSecondaryLink
         /\ ~(o.UsePrimaryLink /\ o.UseSecondaryLink)
         /\ o.MissionProgressionPermit =>
              /\ o.CommandPermit
              /\ ~o.LostLinkProcedureRequest
              /\ ~o.ReturnToHomeRequest
         /\ st.State \in {"LOST_LINK", "LOCKOUT"} =>
              o.LostLinkProcedureRequest
         /\ o.SupervisorState = st.State
         /\ o.BlockingLinkFault <=>
              (\/ ~in.InputSetValid
               \/ st.LinkFaultLatched
               \/ st.State \in {"LOST_LINK", "LOCKOUT", "RECOVERY_PENDING"})
BY DEF OutputStage, StateOutputs, PrimarySelected, SecondarySelected,
       ConservativeFrame, LinkAvailable,
       AllSnapshots, RetainedStates, States

-----------------------------------------------------------------------------
(* The safety theorems.                                                    *)

(* CommandsNeedAuthenticatedLink for every set of snapshots: LINK-HLR-006. *)
THEOREM CommandsSafe == Spec => []CommandsNeedAuthenticatedLink
<1>1. IInv => CommandsNeedAuthenticatedLink
  <2> SUFFICES ASSUME IInv, Recorded, cycle.outputs.CommandPermit
               PROVE  /\ cycle.snapshot.CommandChannelAuthenticated
                      /\ LinkAvailable(cycle.snapshot)
                      /\ cycle.snapshot.InputSetValid
                      /\ ~cycle.fault
    BY DEF CommandsNeedAuthenticatedLink
  <2> DEFINE in == cycle.snapshot
             st == TransitionStage(in, retained)
  <2>1. in \in AllSnapshots /\ st \in RetainedStates
    BY RecordedCycle, TransitionStageType
  <2>2. ~cycle.fault
    BY RecordedCycle DEF FaultOutputs, ConservativeFrame
  <2>3. cycle.outputs = OutputStage(in, st)
    BY <2>2, RecordedCycle
  <2>4. /\ in.InputSetValid
        /\ \/ st.State = "NOMINAL"
           \/ in.CommandChannelAuthenticated /\ LinkAvailable(in)
    BY <2>1, <2>3, OutputsOfStage
  <2>5. st.State = "NOMINAL" => NextState(in, retained.State) = "NOMINAL"
    BY <2>4 DEF TransitionStage
  <2>6. retained.State \in States
    BY RecordedCycle DEF RetainedStates
  <2> QED
    BY <2>1, <2>2, <2>4, <2>5, <2>6, NominalNeedsLink
<1> QED
  BY <1>1, ResultIsCycleOfRetained, PTL

(* SelectionCoherent for every set of snapshots: LINK-HLR-002, 007.        *)
THEOREM SelectionSafe == Spec => []SelectionCoherent
<1>1. IInv => SelectionCoherent
  <2> SUFFICES ASSUME IInv, Recorded PROVE SelectionCoherent
    BY DEF SelectionCoherent
  <2>1. CASE cycle.fault
    BY <2>1, RecordedCycle
       DEF FaultOutputs, ConservativeFrame, SelectionCoherent
  <2>2. CASE ~cycle.fault
    BY <2>2, RecordedCycle, TransitionStageType, OutputsOfStage
       DEF SelectionCoherent
  <2> QED
    BY <2>1, <2>2
<1> QED
  BY <1>1, ResultIsCycleOfRetained, PTL

(* LostLinkLatchedAndPublished for every set of snapshots: LINK-HLR-007,   *)
(* LINK-HLR-014.                                                           *)
THEOREM LostLinkSafe == Spec => []LostLinkLatchedAndPublished
<1>1. IInv => LostLinkLatchedAndPublished
  <2> SUFFICES ASSUME IInv, Recorded PROVE LostLinkLatchedAndPublished
    BY DEF LostLinkLatchedAndPublished
  <2> DEFINE in == cycle.snapshot
             st == TransitionStage(in, retained)
  <2>1. in \in AllSnapshots /\ st \in RetainedStates
    BY RecordedCycle, TransitionStageType
  <2>2. /\ st.State \in {"LOST_LINK", "LOCKOUT"} => st.LinkFaultLatched
        /\ ~in.InputSetValid => st.LinkFaultLatched
    BY DEF TransitionStage, LatchAfterCase
  <2>3. CASE cycle.fault
    <3>1. /\ cycle.committed.State = st.State
          /\ cycle.committed.LinkFaultLatched = TRUE
      BY <2>1, <2>3, RecordedCycle DEF FaultRetained, RetainedStates
    <3> QED
      BY <2>3, <3>1, RecordedCycle
         DEF FaultOutputs, ConservativeFrame, LostLinkLatchedAndPublished
  <2>4. CASE ~cycle.fault
    <3>1. cycle.committed = st /\ cycle.outputs = OutputStage(in, st)
      BY <2>4, RecordedCycle
    <3> QED
      BY <2>1, <2>2, <3>1, OutputsOfStage DEF LostLinkLatchedAndPublished
  <2> QED
    BY <2>3, <2>4
<1> QED
  BY <1>1, ResultIsCycleOfRetained, PTL

-----------------------------------------------------------------------------
(* The refinement of the recovery contract.                                *)

(* The role of each state, arm by arm.                                     *)
LEMMA ModeOfState ==
  ASSUME NEW state \in States
  PROVE  /\ ModeOf(state) \in Contract!Modes
         /\ state = "INITIALIZING" => ModeOf(state) = "starting"
         /\ state \in {"NOMINAL"} =>
              ModeOf(state) = "operational"
         /\ state \in {"DEGRADED", "LOST_LINK"} =>
              ModeOf(state) = "restricted"
         /\ state = "RECOVERY_PENDING" => ModeOf(state) = "pending"
         /\ state = "LOCKOUT" => ModeOf(state) = "locked"
BY DEF ModeOf, States, Contract!Modes

(* The successors of each state, and the grant that leaving LOCKOUT or     *)
(* returning to NOMINAL needs.                                             *)
LEMMA Successors ==
  ASSUME NEW in \in AllSnapshots, NEW state \in States,
         NEW next, next = NextState(in, state)
  PROVE  /\ state = "INITIALIZING" =>
              next \in {"INITIALIZING", "NOMINAL", "LOCKOUT"}
         /\ state = "NOMINAL" =>
              next \in {"NOMINAL", "DEGRADED", "LOST_LINK"}
         /\ state \in {"DEGRADED", "LOST_LINK"} =>
              next \in {"DEGRADED", "LOST_LINK", "RECOVERY_PENDING"}
         /\ state = "RECOVERY_PENDING" =>
              \/ next \in {"RECOVERY_PENDING", "DEGRADED", "LOST_LINK"}
              \/ next = "NOMINAL" /\ in.ResetAuthorized /\ in.RecoveryStable
         /\ state = "LOCKOUT" =>
              \/ next = "LOCKOUT"
              \/ /\ next = "RECOVERY_PENDING"
                 /\ in.ResetAuthorized /\ in.RecoveryStable
BY DEF NextState, States, FromInitializing, FromNominal, FromDegraded,
       FromLostLink, FromRecoveryPending, FromLockout, StableLink

(* In terms of the contract: a valid snapshot makes a move it allows.      *)
LEMMA ContractMove ==
  ASSUME NEW in \in AllSnapshots, in.InputSetValid, NEW state \in States,
         NEW next \in States, next = NextState(in, state)
  PROVE  \/ ModeOf(next) = ModeOf(state)
         \/ Contract!FreeMove(ModeOf(state), ModeOf(next))
         \/ /\ ResetGranted(in)
            /\ Contract!GrantedMove(ModeOf(state), ModeOf(next))
<1>1. CASE state = "INITIALIZING"
  <2>1. next \in {"INITIALIZING", "NOMINAL", "LOCKOUT"}
    BY <1>1, Successors
  <2> QED
    BY <1>1, <2>1, ModeOfState DEF Contract!FreeMove
<1>2. CASE state = "NOMINAL"
  <2>1. next \in {"NOMINAL", "DEGRADED", "LOST_LINK"}
    BY <1>2, Successors
  <2> QED
    BY <1>2, <2>1, ModeOfState DEF Contract!FreeMove
<1>3. CASE state \in {"DEGRADED", "LOST_LINK"}
  <2>1. next \in {"DEGRADED", "LOST_LINK", "RECOVERY_PENDING"}
    BY <1>3, Successors
  <2>2. ModeOf(state) = "restricted"
    BY <1>3, ModeOfState
  <2>3. ModeOf(next) \in {"restricted", "pending"}
    BY <2>1, ModeOfState
  <2> QED
    BY <2>2, <2>3 DEF Contract!FreeMove
<1>4. CASE state = "RECOVERY_PENDING"
  <2>1. ModeOf(state) = "pending"
    BY <1>4, ModeOfState
  <2>2. \/ ModeOf(next) \in {"pending", "restricted"}
        \/ /\ ModeOf(next) = "operational"
           /\ in.ResetAuthorized /\ in.RecoveryStable
    BY <1>4, Successors, ModeOfState
  <2> QED
    BY <2>1, <2>2 DEF Contract!FreeMove, Contract!GrantedMove, ResetGranted
<1>5. CASE state = "LOCKOUT"
  <2>1. \/ next = state
        \/ /\ next = "RECOVERY_PENDING"
           /\ in.ResetAuthorized /\ in.RecoveryStable
    BY <1>5, Successors
  <2> QED
    BY <1>5, <2>1, ModeOfState DEF Contract!GrantedMove, ResetGranted
<1> QED
  BY <1>1, <1>2, <1>3, <1>4, <1>5 DEF States

(* ImplementsContract for every set of snapshots and scenario states.      *)
THEOREM RecoveryContractHolds == Spec => ImplementsContract
<1> DEFINE Mode == ModeOf(retained.State)
           Request == RequestOf(cycle)
<1>1. Init => Contract!CInit
  BY DEF Init, InitialState, ModeOf, RequestOf, Contract!CInit
<1>2. IInv /\ TypeOK' /\ [Next]_vars => [Contract!CNext]_(Contract!cvars)
  <2> SUFFICES ASSUME IInv, TypeOK', [Next]_vars
               PROVE  [Contract!CNext]_(Contract!cvars)
    OBVIOUS
  <2>1. CASE StartScenario
    <3>1. cycle = Idle /\ cycle' = Idle /\ retained' \in RetainedStates
      BY <2>1, ScenarioStatesAssumption DEF StartScenario
    <3>2. RequestOf(cycle) = "none" /\ RequestOf(cycle') = "none"
      BY <3>1 DEF RequestOf
    <3>3. ModeOf(retained'.State) \in Contract!Modes
      BY <3>1, ModeOfState DEF RetainedStates
    <3> QED
      BY <3>1, <3>2, <3>3 DEF Contract!CNext, Contract!Restart, RetainedStates
  <2>2. CASE ExecuteCycle
    <3>1. cycle = Idle /\ retained' = retained
      BY <2>2 DEF ExecuteCycle
    <3>2. PICK in \in Snapshots, fault \in BOOLEAN :
            cycle' = CycleResult(retained, in, fault)
      BY <2>2 DEF ExecuteCycle
    <3>3. cycle'.kind = "completed"
      BY <3>2 DEF CycleResult
    <3>4. RequestOf(cycle) = "none" /\ RequestOf(cycle') \in {"denied", "granted"}
      BY <3>1, <3>3 DEF RequestOf, Idle
    <3> QED
      BY <3>1, <3>4 DEF Contract!CNext, Contract!Acquire
  <2>3. CASE CommitCycle
    <3> DEFINE in == cycle.snapshot
               st == TransitionStage(in, retained)
    <3>1. Recorded /\ retained' = cycle.committed /\ cycle' = Idle
      BY <2>3 DEF CommitCycle, Recorded
    <3>2. /\ in \in AllSnapshots /\ retained \in RetainedStates
          /\ st \in RetainedStates
          /\ retained.State \in States
          /\ retained.LinkFaultLatched \in BOOLEAN
          /\ cycle.committed = IF cycle.fault THEN FaultRetained(st) ELSE st
      BY <3>1, RecordedCycle, TransitionStageType DEF RetainedStates
    <3>3. /\ retained'.State = st.State
          /\ retained'.State \in States
          /\ retained'.LinkFaultLatched \in BOOLEAN
          /\ st.LinkFaultLatched => retained'.LinkFaultLatched
      BY <3>1, <3>2 DEF FaultRetained, RetainedStates
    <3>4. /\ RequestOf(cycle) =
               IF ResetGranted(in) THEN "granted" ELSE "denied"
          /\ RequestOf(cycle') = "none"
      BY <3>1 DEF RequestOf, Recorded
    <3>5. st.State = IF in.InputSetValid THEN NextState(in, retained.State)
                     ELSE retained.State
      BY DEF TransitionStage
    <3>6. /\ st.State = "LOCKOUT" => st.LinkFaultLatched
          /\ retained.LinkFaultLatched /\ ~st.LinkFaultLatched =>
               /\ in.InputSetValid
               /\ retained.State = "RECOVERY_PENDING"
               /\ NextState(in, retained.State) = "NOMINAL"
      BY <3>2 DEF TransitionStage, LatchAfterCase, AllSnapshots
    <3> HIDE DEF in, st
    <3>7. /\ Contract!MoveAllowed
          /\ ModeOf(retained'.State) \in Contract!Modes
      <4>1. CASE ~in.InputSetValid
        BY <4>1, <3>2, <3>3, <3>5, ModeOfState DEF Contract!MoveAllowed
      <4>2. CASE in.InputSetValid
        <5>1. retained'.State = NextState(in, retained.State)
          BY <4>2, <3>3, <3>5
        <5>2. ModeOf(retained'.State) \in Contract!Modes
          BY <3>3, ModeOfState
        <5>3. \/ ModeOf(retained'.State) = ModeOf(retained.State)
              \/ Contract!FreeMove(ModeOf(retained.State),
                                   ModeOf(retained'.State))
              \/ /\ ResetGranted(in)
                 /\ Contract!GrantedMove(ModeOf(retained.State),
                                         ModeOf(retained'.State))
          BY <4>2, <5>1, <3>2, <3>3, ContractMove
        <5> QED
          BY <5>2, <5>3, <3>4 DEF Contract!MoveAllowed
      <4> QED
        BY <4>1, <4>2
    <3>8. Contract!LatchAllowed
      <4>1. ModeOf(retained'.State) = "locked" =>
              retained'.LinkFaultLatched
        BY <3>3, <3>6, ModeOfState DEF States
      <4>2. ASSUME retained.LinkFaultLatched,
                   ~retained'.LinkFaultLatched
            PROVE  /\ RequestOf(cycle) = "granted"
                   /\ ModeOf(retained.State) \in {"pending", "locked"}
                   /\ ModeOf(retained'.State) = "operational"
        <5>1. /\ in.InputSetValid
              /\ retained.State = "RECOVERY_PENDING"
              /\ retained'.State = "NOMINAL"
              /\ NextState(in, retained.State) = "NOMINAL"
          BY <4>2, <3>3, <3>5, <3>6
        <5>2. in.ResetAuthorized /\ in.RecoveryStable
          BY <5>1, <3>2, Successors
        <5> QED
          BY <5>1, <5>2, <3>2, <3>3, <3>4, ModeOfState DEF ResetGranted
      <4> QED
        BY <4>1, <4>2, <3>3 DEF Contract!LatchAllowed
    <3>9. RequestOf(cycle) # "none"
      BY <3>4
    <3> QED
      BY <3>4, <3>7, <3>8, <3>9 DEF Contract!CNext, Contract!Settle
  <2>4. CASE UNCHANGED vars
    BY <2>4 DEF vars, Contract!cvars
  <2> QED
    BY <2>1, <2>2, <2>3, <2>4 DEF Next
<1> QED
  BY <1>1, <1>2, TypeCorrect, ResultIsCycleOfRetained, PTL
     DEF Spec, ImplementsContract, Contract!CSpec
=============================================================================
