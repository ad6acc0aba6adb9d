------------------------ MODULE PowerSupervisor_proofs ------------------------
(***************************************************************************)
(* Proofs about PowerSupervisor and PowerOracle, for every set of          *)
(* snapshots and of scenario states: type correctness, the safety          *)
(* invariants of a recorded cycle, the refinement of the recovery          *)
(* contract, and the agreement of the program with its oracle.             *)
(***************************************************************************)
EXTENDS PowerOracle, TLAPS

(* The transition stage produces declared enumerators only.                *)
LEMMA NextStateType ==
  ASSUME NEW in \in AllSnapshots, NEW state \in States
  PROVE  NextState(in, state) \in States
BY DEF NextState, States, FromInitializing, FromNormal,
       FromEnergyConservation, FromDegraded, FromCritical,
       FromRecoveryPending, FromLockout, DualLossTarget

(* The working state has the declared types of VAR_STATE.                  *)
LEMMA TransitionStageType ==
  ASSUME NEW in \in AllSnapshots, NEW st \in RetainedStates
  PROVE  TransitionStage(in, st) \in RetainedStates
<1>1. st.State \in States /\ st.BlockingFaultLatched \in BOOLEAN
  BY DEF RetainedStates
<1>2. LatchAfterCase(in, st) \in BOOLEAN
  BY <1>1 DEF LatchAfterCase
<1>3. NextState(in, st.State) \in States
  BY <1>1, NextStateType
<1> QED
  BY <1>1, <1>2, <1>3 DEF TransitionStage, RetainedStates, AllSnapshots

(* Every output has a value of its declared type.                          *)
LEMMA OutputStageType ==
  ASSUME NEW in \in AllSnapshots, NEW st \in RetainedStates
  PROVE  OutputStage(in, st) \in OutputFrames
<1>1. StateOutputs(in, st) \in OutputFrames
  BY DEF StateOutputs, IsolationOfA, IsolationOfB, LandingRequested,
         OutputFrames, AllSnapshots, RetainedStates, States
<1>2. InvalidInputOutputs(in, StateOutputs(in, st)) \in OutputFrames
  BY <1>1 DEF InvalidInputOutputs, OutputFrames, AllSnapshots
<1> QED
  BY <1>2 DEF OutputStage, PayloadProtection, OutputFrames, AllSnapshots

(* A whole cycle, faulted or not, produces a typed result.                 *)
LEMMA CycleResultType ==
  ASSUME NEW st \in RetainedStates, NEW in \in AllSnapshots,
         NEW fault \in BOOLEAN
  PROVE  CycleResult(st, in, fault) \in CycleResults
BY TransitionStageType, OutputStageType
   DEF CycleResult, CycleResults, FaultRetained, FaultOutputs,
       RetainedStates, OutputFrames, NormalCommitInhibited, Diagnostics

(* TypeOK is an invariant, for every set of snapshots and scenario states. *)
THEOREM TypeCorrect == Spec => []TypeOK
<1>1. Init => TypeOK
  BY DEF Init, TypeOK, InitialState, RetainedStates, States
<1>2. TypeOK /\ [Next]_vars => TypeOK'
  <2> SUFFICES ASSUME TypeOK, [Next]_vars PROVE TypeOK'
    OBVIOUS
  <2>1. CASE StartScenario
    BY <2>1, ScenarioStatesAssumption DEF StartScenario, TypeOK
  <2>2. CASE ExecuteCycle
    BY <2>2, CycleResultType, SnapshotsAssumption DEF ExecuteCycle, TypeOK
  <2>3. CASE CommitCycle
    BY <2>3 DEF CommitCycle, TypeOK, CycleResults
  <2>4. CASE UNCHANGED vars
    BY <2>4 DEF vars, TypeOK
  <2> QED
    BY <2>1, <2>2, <2>3, <2>4 DEF Next
<1> QED
  BY <1>1, <1>2, PTL DEF Spec

-----------------------------------------------------------------------------
(* The inductive invariant: between its execution and its commit, the      *)
(* recorded result is the cycle function of the state still retained.      *)
(* Everything said of a recorded cycle follows from it without any         *)
(* reference to earlier steps.                                             *)
IInv ==
  /\ TypeOK
  /\ Recorded => cycle = CycleResult(retained, cycle.snapshot, cycle.fault)

(* IInv holds in every reachable state, for every set of snapshots and of  *)
(* scenario states.                                                        *)
THEOREM ResultIsCycleOfRetained == Spec => []IInv
<1>1. Init => IInv
  BY DEF Init, IInv, TypeOK, Recorded, InitialState, RetainedStates, States
<1>2. IInv /\ TypeOK' /\ [Next]_vars => IInv'
  <2> SUFFICES ASSUME IInv, TypeOK', [Next]_vars PROVE IInv'
    OBVIOUS
  <2>1. CASE StartScenario
    BY <2>1 DEF StartScenario, IInv, Recorded
  <2>2. CASE ExecuteCycle
    <3>1. PICK in \in Snapshots, fault \in BOOLEAN :
            cycle' = CycleResult(retained, in, fault)
      BY <2>2 DEF ExecuteCycle
    <3>2. cycle'.snapshot = in /\ cycle'.fault = fault
      BY <3>1 DEF CycleResult
    <3> QED
      BY <2>2, <3>1, <3>2 DEF ExecuteCycle, IInv
  <2>3. CASE CommitCycle
    BY <2>3 DEF CommitCycle, IInv, Recorded
  <2>4. CASE UNCHANGED vars
    BY <2>4 DEF vars, IInv, Recorded
  <2> QED
    BY <2>1, <2>2, <2>3, <2>4 DEF Next
<1> QED
  BY <1>1, <1>2, TypeCorrect, PTL DEF Spec

(* What IInv says of a recorded cycle, in the form the proofs below use.   *)
LEMMA RecordedCycle ==
  ASSUME IInv, Recorded
  PROVE  /\ retained \in RetainedStates
         /\ cycle.snapshot \in AllSnapshots
         /\ cycle.fault \in BOOLEAN
         /\ cycle = CycleResult(retained, cycle.snapshot, cycle.fault)
         /\ cycle.resident = retained
         /\ cycle.committed =
              IF cycle.fault
              THEN FaultRetained(TransitionStage(cycle.snapshot, retained))
              ELSE TransitionStage(cycle.snapshot, retained)
         /\ cycle.outputs =
              IF cycle.fault
              THEN FaultOutputs(OutputStage(cycle.snapshot,
                                  TransitionStage(cycle.snapshot, retained)),
                                cycle.committed)
              ELSE OutputStage(cycle.snapshot, cycle.committed)
<1>1. cycle \in CycleResults
  BY DEF IInv, TypeOK, Recorded
<1>2. cycle = CycleResult(retained, cycle.snapshot, cycle.fault)
  BY DEF IInv
<1>3. /\ retained \in RetainedStates
      /\ cycle.snapshot \in AllSnapshots
      /\ cycle.fault \in BOOLEAN
  BY <1>1 DEF IInv, TypeOK, CycleResults
<1> DEFINE in == cycle.snapshot
           fault == cycle.fault
<1>4. CycleResult(retained, in, fault).resident = retained
  BY DEF CycleResult
<1>5. CycleResult(retained, in, fault).committed =
        IF fault THEN FaultRetained(TransitionStage(in, retained))
        ELSE TransitionStage(in, retained)
  BY DEF CycleResult
<1>6. CycleResult(retained, in, fault).outputs =
        IF fault THEN FaultOutputs(OutputStage(in,
                                     TransitionStage(in, retained)),
                                   CycleResult(retained, in, fault).committed)
        ELSE OutputStage(in, CycleResult(retained, in, fault).committed)
  BY <1>5 DEF CycleResult
<1> HIDE DEF in, fault
<1> QED
  BY <1>2, <1>3, <1>4, <1>5, <1>6 DEF in, fault

-----------------------------------------------------------------------------
(* What the stages do, in the form the safety theorems need.               *)

(* A valid snapshot leads to NORMAL only if it shows a usable source.      *)
LEMMA NormalNeedsSource ==
  ASSUME NEW in \in AllSnapshots, NEW state \in States,
         NextState(in, state) = "NORMAL"
  PROVE  SourceUsable(in)
BY DEF NextState, States, FromInitializing, FromNormal,
       FromEnergyConservation, FromDegraded, FromCritical,
       FromRecoveryPending, FromLockout, DualLossTarget, SourceUsable,
       StableSupply, FullRecovery

(* Without a usable source, every started state but LOCKOUT goes to        *)
(* CRITICAL or LOCKOUT by the availability of essential power.             *)
LEMMA DualLossState ==
  ASSUME NEW in \in AllSnapshots, NEW state \in States,
         ~SourceUsable(in), state # "INITIALIZING"
  PROVE  NextState(in, state) =
           IF state = "LOCKOUT" THEN "LOCKOUT" ELSE DualLossTarget(in)
BY DEF NextState, States, FromInitializing, FromNormal,
       FromEnergyConservation, FromDegraded, FromCritical,
       FromRecoveryPending, FromLockout, DualLossTarget, SourceUsable,
       StableSupply, FullRecovery

(* A critical main bus leads every started state to CRITICAL or LOCKOUT.   *)
LEMMA CriticalBusState ==
  ASSUME NEW in \in AllSnapshots, NEW state \in States,
         in.MainBusCritical, state # "INITIALIZING"
  PROVE  NextState(in, state) \in {"CRITICAL", "LOCKOUT"}
BY DEF NextState, States, FromNormal, FromEnergyConservation, FromDegraded,
       FromCritical, FromRecoveryPending, FromLockout, DualLossTarget,
       FullRecovery

(* The outputs as functions of the snapshot and the committed state.       *)
LEMMA OutputsOfStage ==
  ASSUME NEW in \in AllSnapshots, NEW st \in RetainedStates,
         NEW o, o = OutputStage(in, st)
  PROVE  /\ o.MissionProgressionPermit <=>
               (in.InputSetValid /\ st.State = "NORMAL")
         /\ o.PayloadPermit <=>
               (in.InputSetValid /\ st.State = "NORMAL"
                                /\ ~in.PayloadOvercurrent)
         /\ o.ShedNonessentialLoads <=> ~o.PayloadPermit
         /\ o.IsolateBatteryA => ~in.BatteryAHealthy /\ in.BatteryBHealthy
         /\ o.IsolateBatteryB => ~in.BatteryBHealthy /\ in.BatteryAHealthy
         /\ in.InputSetValid /\ st.State = "NORMAL" =>
              ~o.ReturnToHomeRequest /\ ~o.ImmediateLandingRequest
         /\ in.InputSetValid =>
              (o.ImmediateLandingRequest <=>
                 st.State \in {"CRITICAL", "LOCKOUT"})
         /\ o.SupervisorState = st.State
         /\ o.BlockingPowerFault <=>
              (\/ ~in.InputSetValid
               \/ st.BlockingFaultLatched
               \/ st.State \in {"CRITICAL", "LOCKOUT", "RECOVERY_PENDING"})
BY DEF OutputStage, PayloadProtection, InvalidInputOutputs, StateOutputs,
       IsolationOfA, IsolationOfB, LandingRequested,
       AllSnapshots, RetainedStates, States

-----------------------------------------------------------------------------
(* The safety theorems.                                                    *)

(* PermitsNeedUsableSource for every set of snapshots: PWR-HLR-002.        *)
THEOREM PermitsSafe == Spec => []PermitsNeedUsableSource
<1>1. IInv => PermitsNeedUsableSource
  <2> SUFFICES ASSUME IInv, Recorded,
                      \/ cycle.outputs.MissionProgressionPermit
                      \/ cycle.outputs.PayloadPermit
               PROVE  /\ SourceUsable(cycle.snapshot)
                      /\ cycle.snapshot.InputSetValid
                      /\ ~cycle.fault
    BY DEF PermitsNeedUsableSource
  <2> DEFINE in == cycle.snapshot
             st == TransitionStage(in, retained)
  <2>1. in \in AllSnapshots /\ st \in RetainedStates
    BY RecordedCycle, TransitionStageType
  <2>2. ~cycle.fault
    BY RecordedCycle DEF FaultOutputs
  <2>3. cycle.outputs = OutputStage(in, st)
    BY <2>2, RecordedCycle
  <2>4. in.InputSetValid /\ st.State = "NORMAL"
    BY <2>1, <2>3, OutputsOfStage
  <2>5. NextState(in, retained.State) = "NORMAL"
    BY <2>4 DEF TransitionStage
  <2>6. retained.State \in States
    BY RecordedCycle DEF RetainedStates
  <2> QED
    BY <2>1, <2>2, <2>4, <2>5, <2>6, NormalNeedsSource
<1> QED
  BY <1>1, ResultIsCycleOfRetained, PTL

(* IsolationKeepsASource for every set of snapshots: PWR-HLR-006, 007.     *)
THEOREM IsolationSafe == Spec => []IsolationKeepsASource
<1>1. IInv => IsolationKeepsASource
  <2> SUFFICES ASSUME IInv, Recorded PROVE IsolationKeepsASource
    BY DEF IsolationKeepsASource
  <2>1. CASE cycle.fault
    BY <2>1, RecordedCycle DEF FaultOutputs, IsolationKeepsASource
  <2>2. CASE ~cycle.fault
    BY <2>2, RecordedCycle, TransitionStageType, OutputsOfStage
       DEF IsolationKeepsASource
  <2> QED
    BY <2>1, <2>2
<1> QED
  BY <1>1, ResultIsCycleOfRetained, PTL

(* CommandsCoherent for every set of snapshots: PWR-HLR-009.               *)
THEOREM CommandsSafe == Spec => []CommandsCoherent
<1>1. IInv => CommandsCoherent
  <2> SUFFICES ASSUME IInv, Recorded PROVE CommandsCoherent
    BY DEF CommandsCoherent
  <2>1. CASE cycle.fault
    BY <2>1, RecordedCycle DEF FaultOutputs, CommandsCoherent
  <2>2. CASE ~cycle.fault
    BY <2>2, RecordedCycle, TransitionStageType, OutputsOfStage
       DEF CommandsCoherent
  <2> QED
    BY <2>1, <2>2
<1> QED
  BY <1>1, ResultIsCycleOfRetained, PTL

(* DualLossCommitted for every set of snapshots: PWR-HLR-008.              *)
THEOREM DualLossSafe == Spec => []DualLossCommitted
<1>1. IInv => DualLossCommitted
  <2> SUFFICES ASSUME IInv, Recorded, cycle.snapshot.InputSetValid,
                      ~SourceUsable(cycle.snapshot),
                      cycle.resident.State # "INITIALIZING"
               PROVE  cycle.committed.State =
                        IF cycle.resident.State = "LOCKOUT" THEN "LOCKOUT"
                        ELSE DualLossTarget(cycle.snapshot)
    BY DEF DualLossCommitted
  <2> DEFINE in == cycle.snapshot
             st == TransitionStage(in, retained)
  <2>1. retained.State \in States /\ cycle.resident = retained
    BY RecordedCycle DEF RetainedStates
  <2>2. st.State = NextState(in, retained.State)
    BY DEF TransitionStage
  <2>3. cycle.committed.State = st.State
    BY RecordedCycle, TransitionStageType DEF FaultRetained, RetainedStates
  <2> QED
    BY <2>1, <2>2, <2>3, DualLossState, RecordedCycle
<1> QED
  BY <1>1, ResultIsCycleOfRetained, PTL

(* CriticalBusLands for every set of snapshots: PWR-HLR-005.               *)
THEOREM CriticalBusSafe == Spec => []CriticalBusLands
<1>1. IInv => CriticalBusLands
  <2> SUFFICES ASSUME IInv, Recorded,
                      cycle.snapshot.InputSetValid,
                      cycle.snapshot.MainBusCritical,
                      ~cycle.fault,
                      cycle.resident.State # "INITIALIZING"
               PROVE  /\ cycle.outputs.ImmediateLandingRequest
                      /\ cycle.outputs.ShedNonessentialLoads
                      /\ cycle.committed.State \in {"CRITICAL", "LOCKOUT"}
    BY DEF CriticalBusLands
  <2> DEFINE in == cycle.snapshot
             st == TransitionStage(in, retained)
  <2>1. /\ in \in AllSnapshots /\ st \in RetainedStates
        /\ retained.State \in States /\ cycle.resident = retained
    BY RecordedCycle, TransitionStageType DEF RetainedStates
  <2>2. st.State \in {"CRITICAL", "LOCKOUT"}
    BY <2>1, CriticalBusState DEF TransitionStage
  <2>3. cycle.committed = st /\ cycle.outputs = OutputStage(in, st)
    BY RecordedCycle
  <2> QED
    BY <2>1, <2>2, <2>3, OutputsOfStage
<1> QED
  BY <1>1, ResultIsCycleOfRetained, PTL

(* BlockingFaultPublished for every set of snapshots: PWR-HLR-010, 015.    *)
THEOREM BlockingFaultSafe == Spec => []BlockingFaultPublished
<1>1. IInv => BlockingFaultPublished
  <2> SUFFICES ASSUME IInv, Recorded PROVE BlockingFaultPublished
    BY DEF BlockingFaultPublished
  <2> DEFINE in == cycle.snapshot
             st == TransitionStage(in, retained)
  <2>1. in \in AllSnapshots /\ st \in RetainedStates
    BY RecordedCycle, TransitionStageType
  <2>2. /\ st.State \in {"CRITICAL", "LOCKOUT"} => st.BlockingFaultLatched
        /\ ~in.InputSetValid => st.BlockingFaultLatched
    BY DEF TransitionStage, LatchAfterCase
  <2>3. CASE cycle.fault
    <3>1. /\ cycle.committed.State = st.State
          /\ cycle.committed.BlockingFaultLatched = TRUE
      BY <2>1, <2>3, RecordedCycle DEF FaultRetained, RetainedStates
    <3> QED
      BY <2>3, <3>1, RecordedCycle DEF FaultOutputs, BlockingFaultPublished
  <2>4. CASE ~cycle.fault
    <3>1. cycle.committed = st /\ cycle.outputs = OutputStage(in, st)
      BY <2>4, RecordedCycle
    <3> QED
      BY <2>1, <2>2, <3>1, OutputsOfStage DEF BlockingFaultPublished
  <2> QED
    BY <2>3, <2>4
<1> QED
  BY <1>1, ResultIsCycleOfRetained, PTL

-----------------------------------------------------------------------------
(* The refinement of the recovery contract.                                *)

(* The role of each state, arm by arm.                                     *)
LEMMA ModeOfState ==
  ASSUME NEW state \in States
  PROVE  /\ ModeOf(state) \in Contract!Modes
         /\ state = "INITIALIZING" => ModeOf(state) = "starting"
         /\ state \in {"NORMAL", "ENERGY_CONSERVATION"} =>
              ModeOf(state) = "operational"
         /\ state \in {"DEGRADED", "CRITICAL"} =>
              ModeOf(state) = "restricted"
         /\ state = "RECOVERY_PENDING" => ModeOf(state) = "pending"
         /\ state = "LOCKOUT" => ModeOf(state) = "locked"
BY DEF ModeOf, States, Contract!Modes

(* The successors of each state, and the grant that a return to NORMAL     *)
(* out of the recovery states needs.                                       *)
LEMMA Successors ==
  ASSUME NEW in \in AllSnapshots, NEW state \in States,
         NEW next, next = NextState(in, state)
  PROVE  /\ state = "INITIALIZING" =>
              next \in {"INITIALIZING", "NORMAL", "LOCKOUT"}
         /\ state \in {"NORMAL", "ENERGY_CONSERVATION"} =>
              next \in {"NORMAL", "ENERGY_CONSERVATION", "DEGRADED",
                        "CRITICAL", "LOCKOUT"}
         /\ state \in {"DEGRADED", "CRITICAL"} =>
              next \in {"DEGRADED", "CRITICAL", "RECOVERY_PENDING", "LOCKOUT"}
         /\ state = "RECOVERY_PENDING" =>
              \/ next \in {"RECOVERY_PENDING", "DEGRADED", "CRITICAL",
                           "LOCKOUT"}
              \/ next = "NORMAL" /\ in.ResetAuthorized /\ in.RecoveryStable
         /\ state = "LOCKOUT" =>
              \/ next = "LOCKOUT"
              \/ next = "NORMAL" /\ in.ResetAuthorized /\ in.RecoveryStable
BY DEF NextState, States, FromInitializing, FromNormal,
       FromEnergyConservation, FromDegraded, FromCritical,
       FromRecoveryPending, FromLockout, DualLossTarget,
       StableSupply, FullRecovery

(* In terms of the contract: a valid snapshot makes a move it allows.      *)
LEMMA ContractMove ==
  ASSUME NEW in \in AllSnapshots, in.InputSetValid, NEW state \in States,
         NEW next \in States, next = NextState(in, state)
  PROVE  \/ ModeOf(next) = ModeOf(state)
         \/ Contract!FreeMove(ModeOf(state), ModeOf(next))
         \/ /\ ResetGranted(in)
            /\ Contract!GrantedMove(ModeOf(state), ModeOf(next))
<1>1. CASE state = "INITIALIZING"
  <2>1. next \in {"INITIALIZING", "NORMAL", "LOCKOUT"}
    BY <1>1, Successors
  <2> QED
    BY <1>1, <2>1, ModeOfState DEF Contract!FreeMove
<1>2. CASE state \in {"NORMAL", "ENERGY_CONSERVATION"}
  <2>1. next \in {"NORMAL", "ENERGY_CONSERVATION", "DEGRADED", "CRITICAL",
                  "LOCKOUT"}
    BY <1>2, Successors
  <2>2. ModeOf(state) = "operational"
    BY <1>2, ModeOfState
  <2>3. ModeOf(next) \in {"operational", "restricted", "locked"}
    BY <2>1, ModeOfState
  <2> QED
    BY <2>2, <2>3 DEF Contract!FreeMove
<1>3. CASE state \in {"DEGRADED", "CRITICAL"}
  <2>1. next \in {"DEGRADED", "CRITICAL", "RECOVERY_PENDING", "LOCKOUT"}
    BY <1>3, Successors
  <2>2. ModeOf(state) = "restricted"
    BY <1>3, ModeOfState
  <2>3. ModeOf(next) \in {"restricted", "pending", "locked"}
    BY <2>1, ModeOfState
  <2> QED
    BY <2>2, <2>3 DEF Contract!FreeMove
<1>4. CASE state = "RECOVERY_PENDING"
  <2>1. ModeOf(state) = "pending"
    BY <1>4, ModeOfState
  <2>2. \/ ModeOf(next) \in {"pending", "restricted", "locked"}
        \/ /\ ModeOf(next) = "operational"
           /\ in.ResetAuthorized /\ in.RecoveryStable
    BY <1>4, Successors, ModeOfState
  <2> QED
    BY <2>1, <2>2 DEF Contract!FreeMove, Contract!GrantedMove, ResetGranted
<1>5. CASE state = "LOCKOUT"
  <2>1. \/ next = state
        \/ next = "NORMAL" /\ in.ResetAuthorized /\ in.RecoveryStable
    BY <1>5, Successors
  <2> QED
    BY <1>5, <2>1, ModeOfState DEF Contract!GrantedMove, ResetGranted
<1> QED
  BY <1>1, <1>2, <1>3, <1>4, <1>5 DEF States

(* ImplementsContract for every set of snapshots and scenario states.      *)
THEOREM RecoveryContractHolds == Spec => ImplementsContract
<1> DEFINE Mode == ModeOf(retained.State)
           Request == RequestOf(cycle)
<1>1. Init => Contract!CInit
  BY DEF Init, InitialState, ModeOf, RequestOf, Contract!CInit
<1>2. IInv /\ TypeOK' /\ [Next]_vars => [Contract!CNext]_(Contract!cvars)
  <2> SUFFICES ASSUME IInv, TypeOK', [Next]_vars
               PROVE  [Contract!CNext]_(Contract!cvars)
    OBVIOUS
  <2>1. CASE StartScenario
    <3>1. cycle = Idle /\ cycle' = Idle /\ retained' \in RetainedStates
      BY <2>1, ScenarioStatesAssumption DEF StartScenario
    <3>2. RequestOf(cycle) = "none" /\ RequestOf(cycle') = "none"
      BY <3>1 DEF RequestOf
    <3>3. ModeOf(retained'.State) \in Contract!Modes
      BY <3>1, ModeOfState DEF RetainedStates
    <3> QED
      BY <3>1, <3>2, <3>3 DEF Contract!CNext, Contract!Restart, RetainedStates
  <2>2. CASE ExecuteCycle
    <3>1. cycle = Idle /\ retained' = retained
      BY <2>2 DEF ExecuteCycle
    <3>2. PICK in \in Snapshots, fault \in BOOLEAN :
            cycle' = CycleResult(retained, in, fault)
      BY <2>2 DEF ExecuteCycle
    <3>3. cycle'.kind = "completed"
      BY <3>2 DEF CycleResult
    <3>4. RequestOf(cycle) = "none" /\ RequestOf(cycle') \in {"denied", "granted"}
      BY <3>1, <3>3 DEF RequestOf, Idle
    <3> QED
      BY <3>1, <3>4 DEF Contract!CNext, Contract!Acquire
  <2>3. CASE CommitCycle
    <3> DEFINE in == cycle.snapshot
               st == TransitionStage(in, retained)
    <3>1. Recorded /\ retained' = cycle.committed /\ cycle' = Idle
      BY <2>3 DEF CommitCycle, Recorded
    <3>2. /\ in \in AllSnapshots /\ retained \in RetainedStates
          /\ st \in RetainedStates
          /\ retained.State \in States
          /\ retained.BlockingFaultLatched \in BOOLEAN
          /\ cycle.committed = IF cycle.fault THEN FaultRetained(st) ELSE st
      BY <3>1, RecordedCycle, TransitionStageType DEF RetainedStates
    <3>3. /\ retained'.State = st.State
          /\ retained'.State \in States
          /\ retained'.BlockingFaultLatched \in BOOLEAN
          /\ st.BlockingFaultLatched => retained'.BlockingFaultLatched
      BY <3>1, <3>2 DEF FaultRetained, RetainedStates
    <3>4. /\ RequestOf(cycle) =
               IF ResetGranted(in) THEN "granted" ELSE "denied"
          /\ RequestOf(cycle') = "none"
      BY <3>1 DEF RequestOf, Recorded
    <3>5. st.State = IF in.InputSetValid THEN NextState(in, retained.State)
                     ELSE retained.State
      BY DEF TransitionStage
    <3>6. /\ st.State = "LOCKOUT" => st.BlockingFaultLatched
          /\ retained.BlockingFaultLatched /\ ~st.BlockingFaultLatched =>
               /\ in.InputSetValid
               /\ retained.State \in {"RECOVERY_PENDING", "LOCKOUT"}
               /\ NextState(in, retained.State) = "NORMAL"
      BY <3>2 DEF TransitionStage, LatchAfterCase, AllSnapshots
    <3> HIDE DEF in, st
    <3>7. /\ Contract!MoveAllowed
          /\ ModeOf(retained'.State) \in Contract!Modes
      <4>1. CASE ~in.InputSetValid
        BY <4>1, <3>2, <3>3, <3>5, ModeOfState DEF Contract!MoveAllowed
      <4>2. CASE in.InputSetValid
        <5>1. retained'.State = NextState(in, retained.State)
          BY <4>2, <3>3, <3>5
        <5>2. ModeOf(retained'.State) \in Contract!Modes
          BY <3>3, ModeOfState
        <5>3. \/ ModeOf(retained'.State) = ModeOf(retained.State)
              \/ Contract!FreeMove(ModeOf(retained.State),
                                   ModeOf(retained'.State))
              \/ /\ ResetGranted(in)
                 /\ Contract!GrantedMove(ModeOf(retained.State),
                                         ModeOf(retained'.State))
          BY <4>2, <5>1, <3>2, <3>3, ContractMove
        <5> QED
          BY <5>2, <5>3, <3>4 DEF Contract!MoveAllowed
      <4> QED
        BY <4>1, <4>2
    <3>8. Contract!LatchAllowed
      <4>1. ModeOf(retained'.State) = "locked" =>
              retained'.BlockingFaultLatched
        BY <3>3, <3>6, ModeOfState DEF States
      <4>2. ASSUME retained.BlockingFaultLatched,
                   ~retained'.BlockingFaultLatched
            PROVE  /\ RequestOf(cycle) = "granted"
                   /\ ModeOf(retained.State) \in {"pending", "locked"}
                   /\ ModeOf(retained'.State) = "operational"
        <5>1. /\ in.InputSetValid
              /\ retained.State \in {"RECOVERY_PENDING", "LOCKOUT"}
              /\ retained'.State = "NORMAL"
              /\ NextState(in, retained.State) = "NORMAL"
          BY <4>2, <3>3, <3>5, <3>6
        <5>2. in.ResetAuthorized /\ in.RecoveryStable
          BY <5>1, <3>2, Successors
        <5> QED
          BY <5>1, <5>2, <3>2, <3>3, <3>4, ModeOfState DEF ResetGranted
      <4> QED
        BY <4>1, <4>2, <3>3 DEF Contract!LatchAllowed
    <3>9. RequestOf(cycle) # "none"
      BY <3>4
    <3> QED
      BY <3>4, <3>7, <3>8, <3>9 DEF Contract!CNext, Contract!Settle
  <2>4. CASE UNCHANGED vars
    BY <2>4 DEF vars, Contract!cvars
  <2> QED
    BY <2>1, <2>2, <2>3, <2>4 DEF Next
<1> QED
  BY <1>1, <1>2, TypeCorrect, ResultIsCycleOfRetained, PTL
     DEF Spec, ImplementsContract, Contract!CSpec

-----------------------------------------------------------------------------
(* The oracle: one lemma per part of oracle_step, then one step of it is   *)
(* one cycle of the program.                                               *)

(* In each state the oracle's chain comes to the arm of the program's CASE.*)
LEMMA OracleChainIsNextState ==
  ASSUME NEW in \in AllSnapshots, NEW state \in States
  PROVE  OracleChain(in, state) = NextState(in, state)
BY DEF OracleChain, NextState, States, FromInitializing, FromNormal,
       FromEnergyConservation, FromDegraded, FromCritical,
       FromRecoveryPending, FromLockout, DualLossTarget, SourceUsable,
       StableSupply, FullRecovery, PowerAnomaly

(* An invalid snapshot leaves the state alone on both sides.               *)
LEMMA OracleStateAgrees ==
  ASSUME NEW in \in AllSnapshots, NEW st \in RetainedStates
  PROVE  OracleState(in, st.State) = TransitionStage(in, st).State
BY OracleChainIsNextState DEF OracleState, TransitionStage, RetainedStates

(* The oracle's latch is the one that the transition stage computes.       *)
LEMMA OracleLatchAgrees ==
  ASSUME NEW in \in AllSnapshots, NEW st \in RetainedStates,
         NEW next, next = TransitionStage(in, st).State
  PROVE  OracleLatch(in, st, next)
           <=> TransitionStage(in, st).BlockingFaultLatched
<1>1. /\ st.State \in States /\ st.BlockingFaultLatched \in BOOLEAN
      /\ in.InputSetValid \in BOOLEAN
  BY DEF AllSnapshots, RetainedStates
<1>2. next = IF in.InputSetValid THEN NextState(in, st.State) ELSE st.State
  BY DEF TransitionStage
<1>3. TransitionStage(in, st).BlockingFaultLatched <=>
         \/ LatchAfterCase(in, st)
         \/ in.ContactorMismatchPersisted
         \/ next \in {"CRITICAL", "LOCKOUT"}
  BY <1>2 DEF TransitionStage
<1> QED
  BY <1>1, <1>2, <1>3 DEF OracleLatch, LatchAfterCase

(* The commands that a state raises, command by command.                   *)
LEMMA RaisedCommands ==
  ASSUME NEW in \in AllSnapshots, NEW state \in States
  PROVE  LET raised == RaisedByState(in, state)
         IN  /\ "PayloadPermit" \in raised <=> state = "NORMAL"
             /\ "ShedNonessentialLoads" \in raised <=> state # "NORMAL"
             /\ "IsolateBatteryA" \in raised <=> IsolationOfA(in, state)
             /\ "IsolateBatteryB" \in raised <=> IsolationOfB(in, state)
             /\ "ReturnToHomeRequest" \in raised <=>
                  \/ state \in {"DEGRADED", "CRITICAL"}
                  \/ /\ state = "ENERGY_CONSERVATION"
                     /\ in.ReturnEnergyInsufficient
             /\ "ImmediateLandingRequest" \in raised
                  <=> LandingRequested(state)
             /\ "MissionProgressionPermit" \in raised <=> state = "NORMAL"
             /\ "BlockingPowerFault" \in raised <=>
                  state \in {"CRITICAL", "LOCKOUT", "RECOVERY_PENDING"}
<1>1. CASE state = "INITIALIZING"
  BY <1>1 DEF RaisedByState, IsolationOfA, IsolationOfB, LandingRequested
<1>2. CASE state = "NORMAL"
  BY <1>2 DEF RaisedByState, IsolationOfA, IsolationOfB, LandingRequested
<1>3. CASE state = "ENERGY_CONSERVATION"
  BY <1>3 DEF RaisedByState, IsolationOfA, IsolationOfB, LandingRequested
<1>4. CASE state = "DEGRADED"
  BY <1>4 DEF RaisedByState, IsolationOfA, IsolationOfB, LandingRequested
<1>5. CASE state = "CRITICAL"
  BY <1>5 DEF RaisedByState, IsolationOfA, IsolationOfB, LandingRequested
<1>6. CASE state = "RECOVERY_PENDING"
  BY <1>6 DEF RaisedByState, IsolationOfA, IsolationOfB, LandingRequested
<1>7. CASE state = "LOCKOUT"
  BY <1>7 DEF RaisedByState, IsolationOfA, IsolationOfB, LandingRequested
<1> QED
  BY <1>1, <1>2, <1>3, <1>4, <1>5, <1>6, <1>7 DEF States

(* A set of commands and a frame say the same.                             *)
SameCommands(raised, outputs) ==
  /\ "PayloadPermit" \in raised <=> outputs.PayloadPermit
  /\ "ShedNonessentialLoads" \in raised <=> outputs.ShedNonessentialLoads
  /\ "IsolateBatteryA" \in raised <=> outputs.IsolateBatteryA
  /\ "IsolateBatteryB" \in raised <=> outputs.IsolateBatteryB
  /\ "ReturnToHomeRequest" \in raised <=> outputs.ReturnToHomeRequest
  /\ "ImmediateLandingRequest" \in raised <=> outputs.ImmediateLandingRequest
  /\ "MissionProgressionPermit" \in raised
       <=> outputs.MissionProgressionPermit
  /\ "BlockingPowerFault" \in raised <=> outputs.BlockingPowerFault

(* The committed states agree, the fault policy's latch included.          *)
LEMMA StepCommitted ==
  ASSUME NEW in \in AllSnapshots, NEW st \in RetainedStates,
         NEW fault \in BOOLEAN
  PROVE  OracleStep(st, in, fault).committed
           = CycleResult(st, in, fault).committed
<1> DEFINE next    == OracleState(in, st.State)
           working == TransitionStage(in, st)
<1>1. working \in RetainedStates
  BY TransitionStageType
<1>2. next = working.State
  BY OracleStateAgrees
<1>3. OracleLatch(in, st, next) <=> working.BlockingFaultLatched
  BY <1>2, OracleLatchAgrees
<1>4. OracleStep(st, in, fault).committed
        = [State |-> next,
           BlockingFaultLatched |-> OracleLatch(in, st, next) \/ fault]
  BY DEF OracleStep
<1>5. CycleResult(st, in, fault).committed
        = IF fault THEN FaultRetained(working) ELSE working
  BY DEF CycleResult
<1>6. OracleLatch(in, st, next) \in BOOLEAN
  BY Zenon DEF OracleLatch
<1> HIDE DEF next, working
<1>7. (OracleLatch(in, st, next) \/ fault)
        = IF fault THEN TRUE ELSE working.BlockingFaultLatched
  BY <1>1, <1>3, <1>6 DEF RetainedStates
<1> QED
  BY <1>1, <1>2, <1>4, <1>5, <1>7 DEF FaultRetained, RetainedStates

(* Without a fault the oracle raises the commands that the output stage    *)
(* sets, through the override of an invalid snapshot and the protection of *)
(* the payload.                                                            *)
LEMMA CommandsRaised ==
  ASSUME NEW in \in AllSnapshots, NEW st \in RetainedStates
  PROVE  SameCommands(Raised(in, st.State, st.BlockingFaultLatched, FALSE),
                      OutputStage(in, st))
<1> DEFINE latched == st.BlockingFaultLatched
           normal  == IF in.InputSetValid
                      THEN RaisedByState(in, st.State)
                           \cup {c \in {"BlockingPowerFault"} : latched}
                      ELSE RaisedOnInvalid(in)
           overridden == InvalidInputOutputs(in, StateOutputs(in, st))
<1>1. st.State \in States /\ latched \in BOOLEAN
  BY DEF RetainedStates
<1>2. SameCommands(normal, overridden)
  <2>1. CASE in.InputSetValid
    <3>1. overridden = StateOutputs(in, st)
      BY <2>1 DEF InvalidInputOutputs
    <3>2. normal = RaisedByState(in, st.State)
                     \cup {c \in {"BlockingPowerFault"} : latched}
      BY <2>1
    <3> HIDE DEF normal, overridden
    <3> QED
      BY <1>1, <3>1, <3>2, RaisedCommands
         DEF SameCommands, StateOutputs
  <2>2. CASE ~in.InputSetValid
    <3>1. normal = RaisedOnInvalid(in)
      BY <2>2
    <3> HIDE DEF normal
    <3> QED
      BY <2>2, <3>1 DEF SameCommands, RaisedOnInvalid,
                           InvalidInputOutputs
  <2> QED
    BY <2>1, <2>2
<1>3. Raised(in, st.State, latched, FALSE)
        = IF in.PayloadOvercurrent
          THEN (normal \ {"PayloadPermit"}) \cup {"ShedNonessentialLoads"}
          ELSE normal
  BY DEF Raised
<1>4. OutputStage(in, st)
        = IF in.PayloadOvercurrent
          THEN [overridden EXCEPT !.PayloadPermit = FALSE,
                                  !.ShedNonessentialLoads = TRUE]
          ELSE overridden
  BY DEF OutputStage, PayloadProtection
<1>5. overridden \in OutputFrames
  BY DEF StateOutputs, IsolationOfA, IsolationOfB, LandingRequested,
         OutputFrames, AllSnapshots, RetainedStates, States,
         InvalidInputOutputs
<1> HIDE DEF normal, overridden
<1>6. CASE in.PayloadOvercurrent
  BY <1>2, <1>3, <1>4, <1>5, <1>6
     DEF SameCommands, OutputFrames, latched
<1>7. CASE ~in.PayloadOvercurrent
  BY <1>2, <1>3, <1>4, <1>7 DEF latched
<1> QED
  BY <1>6, <1>7

(* A frame of declared types is the characteristic function of the commands*)
(* that are TRUE in it.                                                    *)
LEMMA FrameOfRaised ==
  ASSUME NEW outputs \in OutputFrames, NEW raised,
         SameCommands(raised, outputs)
  PROVE  [c \in OutputNames |-> IF c = "SupervisorState"
                                THEN outputs.SupervisorState
                                ELSE c \in raised] = outputs
<1> DEFINE frame == [c \in OutputNames |-> IF c = "SupervisorState"
                                THEN outputs.SupervisorState
                                ELSE c \in raised]
<1>1. DOMAIN outputs = OutputNames
  BY DEF OutputFrames, OutputNames
<1>2. outputs = [c \in DOMAIN outputs |-> outputs[c]]
  BY DEF OutputFrames
<1>3. ASSUME NEW c \in OutputNames PROVE frame[c] = outputs[c]
  <2>1. CASE c = "SupervisorState"
    BY <2>1
  <2>2. CASE c # "SupervisorState"
    <3>1. outputs[c] \in BOOLEAN /\ (c \in raised <=> outputs[c])
      BY <2>2 DEF SameCommands, OutputNames, OutputFrames
    <3>2. frame[c] = (c \in raised)
      BY <2>2
    <3> HIDE DEF frame
    <3>3. (c \in raised) = outputs[c]
      BY <3>1
    <3> QED BY <3>2, <3>3
  <2> QED
    BY <2>1, <2>2
<1>4. frame = [c \in OutputNames |-> frame[c]]
  BY Zenon
<1> HIDE DEF frame
<1>5. frame = outputs
   BY <1>1, <1>2, <1>3, <1>4
<1> QED
  BY <1>5 DEF frame

(* One step of the oracle is one cycle of the program.                     *)
LEMMA OracleStepIsCycle ==
  ASSUME NEW in \in AllSnapshots, NEW st \in RetainedStates,
         NEW fault \in BOOLEAN
  PROVE  /\ OracleStep(st, in, fault).committed
              = CycleResult(st, in, fault).committed
         /\ OracleStep(st, in, fault).outputs
              = CycleResult(st, in, fault).outputs
         /\ OracleStep(st, in, fault).inhibited
              = CycleResult(st, in, fault).inhibited
<1> DEFINE working == TransitionStage(in, st)
           next    == OracleState(in, st.State)
           latched == OracleLatch(in, st, next)
           raised  == Raised(in, next, latched, fault)
           result  == CycleResult(st, in, fault)
<1>1. working \in RetainedStates /\ next = working.State
  BY TransitionStageType, OracleStateAgrees
<1>2. latched = working.BlockingFaultLatched
  <2>1. latched <=> working.BlockingFaultLatched
    BY <1>1, OracleLatchAgrees
  <2>2. latched \in BOOLEAN
    BY Zenon DEF OracleLatch
  <2> HIDE DEF latched, working
  <2> QED
    BY <1>1, <2>1, <2>2 DEF RetainedStates
<1>3. OracleStep(st, in, fault).outputs
        = [c \in OutputNames |->
             IF c = "SupervisorState" THEN next ELSE c \in raised]
  BY DEF OracleStep
<1>4. result.outputs \in OutputFrames
  BY CycleResultType DEF CycleResults
<1>5. OracleStep(st, in, fault).outputs = result.outputs
  <2>1. CASE ~fault
    <3>1. result.outputs = OutputStage(in, working)
      BY <2>1 DEF CycleResult
    <3>2. result.outputs.SupervisorState = next
      <4>1. OutputStage(in, working).SupervisorState = working.State
        BY DEF OutputStage, PayloadProtection, InvalidInputOutputs,
               StateOutputs
      <4> QED
        BY <1>1, <3>1, <4>1
    <3>3. raised = Raised(in, working.State, working.BlockingFaultLatched,
                          FALSE)
      BY <1>1, <1>2, <2>1
    <3> HIDE DEF working, next, latched, raised, result
    <3>4. SameCommands(raised, result.outputs)
      BY <1>1, <3>1, <3>3, CommandsRaised
    <3>5. [c \in OutputNames |-> IF c = "SupervisorState"
                                 THEN result.outputs.SupervisorState
                                 ELSE c \in raised] = result.outputs
      BY <1>4, <3>4, FrameOfRaised
    <3> QED
      BY <1>3, <3>2, <3>5
  <2>2. CASE fault
    <3>1. result.outputs
            = FaultOutputs(OutputStage(in, working), FaultRetained(working))
      BY <2>2 DEF CycleResult
    <3>2. FaultRetained(working).State = working.State
      BY <1>1 DEF FaultRetained, RetainedStates
    <3>3. raised = {"ShedNonessentialLoads", "BlockingPowerFault"}
      BY <2>2 DEF Raised
    <3> HIDE DEF working, next, latched, raised, result
    <3>4. result.outputs.SupervisorState = next
      BY <1>1, <3>1, <3>2 DEF FaultOutputs
    <3>5. SameCommands(raised, result.outputs)
      BY <3>1, <3>3 DEF FaultOutputs, SameCommands
    <3>6. [c \in OutputNames |-> IF c = "SupervisorState"
                                 THEN result.outputs.SupervisorState
                                 ELSE c \in raised] = result.outputs
      BY <1>4, <3>5, FrameOfRaised
    <3> QED
      BY <1>3, <3>4, <3>6
  <2> QED
    BY <2>1, <2>2
<1>6. OracleStep(st, in, fault).inhibited = result.inhibited
  BY DEF OracleStep, CycleResult, NormalCommitInhibited
<1> QED
  BY <1>5, <1>6, StepCommitted

-----------------------------------------------------------------------------
(* The program and its oracle in lockstep.                                 *)

(* The oracle only watches: with it the program takes its own steps.       *)
LEMMA OracleStepsAreSteps == ONext => Next
BY DEF ONext, OStartScenario, OExecuteCycle, OCommitCycle, Next

(* What holds of the program alone holds of the program beside its oracle. *)
THEOREM OracleObserves == OSpec => Spec
<1>1. OInit => Init
  BY DEF OInit
<1>2. [ONext]_ovars => [Next]_vars
  BY OracleStepsAreSteps DEF ovars, vars
<1> QED
  BY <1>1, <1>2, PTL DEF OSpec, Spec

(* The inductive invariant: the oracle's own retained state is the state   *)
(* retained by the program while no cycle is recorded, and its result is   *)
(* one step from that same state while one is.  The agreement of the two   *)
(* results alone would not be inductive: it says nothing of the state from *)
(* which the next cycle is computed.                                       *)
OracleInv ==
  expected = IF Recorded
             THEN OracleStep(retained, cycle.snapshot, cycle.fault)
             ELSE Unexecuted(retained)

(* The two invariants together give the same result on both sides.         *)
LEMMA RecordedMeets ==
  ASSUME IInv, OracleInv, Recorded
  PROVE  /\ cycle.committed = expected.committed
         /\ cycle.outputs = expected.outputs
         /\ cycle.inhibited = expected.inhibited
<1>1. /\ retained \in RetainedStates
      /\ cycle.snapshot \in AllSnapshots
      /\ cycle.fault \in BOOLEAN
      /\ cycle = CycleResult(retained, cycle.snapshot, cycle.fault)
  BY RecordedCycle
<1>2. expected = OracleStep(retained, cycle.snapshot, cycle.fault)
  BY DEF OracleInv
<1>3. PICK in \in AllSnapshots, fault \in BOOLEAN :
        in = cycle.snapshot /\ fault = cycle.fault
  BY <1>1
<1>4. /\ cycle = CycleResult(retained, in, fault)
      /\ expected = OracleStep(retained, in, fault)
  BY <1>1, <1>2, <1>3
<1> QED
  BY <1>1, <1>4, OracleStepIsCycle

(* The oracle never loses the state of the program, scenario after         *)
(* scenario.                                                               *)
THEOREM OracleInLockstep == OSpec => []OracleInv
<1>1. OInit => OracleInv
  BY DEF OInit, Init, OracleInv, Recorded
<1>2. IInv /\ OracleInv /\ [ONext]_ovars => OracleInv'
  <2> SUFFICES ASSUME IInv, OracleInv, [ONext]_ovars PROVE OracleInv'
    OBVIOUS
  <2>1. CASE OStartScenario
    BY <2>1 DEF OStartScenario, StartScenario, OracleInv, Recorded
  <2>2. CASE OExecuteCycle
    <3>1. PICK in \in Snapshots, fault \in BOOLEAN :
            cycle' = CycleResult(retained, in, fault)
      BY <2>2 DEF OExecuteCycle, ExecuteCycle
    <3>2. /\ cycle'.snapshot = in /\ cycle'.fault = fault
          /\ cycle'.kind = "completed"
      BY <3>1 DEF CycleResult
    <3>3. Recorded'
      BY <3>2 DEF Recorded, Idle
    <3>4. expected.committed = retained
      BY <2>2 DEF OExecuteCycle, ExecuteCycle, OracleInv, Recorded, Unexecuted
    <3>5. /\ expected' = OracleStep(expected.committed, cycle'.snapshot,
                                    cycle'.fault)
          /\ retained' = retained
      BY <2>2 DEF OExecuteCycle, ExecuteCycle
    <3> QED
      BY <3>3, <3>4, <3>5 DEF OracleInv
  <2>3. CASE OCommitCycle
    <3>1. expected.committed = cycle.committed
      BY <2>3, RecordedMeets DEF OCommitCycle, CommitCycle, Recorded
    <3> QED
      BY <2>3, <3>1 DEF OCommitCycle, CommitCycle, OracleInv, Recorded
  <2>4. CASE UNCHANGED ovars
    BY <2>4 DEF ovars, OracleInv, Recorded
  <2> QED
    BY <2>1, <2>2, <2>3, <2>4 DEF ONext
<1>3. OSpec => []IInv
  BY OracleObserves, ResultIsCycleOfRetained, PTL
<1> QED
  BY <1>1, <1>2, <1>3, PTL DEF OSpec

(* MeetsExpectation: no snapshot, fault or history makes the result of the *)
(* reference interpreter differ from the one that the oracle froze         *)
(* (oracle_step, build_core_bundle).                                       *)
THEOREM OracleNeverDisagrees == OSpec => []MeetsExpectation
<1>1. IInv /\ OracleInv => MeetsExpectation
  BY RecordedMeets DEF MeetsExpectation
<1>2. OSpec => []IInv
  BY OracleObserves, ResultIsCycleOfRetained, PTL
<1> QED
  BY <1>1, <1>2, OracleInLockstep, PTL
=============================================================================
