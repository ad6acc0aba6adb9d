--------------------------- MODULE PowerRequirements ---------------------------
(***************************************************************************)
(* Requirements of src/examples/power-supervisor/requirements/             *)
(* requirements.json that the program of the power supervisor does not     *)
(* meet in every reachable cycle.  Each is stated as strictly as its text  *)
(* allows: only for valid snapshots, without a runtime fault and, where    *)
(* PWR-HLR-001 gives INITIALIZING rules of its own, outside of it.         *)
(***************************************************************************)
EXTENDS PowerSupervisor

VARIABLE mismatched  \* a mismatch persisted and no reset was granted since

rvars == <<retained, cycle, mismatched>>

(* What PWR-HLR-010 speaks of: a persisted mismatch of a committed cycle,  *)
(* until a cycle returns to NORMAL on an authorized, stable reset.         *)
MismatchAfter(c) ==
  IF c.snapshot.ContactorMismatchPersisted THEN TRUE
  ELSE IF c.committed.State = "NORMAL" /\ ResetGranted(c.snapshot) THEN FALSE
  ELSE mismatched

RInit == Init /\ mismatched = FALSE

RNext ==
  \/ StartScenario /\ mismatched' = FALSE
  \/ ExecuteCycle /\ UNCHANGED mismatched
  \/ CommitCycle /\ mismatched' = MismatchAfter(cycle)

RSpec == RInit /\ [][RNext]_rvars

NormalCycle ==
  /\ Recorded
  /\ cycle.snapshot.InputSetValid
  /\ ~cycle.fault
  /\ cycle.resident.State # "INITIALIZING"

(* PWR-HLR-010: "A persisted contactor mismatch shall latch a blocking     *)
(* fault and inhibit automatic return to NORMAL": no return without the    *)
(* reset while a mismatch is pending.                                      *)
NoAutomaticReturnAfterMismatch ==
  /\ NormalCycle
  /\ mismatched
  /\ cycle.resident.State # "NORMAL"
  /\ cycle.committed.State = "NORMAL"
  => ResetGranted(cycle.snapshot)

(* PWR-HLR-005: "When the main bus is critical, request immediate landing  *)
(* and nonessential-load shedding in the same logical cycle", for every    *)
(* cycle that ends outside INITIALIZING.                                   *)
CriticalBusAlwaysLands ==
  /\ Recorded
  /\ cycle.snapshot.InputSetValid
  /\ cycle.snapshot.MainBusCritical
  /\ ~cycle.fault
  /\ cycle.committed.State # "INITIALIZING"
  => /\ cycle.outputs.ImmediateLandingRequest
     /\ cycle.outputs.ShedNonessentialLoads
=============================================================================
