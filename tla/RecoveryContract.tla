--------------------------- MODULE RecoveryContract ---------------------------
(***************************************************************************)
(* What both supervisors promise about recovery, without their inputs and  *)
(* outputs (PWR-HLR-010 to 012, LINK-HLR-008 to 010 and LINK-HLR-014): a   *)
(* supervisor that left its operational mode because of a failure returns  *)
(* to it through a pending stage, or out of lockout, and only in a cycle   *)
(* whose environment granted the reset under stable conditions; lockout is *)
(* latched; and a latched fault is cleared by nothing but such a return.   *)
(* The two programs leave lockout differently.                             *)
(***************************************************************************)

CONSTANT Released  \* the modes a granted reset may lead to out of lockout

VARIABLES
  mode,     \* the supervisor's state, reduced to its role in recovery
  latched,  \* the blocking fault latch
  request   \* what the cycle in progress grants, "none" between cycles

cvars == <<mode, latched, request>>

Modes == {"starting", "operational", "restricted", "pending", "locked"}

Requests == {"none", "denied", "granted"}

ContractTypeOK ==
  /\ mode \in Modes
  /\ latched \in BOOLEAN
  /\ request \in Requests

(* The moves that need nothing of the environment's grant.                 *)
FreeMove(from, to) ==
  \/ from = "starting"    /\ to \in {"operational", "locked"}
  \/ from = "operational" /\ to \in {"restricted", "locked"}
  \/ from = "restricted"  /\ to \in {"pending", "locked"}
  \/ from = "pending"     /\ to \in {"restricted", "locked"}

GrantedMove(from, to) ==
  \/ from = "pending" /\ to = "operational"
  \/ from = "locked"  /\ to \in Released

CInit == mode = "starting" /\ latched = FALSE /\ request = "none"

(* A new scenario: the retained state is replaced.                         *)
Restart ==
  /\ request = "none"
  /\ mode' \in Modes
  /\ latched' \in BOOLEAN
  /\ UNCHANGED request

(* A snapshot is acquired for the next cycle.                              *)
Acquire ==
  /\ request = "none"
  /\ request' \in {"denied", "granted"}
  /\ UNCHANGED <<mode, latched>>

MoveAllowed ==
  \/ mode' = mode
  \/ FreeMove(mode, mode')
  \/ request = "granted" /\ GrantedMove(mode, mode')

LatchAllowed ==
  /\ latched' \in BOOLEAN
  /\ mode' = "locked" => latched'
  /\ latched /\ ~latched' =>
       request = "granted" /\ mode \in {"pending", "locked"}
                           /\ mode' = "operational"

(* The cycle's state is committed.                                         *)
Settle ==
  /\ request # "none"
  /\ request' = "none"
  /\ mode' \in Modes
  /\ MoveAllowed
  /\ LatchAllowed

CNext == Restart \/ Acquire \/ Settle

CSpec == CInit /\ [][CNext]_cvars
=============================================================================
