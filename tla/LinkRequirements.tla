--------------------------- MODULE LinkRequirements ---------------------------
(***************************************************************************)
(* A requirement of src/examples/communication-link-supervisor/            *)
(* requirements/requirements.json that the program of the communication-   *)
(* link supervisor does not meet in every reachable cycle, stated for      *)
(* valid snapshots without a runtime fault.                                *)
(***************************************************************************)
EXTENDS CommunicationLinkSupervisor

NormalCycle ==
  Recorded /\ cycle.snapshot.InputSetValid /\ ~cycle.fault

(* LINK-HLR-003: "When the primary link is unavailable and the secondary   *)
(* link remains available, select the secondary link", for the cycles that *)
(* permit commands at all.                                                 *)
SecondarySelectedWhenPrimaryDown ==
  /\ NormalCycle
  /\ cycle.outputs.CommandPermit
  /\ ~cycle.snapshot.PrimaryLinkAvailable
  /\ cycle.snapshot.SecondaryLinkAvailable
  => cycle.outputs.UseSecondaryLink
=============================================================================
