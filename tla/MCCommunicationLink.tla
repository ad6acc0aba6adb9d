------------------------- MODULE MCCommunicationLink -------------------------
(* Instances of CommunicationLinkSupervisor for TLC. *)
EXTENDS CommunicationLinkSupervisor

AnyScenarioState == RetainedStates
=============================================================================
