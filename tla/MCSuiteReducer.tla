---------------------------- MODULE MCSuiteReducer ----------------------------
(* An instance of SuiteReducer for TLC: every coverage of two ordinary     *)
(* obligations and one MC/DC pair by four scenarios of one or two cycles.  *)
EXTENDS SuiteReducer

CONSTANTS o1, o2, pair

FourScenarios == 1..4
ThreeObligations == {o1, o2, pair}
OnePair == {pair}
=============================================================================
