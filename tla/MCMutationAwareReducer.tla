------------------------ MODULE MCMutationAwareReducer ------------------------
(* An instance of MutationAwareReducer for TLC: every coverage of one      *)
(* ordinary obligation, one MC/DC pair and two mutants by three scenarios. *)
EXTENDS MutationAwareReducer

CONSTANTS o1, pair, m1, m2

ThreeScenarios == 1..3
TwoObligations == {o1, pair}
OnePair == {pair}
TwoMutants == {m1, m2}
=============================================================================
