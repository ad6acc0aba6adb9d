-------------------------- MODULE MCBoundedSynthesis --------------------------
(* Instances of BoundedSynthesis for TLC: four states, one input vector    *)
(* with every transition function, the cycles that the executor refuses    *)
(* included, and a blocking fault whose policy assigns one state, or is    *)
(* refused.  Entering s3 hits o1; a fault in s2 hits o2; o3 is hit in s1   *)
(* and s3; an MC/DC pair is observed in s1 and outside it.                 *)
EXTENDS BoundedSynthesis

CONSTANTS s0, s1, s2, s3, o1, o2, o3, pair, true, false

FourStates == {s0, s1, s2, s3}
ThreeObligations == {o1, o2, o3}
TwoObservations == {true, false}

(* Ample bounds, then each bound in the way of a search, then bounds that  *)
(* validate_domain refuses.                                                *)
SearchBounds ==
  {[depth |-> 4, states |-> 4, transitions |-> 8],
   [depth |-> 1, states |-> 4, transitions |-> 8],
   [depth |-> 2, states |-> 4, transitions |-> 8],
   [depth |-> 4, states |-> 2, transitions |-> 8],
   [depth |-> 4, states |-> 3, transitions |-> 8],
   [depth |-> 4, states |-> 4, transitions |-> 5],
   [depth |-> 4, states |-> 4, transitions |-> 3]}

EventsOf(state, candidate, reached) ==
  {e \in ThreeObligations \cup TwoObservations :
     \/ e = o1 /\ reached = s3
     \/ e = o2 /\ state = s2 /\ candidate = 2
     \/ e = o3 /\ state \in {s1, s3}
     \/ e = true /\ state = s1 /\ candidate = 1
     \/ e = false /\ state # s1}

ProgramOf(normal, faulted) ==
  LET next == [cell \in FourStates \X (1..2) |->
                 IF cell[2] = 1 THEN normal[cell[1]] ELSE faulted]
  IN  [next |-> next,
       events |-> [cell \in FourStates \X (1..2) |->
                     EventsOf(cell[1], cell[2], next[cell])],
       initial |-> s0, vectors |-> 1,
       direct |-> ThreeObligations, mcdc |-> {pair},
       pairs |-> [m \in {pair} |-> {TwoObservations}],
       documents |-> BOOLEAN, bounds |-> SearchBounds]

AllPrograms ==
  {ProgramOf(normal, faulted) :
     normal \in [FourStates -> FourStates \cup {Raised}],
     faulted \in FourStates \cup {Raised}}
=============================================================================
