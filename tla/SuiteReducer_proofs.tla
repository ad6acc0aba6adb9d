------------------------- MODULE SuiteReducer_proofs -------------------------
(***************************************************************************)
(* Proofs about SuiteReducer for every finite input suite and every finite *)
(* obligation document: the counters of the loop are the witnesses of the  *)
(* selected suite, the report always passes with every obligation          *)
(* sufficiently witnessed, the ranking leaves no tie, gains never          *)
(* increase, and the loop keeps the promise of WitnessMulticover.          *)
(***************************************************************************)
EXTENDS SuiteReducer, FiniteSetTheorems, SequenceTheorems,
        WellFoundedInduction, TLAPS

(* The obligations that a scenario newly covers are a finite set.          *)
LEMMA NewlyCoveredFinite ==
  ASSUME TypeOK, NEW s \in Scenarios
  PROVE  /\ IsFiniteSet(NewlyCovered(s))
         /\ NewlyCovered(s) \subseteq Obligations
         /\ Gain(s) \in Nat
         /\ Gain(s) > 0 <=> NewlyCovered(s) # {}
<1>1. NewlyCovered(s) \subseteq Obligations
  BY DEF NewlyCovered, TypeOK
<1>2. IsFiniteSet(NewlyCovered(s))
  BY <1>1, FS_Subset, ObligationsAssumption
<1>3. Cardinality(NewlyCovered(s)) \in Nat
  BY <1>2, FS_CardinalityType
<1>4. Cardinality(NewlyCovered(s)) = 0 <=> NewlyCovered(s) = {}
  BY <1>2, FS_EmptySet
<1> QED
  BY <1>1, <1>2, <1>3, <1>4 DEF Gain

(* Every step keeps the variables in their types.                          *)
THEOREM TypeCorrect == Spec => []TypeOK
<1>1. Init => TypeOK
  <2> SUFFICES ASSUME Init PROVE TypeOK
    OBVIOUS
  <2>1. counts \in [Obligations -> 0..2]
    BY DEF Init
  <2>2. trace \in Seq([scenario : Scenarios, gain : Nat])
    BY DEF Init
  <2>3. /\ wellFormed \in BOOLEAN
        /\ coverage \in [Scenarios -> SUBSET Obligations]
        /\ cycleCount \in [Scenarios -> 1..MaxCycles]
    BY Zenon DEF Init
  <2> QED
    BY <2>1, <2>2, <2>3 DEF Init, TypeOK, Phases
<1>2. TypeOK /\ [Next]_vars => TypeOK'
  <2> SUFFICES ASSUME TypeOK, [Next]_vars PROVE TypeOK'
    OBVIOUS
  <2>1. CASE Reject
    BY <2>1 DEF Reject, TypeOK, Phases
  <2>2. CASE Accept
    BY <2>2 DEF Accept, TypeOK, Phases
  <2>3. ASSUME NEW s \in Scenarios, Select(s) PROVE TypeOK'
    <3>1. Gain(s) \in Nat
      BY NewlyCoveredFinite
    <3>2. counts' \in [Obligations -> 0..2]
      <4>1. ASSUME NEW o \in Obligations PROVE CountsAfter(s)[o] \in 0..2
        BY DEF TypeOK, CountsAfter, NewlyCovered, Below, Required
      <4> QED
        BY <2>3, <4>1 DEF Select, CountsAfter
    <3>3. trace' \in Seq([scenario : Scenarios, gain : Nat])
      BY <2>3, <3>1 DEF Select, TypeOK
    <3> QED
      BY <2>3, <3>2, <3>3 DEF Select, TypeOK
  <2>4. CASE Report
    BY <2>4 DEF Report, TypeOK, Phases
  <2>5. CASE UNCHANGED vars
    BY <2>5 DEF vars, TypeOK
  <2> QED
    BY <2>1, <2>2, <2>3, <2>4, <2>5 DEF Next
<1> QED
  BY <1>1, <1>2, PTL DEF Spec

-----------------------------------------------------------------------------
(* Witnesses.                                                              *)

(* Witnesses of an obligation in a part of the input suite.                *)
LEMMA WitnessesFinite ==
  ASSUME NEW o, NEW S \in SUBSET Scenarios
  PROVE  /\ IsFiniteSet(Witnesses(o, S))
         /\ Cardinality(Witnesses(o, S)) \in Nat
<1>1. Witnesses(o, S) \subseteq Scenarios
  BY DEF Witnesses
<1>2. IsFiniteSet(Witnesses(o, S))
  BY <1>1, FS_Subset, ScenariosAssumption
<1> QED
  BY <1>2, FS_CardinalityType

(* Selecting one more scenario adds one witness to what it covers.         *)
LEMMA WitnessAdded ==
  ASSUME NEW o, NEW S \in SUBSET Scenarios, NEW s \in Scenarios \ S
  PROVE  Cardinality(Witnesses(o, S \cup {s})) =
           IF o \in coverage[s] THEN Cardinality(Witnesses(o, S)) + 1
                                ELSE Cardinality(Witnesses(o, S))
<1>1. IsFiniteSet(Witnesses(o, S)) /\ s \notin Witnesses(o, S)
  BY WitnessesFinite DEF Witnesses
<1>2. CASE o \in coverage[s]
  <2>1. Witnesses(o, S \cup {s}) = Witnesses(o, S) \cup {s}
    BY <1>2 DEF Witnesses
  <2> QED
    BY <1>1, <1>2, <2>1, FS_AddElement
<1>3. CASE o \notin coverage[s]
  <2>1. Witnesses(o, S \cup {s}) = Witnesses(o, S)
    BY <1>3 DEF Witnesses
  <2> QED
    BY <1>3, <2>1
<1> QED
  BY <1>2, <1>3

(* CountsAreWitnesses is inductive on its own.                             *)
THEOREM CountsCorrect == Spec => []CountsAreWitnesses
<1>1. Init => CountsAreWitnesses
  <2> SUFFICES ASSUME Init, NEW o \in Obligations
               PROVE  /\ counts[o] = 0
                      /\ Cardinality(Witnesses(o, Selected)) = 0
                      /\ Required(o) \in {1, 2}
    BY DEF CountsAreWitnesses
  <2>1. Witnesses(o, Selected) = {}
    BY DEF Init, Selected, Witnesses
  <2> QED
    BY <2>1, FS_EmptySet DEF Init, Required
<1>2. TypeOK /\ CountsAreWitnesses /\ [Next]_vars => CountsAreWitnesses'
  <2> SUFFICES ASSUME TypeOK, CountsAreWitnesses, [Next]_vars
               PROVE  CountsAreWitnesses'
    OBVIOUS
  <2>1. ASSUME NEW s \in Scenarios, Select(s)
        PROVE  CountsAreWitnesses'
    <3>1. s \in remaining /\ remaining' = remaining \ {s}
          /\ coverage' = coverage /\ counts' = CountsAfter(s)
      BY <2>1 DEF Select, IsChosen, Ranked
    <3>2. /\ Selected \in SUBSET Scenarios /\ s \in Scenarios \ Selected
          /\ Selected' = Selected \cup {s}
      BY <3>1 DEF Selected, TypeOK
    <3> SUFFICES ASSUME NEW o \in Obligations
                 PROVE  counts'[o] =
                          LET found == Cardinality(Witnesses(o, Selected))'
                          IN  IF found < Required(o) THEN found
                                                     ELSE Required(o)
      BY DEF CountsAreWitnesses, Required
    <3> DEFINE found == Cardinality(Witnesses(o, Selected))
    <3>3. Cardinality(Witnesses(o, Selected))' =
            IF o \in coverage[s] THEN found + 1 ELSE found
      <4>1. Witnesses(o, Selected)' = Witnesses(o, Selected \cup {s})
        BY <3>1, <3>2 DEF Witnesses
      <4> QED
        BY <3>2, <4>1, WitnessAdded
    <3>4. found \in Nat /\ Required(o) \in {1, 2}
      BY <3>2, WitnessesFinite DEF Required
    <3>5. counts[o] = IF found < Required(o) THEN found ELSE Required(o)
      BY DEF CountsAreWitnesses
    <3>6. counts'[o] = IF o \in coverage[s] /\ counts[o] < Required(o)
                       THEN counts[o] + 1 ELSE counts[o]
      BY <3>1 DEF CountsAfter, NewlyCovered, Below
    <3> HIDE DEF found
    <3> QED
      BY <3>3, <3>4, <3>5, <3>6
  <2>2. CASE UNCHANGED <<coverage, counts, remaining>>
    BY <2>2 DEF CountsAreWitnesses, Witnesses, Selected, Required
  <2> QED
    BY <2>1, <2>2 DEF Next, Reject, Accept, Report, vars
<1> QED
  BY <1>1, <1>2, TypeCorrect, PTL DEF Spec

-----------------------------------------------------------------------------
(* Nothing is selected before the check, and the input suite was accepted  *)
(* in every phase that follows it.                                         *)
AcceptedInput ==
  /\ phase = "checking" => remaining = Scenarios
  /\ phase \in {"selecting", "reported"} => wellFormed /\ Available

(* While an obligation lacks a witness, the accepted suite still holds a   *)
(* scenario with a positive gain: the break of the loop is unreachable.    *)
LEMMA RankingNotEmpty ==
  ASSUME TypeOK, CountsAreWitnesses, Available, Incomplete
  PROVE  Ranked # {}
<1>1. PICK o \in Obligations : counts[o] < Required(o)
  BY DEF Incomplete, Below
<1>2. Selected \in SUBSET Scenarios /\ Scenarios \in SUBSET Scenarios
  BY DEF Selected
<1>3. /\ Cardinality(Witnesses(o, Selected)) \in Nat
      /\ Cardinality(Witnesses(o, Scenarios)) \in Nat
      /\ Required(o) \in {1, 2}
  BY <1>2, WitnessesFinite DEF Required
<1>4. Cardinality(Witnesses(o, Selected)) < Required(o)
  BY <1>1, <1>3 DEF CountsAreWitnesses
<1>5. Cardinality(Witnesses(o, Scenarios)) >= Required(o)
  BY DEF Available
<1>6. Witnesses(o, Scenarios) # Witnesses(o, Selected)
  BY <1>3, <1>4, <1>5
<1>7. PICK s \in remaining : o \in coverage[s]
  BY <1>6 DEF Witnesses, Selected
<1>8. s \in Scenarios /\ o \in NewlyCovered(s)
  BY <1>1, <1>7 DEF NewlyCovered, Below, TypeOK
<1> QED
  BY <1>7, <1>8, NewlyCoveredFinite DEF Ranked

(* A complete count is a sufficient suite.                                 *)
LEMMA CompleteSuffices ==
  ASSUME CountsAreWitnesses, ~Incomplete
  PROVE  \A o \in Obligations :
           /\ counts[o] = Required(o)
           /\ Cardinality(Witnesses(o, Selected)) >= Required(o)
<1> SUFFICES ASSUME NEW o \in Obligations
             PROVE  /\ counts[o] = Required(o)
                    /\ Cardinality(Witnesses(o, Selected)) >= Required(o)
  OBVIOUS
<1>1. Cardinality(Witnesses(o, Selected)) \in Nat /\ Required(o) \in {1, 2}
  BY WitnessesFinite DEF Selected, Required
<1> QED
  BY <1>1 DEF Incomplete, Below, CountsAreWitnesses

(* The two phase invariants, together.                                     *)
PhaseInv == AcceptedInput /\ ReportedSuiteSuffices

(* PhaseInv for every input suite and obligation document.                 *)
THEOREM PhasesCorrect == Spec => []PhaseInv
<1> DEFINE I == AcceptedInput /\ ReportedSuiteSuffices
<1>1. Init => I
  BY DEF Init, AcceptedInput, ReportedSuiteSuffices
<1>2. TypeOK /\ CountsAreWitnesses /\ I /\ [Next]_vars => I'
  <2> SUFFICES ASSUME TypeOK, CountsAreWitnesses, I, [Next]_vars PROVE I'
    OBVIOUS
  <2>1. CASE Reject
    BY <2>1 DEF Reject, AcceptedInput, ReportedSuiteSuffices
  <2>2. CASE Accept
    BY <2>2 DEF Accept, AcceptedInput, ReportedSuiteSuffices, Available,
                Witnesses
  <2>3. ASSUME NEW s \in Scenarios, Select(s) PROVE I'
    BY <2>3 DEF Select, AcceptedInput, ReportedSuiteSuffices, Available,
                Witnesses
  <2>4. CASE Report
    <3>1. wellFormed /\ Available /\ ~Incomplete
      BY <2>4, RankingNotEmpty DEF Report, AcceptedInput
    <3>2. \A o \in Obligations :
            /\ counts[o] = Required(o)
            /\ Cardinality(Witnesses(o, Selected)) >= Required(o)
      BY <3>1, CompleteSuffices
    <3>3. \A o \in McdcIds : counts[o] >= 2
      BY <3>2, ObligationsAssumption DEF Required
    <3>4. passed' = TRUE
      BY <2>4, <3>1, <3>3 DEF Report
    <3>5. AcceptedInput'
      BY <2>4, <3>1 DEF Report, AcceptedInput, Available, Witnesses
    <3> QED
      BY <2>4, <3>2, <3>4, <3>5
         DEF Report, ReportedSuiteSuffices, Witnesses, Selected, Required
  <2>5. CASE UNCHANGED vars
    BY <2>5 DEF vars, AcceptedInput, ReportedSuiteSuffices, Available,
                Witnesses, Selected
  <2> QED
    BY <2>1, <2>2, <2>3, <2>4, <2>5 DEF Next
<1> QED
  BY <1>1, <1>2, TypeCorrect, CountsCorrect, PTL DEF Spec, PhaseInv

(* ReportedSuiteSuffices for every input suite and obligation document: no *)
(* accepted suite is ever reported incomplete.                             *)
THEOREM ReportCorrect == Spec => []ReportedSuiteSuffices
BY PhasesCorrect, PTL DEF PhaseInv
-----------------------------------------------------------------------------
(* The ranking and its gains.                                              *)

(* ChoiceUnique: the sort key orders any two candidates strictly.          *)
THEOREM ChoiceIsUnique == Spec => []ChoiceUnique
<1>1. TypeOK => ChoiceUnique
  <2> SUFFICES ASSUME TypeOK, NEW s \in remaining, NEW t \in remaining,
                      IsChosen(s), IsChosen(t)
               PROVE  s = t
    BY DEF ChoiceUnique
  <2>1. /\ s \in Int /\ t \in Int
        /\ cycleCount[s] \in Int /\ cycleCount[t] \in Int
    BY ScenariosAssumption DEF TypeOK
  <2>2. Gain(s) \in Nat /\ Gain(t) \in Nat
    BY NewlyCoveredFinite DEF TypeOK
  <2>3. ~Precedes(s, t) /\ ~Precedes(t, s)
    BY DEF IsChosen
  <2> QED
    BY <2>1, <2>2, <2>3 DEF Precedes
<1> QED
  BY <1>1, TypeCorrect, PTL

(* No remaining scenario would gain more than the last selection did.      *)
GainsBound ==
  /\ GainsNeverIncrease
  /\ trace # <<>> =>
       \A t \in remaining : Gain(t) <= trace[Len(trace)].gain

(* Selecting a scenario can only lower what the others would gain.         *)
LEMMA GainShrinks ==
  ASSUME TypeOK, NEW s \in Scenarios, Select(s), TypeOK',
         NEW t \in Scenarios
  PROVE  Gain(t)' <= Gain(t)
<1>1. NewlyCovered(t)' \subseteq NewlyCovered(t)
  <2> SUFFICES ASSUME NEW o \in coverage[t], counts'[o] < Required(o)
               PROVE  counts[o] < Required(o)
    BY DEF Select, NewlyCovered, Below, Required
  <2>1. o \in Obligations
    BY DEF TypeOK
  <2>2. counts[o] \in Int /\ Required(o) \in Int
    BY <2>1 DEF TypeOK, Required
  <2>3. counts'[o] = counts[o] + 1 \/ counts'[o] = counts[o]
    BY <2>1 DEF Select, CountsAfter
  <2> QED
    BY <2>2, <2>3
<1>2. IsFiniteSet(NewlyCovered(t))
  BY NewlyCoveredFinite
<1>3. Cardinality(NewlyCovered(t)') <= Cardinality(NewlyCovered(t))
  BY <1>1, <1>2, FS_Subset
<1> QED
  BY <1>3 DEF Gain

(* GainsNeverIncrease for every input suite.                               *)
THEOREM GainsMonotone == Spec => []GainsNeverIncrease
<1>1. Init => GainsBound
  BY DEF Init, GainsBound, GainsNeverIncrease
<1>2. TypeOK /\ TypeOK' /\ GainsBound /\ [Next]_vars => GainsBound'
  <2> SUFFICES ASSUME TypeOK, TypeOK', GainsBound, [Next]_vars
               PROVE  GainsBound'
    OBVIOUS
  <2>1. ASSUME NEW s \in Scenarios, Select(s) PROVE GainsBound'
    <3>1. /\ s \in remaining /\ remaining' = remaining \ {s}
          /\ trace' = Append(trace, [scenario |-> s, gain |-> Gain(s)])
      BY <2>1 DEF Select, IsChosen, Ranked
    <3>2. /\ trace \in Seq([scenario : Scenarios, gain : Nat])
          /\ Gain(s) \in Nat
      BY <2>1, NewlyCoveredFinite DEF TypeOK
    <3>3. /\ Len(trace') = Len(trace) + 1 /\ trace' # <<>>
          /\ trace'[Len(trace')].gain = Gain(s)
          /\ \A i \in 1..Len(trace) : trace'[i] = trace[i]
      BY <3>1, <3>2
    <3>4. \A i \in 1..Len(trace) : trace[i].gain \in Nat
      <4>1. \A i \in 1..Len(trace) :
              trace[i] \in [scenario : Scenarios, gain : Nat]
        BY <3>2, ElementOfSeq
      <4> QED
        BY <4>1
    <3>5. \A i \in 1..Len(trace) : Gain(s) <= trace[i].gain
      <4> SUFFICES ASSUME NEW i \in 1..Len(trace)
                   PROVE  Gain(s) <= trace[i].gain
        OBVIOUS
      <4>1. Gain(s) <= trace[Len(trace)].gain
        BY <3>1, <3>2 DEF GainsBound
      <4>2. i = Len(trace) \/ trace[i].gain >= trace[Len(trace)].gain
        BY <3>2 DEF GainsBound, GainsNeverIncrease
      <4> QED
        BY <3>2, <3>4, <4>1, <4>2
    <3>6. GainsNeverIncrease'
      <4> SUFFICES ASSUME NEW i \in DOMAIN trace', NEW j \in DOMAIN trace',
                          i < j
                   PROVE  trace'[i].gain >= trace'[j].gain
        BY DEF GainsNeverIncrease
      <4>1. i \in 1..Len(trace) /\ j \in 1..Len(trace')
        BY <3>1, <3>2, <3>3
      <4>2. CASE j = Len(trace')
        BY <3>3, <3>5, <4>1, <4>2
      <4>3. CASE j # Len(trace')
        <5>1. j \in 1..Len(trace)
          BY <3>2, <3>3, <4>1, <4>3
        <5> QED
          BY <3>2, <3>3, <4>1, <5>1 DEF GainsBound, GainsNeverIncrease
      <4> QED
        BY <4>2, <4>3
    <3>7. \A t \in remaining' : Gain(t)' <= Gain(s)
      <4> SUFFICES ASSUME NEW t \in remaining' PROVE Gain(t)' <= Gain(s)
        OBVIOUS
      <4>1. t \in remaining /\ t \in Scenarios
        BY <3>1 DEF TypeOK
      <4>2. Gain(t) \in Nat
        BY <4>1, NewlyCoveredFinite
      <4>3. Gain(t)' \in Nat
        <5>1. NewlyCovered(t)' \subseteq Obligations
          BY <4>1 DEF NewlyCovered, TypeOK
        <5>2. IsFiniteSet(NewlyCovered(t)')
          BY <5>1, FS_Subset, ObligationsAssumption
        <5> QED
          BY <5>2, FS_CardinalityType DEF Gain
      <4>4. Gain(t)' <= Gain(t)
        BY <2>1, <4>1, GainShrinks
      <4>5. Gain(t) <= Gain(s)
        <5>1. CASE Gain(t) > 0
          BY <2>1, <3>2, <4>1, <4>2, <5>1
             DEF Select, IsChosen, Ranked, Precedes
        <5> QED
          BY <3>2, <4>2, <5>1
      <4> QED
        BY <3>2, <4>2, <4>3, <4>4, <4>5
    <3> QED
      BY <3>3, <3>6, <3>7 DEF GainsBound
  <2>2. CASE UNCHANGED <<coverage, counts, remaining, trace>>
    BY <2>2 DEF GainsBound, GainsNeverIncrease, Gain, NewlyCovered, Below,
                Required
  <2> QED
    BY <2>1, <2>2 DEF Next, Reject, Accept, Report, vars
<1>3. GainsBound => GainsNeverIncrease
  BY DEF GainsBound
<1> QED
  BY <1>1, <1>2, <1>3, TypeCorrect, PTL DEF Spec

-----------------------------------------------------------------------------
(* The refinement of the promise.                                          *)

(* The promise counts without numbers: one witness, or two different ones. *)
LEMMA EnoughIsWitnessed ==
  ASSUME NEW o \in Obligations, NEW S \in SUBSET Scenarios
  PROVE  Cardinality(Witnesses(o, S)) >= Required(o)
         <=> Promise!Witnessed(o, S)
<1> DEFINE W == Witnesses(o, S)
<1>1. IsFiniteSet(W) /\ Cardinality(W) \in Nat
  BY WitnessesFinite
<1>2. Cardinality(W) >= 1 <=> \E s \in S : o \in coverage[s]
  <2>1. Cardinality(W) = 0 <=> W = {}
    BY <1>1, FS_EmptySet
  <2>2. W # {} <=> \E s \in S : o \in coverage[s]
    BY DEF Witnesses
  <2> HIDE DEF W
  <2> QED
    BY <1>1, <2>1, <2>2
<1>3. Cardinality(W) >= 2
      <=> \E s \in S : /\ o \in coverage[s]
                       /\ \E t \in S \ {s} : o \in coverage[t]
  <2>1. ASSUME NEW s \in W
        PROVE  /\ IsFiniteSet(W \ {s})
               /\ Cardinality(W \ {s}) = Cardinality(W) - 1
               /\ Cardinality(W \ {s}) \in Nat
               /\ Cardinality(W \ {s}) = 0 <=> W \ {s} = {}
    <3>1. IsFiniteSet(W \ {s}) /\ Cardinality(W \ {s}) = Cardinality(W) - 1
      BY <1>1, <2>1, FS_RemoveElement
    <3> QED
      BY <3>1, FS_CardinalityType, FS_EmptySet
  <2>2. ASSUME Cardinality(W) >= 2
        PROVE  \E s \in W : W \ {s} # {}
    <3>1. W # {}
      <4>1. Cardinality({}) = 0
        BY FS_EmptySet
      <4> HIDE DEF W
      <4> QED
        BY <2>2, <4>1
    <3>2. PICK s \in W : TRUE
      BY <3>1
    <3>3. Cardinality(W \ {s}) = Cardinality(W) - 1
          /\ (Cardinality(W \ {s}) = 0 <=> W \ {s} = {})
      BY <2>1
    <3> HIDE DEF W
    <3>4. W \ {s} # {}
      BY <1>1, <2>2, <3>3
    <3> QED
      BY <3>4
  <2>3. ASSUME NEW s \in W, W \ {s} # {}
        PROVE  Cardinality(W) >= 2
    <3>1. /\ Cardinality(W \ {s}) = Cardinality(W) - 1
          /\ Cardinality(W \ {s}) \in Nat
          /\ (Cardinality(W \ {s}) = 0 <=> W \ {s} = {})
      BY <2>1
    <3> HIDE DEF W
    <3> QED
      BY <1>1, <2>3, <3>1
  <2>4. (\E s \in W : W \ {s} # {})
        <=> \E s \in S : /\ o \in coverage[s]
                         /\ \E t \in S \ {s} : o \in coverage[t]
    BY DEF Witnesses
  <2> HIDE DEF W
  <2> QED
    BY <2>2, <2>3, <2>4
<1> QED
  BY <1>2, <1>3 DEF Required, Promise!Witnessed

(* An obligation still below its requirement lacks a witness.              *)
LEMMA BelowIsMissing ==
  ASSUME TypeOK, CountsAreWitnesses, NEW o \in Obligations, Below(o)
  PROVE  Cardinality(Witnesses(o, Selected)) < Required(o)
<1>1. Cardinality(Witnesses(o, Selected)) \in Nat /\ Required(o) \in {1, 2}
  BY WitnessesFinite DEF Selected, Required
<1> QED
  BY <1>1 DEF CountsAreWitnesses, Below

(* Every step of the reducer is a step of the promise or a stutter.        *)
LEMMA StepKeepsPromise ==
  ASSUME TypeOK, CountsAreWitnesses, AcceptedInput, [Next]_vars
  PROVE  [Promise!WNext]_(Promise!wvars)
<1>1. CASE Reject
  <2>1. ~wellFormed \/ ~Promise!Sufficient(Scenarios)
    BY <1>1, EnoughIsWitnessed DEF Reject, Available, Promise!Sufficient
  <2>2. Selected = {} /\ Selected' = Selected
    BY <1>1 DEF Reject, AcceptedInput, Selected
  <2>3. OutcomeOf(phase) = "open" /\ OutcomeOf(phase') = "refused"
    BY <1>1 DEF Reject, OutcomeOf
  <2> QED
    BY <1>1, <2>1, <2>2, <2>3 DEF Reject, Promise!WNext, Promise!Refuse
<1>2. CASE Accept
  <2>1. OutcomeOf(phase) = "open" /\ OutcomeOf(phase') = "open"
    BY <1>2 DEF Accept, OutcomeOf
  <2> QED
    BY <1>2, <2>1 DEF Accept, Promise!wvars, Selected
<1>3. ASSUME NEW s \in Scenarios, Select(s)
      PROVE  Promise!Add
  <2>1. /\ s \in remaining /\ Gain(s) > 0
        /\ remaining' = remaining \ {s} /\ phase = "selecting"
    BY <1>3 DEF Select, IsChosen, Ranked
  <2>2. s \in Scenarios \ Selected /\ Selected' = Selected \cup {s}
    BY <2>1 DEF Selected, TypeOK
  <2>3. PICK o \in coverage[s] : Below(o)
    BY <2>1, NewlyCoveredFinite DEF NewlyCovered
  <2>4. o \in Obligations
    BY <2>3 DEF TypeOK
  <2>5. Cardinality(Witnesses(o, Selected)) < Required(o)
    BY <2>3, <2>4, BelowIsMissing
  <2>6. Promise!Useful(s)
    <3>1. Cardinality(Witnesses(o, Selected)) \in Nat /\ Required(o) \in Nat
      BY WitnessesFinite DEF Selected, Required
    <3>2. ~Promise!Witnessed(o, Selected)
      BY <2>4, <2>5, <3>1, EnoughIsWitnessed DEF Selected
    <3> QED
      BY <2>3, <3>2 DEF Promise!Useful
  <2>7. OutcomeOf(phase) = "open" /\ wellFormed
    BY <2>1 DEF OutcomeOf, AcceptedInput
  <2> QED
    BY <1>3, <2>2, <2>6, <2>7 DEF Promise!Add, Select
<1>4. CASE Report
  <2>1. wellFormed /\ ~Incomplete
    BY <1>4, RankingNotEmpty DEF Report, AcceptedInput
  <2>2. Promise!Sufficient(Selected)
    BY <2>1, CompleteSuffices, EnoughIsWitnessed
       DEF Promise!Sufficient, Selected
  <2>3. OutcomeOf(phase) = "open" /\ OutcomeOf(phase') = "delivered"
    BY <1>4 DEF Report, OutcomeOf
  <2> QED
    BY <1>4, <2>1, <2>2, <2>3 DEF Report, Promise!Deliver, Promise!WNext, Selected
<1>5. CASE UNCHANGED vars
  BY <1>5 DEF vars, Promise!wvars, Selected
<1> QED
  BY <1>1, <1>2, <1>3, <1>4, <1>5 DEF Next, Promise!WNext

(* The greedy reduction implements WitnessMulticover for every input.      *)
THEOREM ReducerKeepsPromise == Spec => KeepsPromise
<1>1. Init => Promise!WInit
  <2> SUFFICES ASSUME Init PROVE Promise!WInit
    OBVIOUS
  <2>1. Selected = {} /\ OutcomeOf(phase) = "open"
    BY DEF Init, Selected, OutcomeOf
  <2> QED
    BY <2>1, Zenon DEF Init, Promise!WInit
<1>2. TypeOK /\ CountsAreWitnesses /\ PhaseInv /\ [Next]_vars
      => [Promise!WNext]_(Promise!wvars)
  BY StepKeepsPromise DEF PhaseInv
<1> QED
  BY <1>1, <1>2, TypeCorrect, CountsCorrect, PhasesCorrect, PTL
     DEF Spec, KeepsPromise, Promise!WSpec
-----------------------------------------------------------------------------
(* Progress.                                                               *)

(* A sort key that is transitive has a first scenario: of the sets of      *)
(* scenarios ranked before each one, take a smallest.                      *)
LEMMA FirstOfRanking ==
  ASSUME TypeOK, Ranked # {}
  PROVE  \E s \in Ranked : IsChosen(s)
<1> DEFINE Before(s) == {t \in Ranked : Precedes(t, s)}
           Sets == {Before(s) : s \in Ranked}
           Order == StrictSubsetOrdering(Scenarios)
<1>1. Ranked \subseteq Scenarios
  BY DEF Ranked, TypeOK
<1>2. \A s \in Ranked : Before(s) \in SUBSET Scenarios
  BY <1>1
<1>3. IsWellFoundedOn(Order, SUBSET Scenarios)
  BY FS_StrictSubsetOrderingWellFounded, FS_FiniteSubsetsOfFinite, ScenariosAssumption
<1>4. PICK B \in Sets : \A C \in Sets : <<C, B>> \notin Order
  <2>1. Sets \subseteq SUBSET Scenarios /\ Sets # {}
    BY <1>2
  <2> HIDE DEF Order, Sets
  <2> QED
    BY <1>3, <2>1, WFMin
<1>5. PICK s \in Ranked : B = Before(s)
  BY <1>4
<1>6. ASSUME NEW t \in Ranked, NEW u \in Ranked
      PROVE  /\ ~Precedes(t, t)
             /\ \A v \in Ranked : Precedes(v, u) /\ Precedes(u, t) => Precedes(v, t)
  <2>1. \A v \in Ranked : v \in Int /\ Gain(v) \in Int /\ cycleCount[v] \in Int
    BY <1>1, NewlyCoveredFinite, ScenariosAssumption DEF TypeOK
  <2> QED
    BY <2>1 DEF Precedes
<1>7. ASSUME NEW t \in Ranked, Precedes(t, s) PROVE FALSE
  <2>1. Before(t) \subseteq Before(s)
    BY <1>6, <1>7
  <2>2. t \in Before(s) /\ t \notin Before(t)
    BY <1>6, <1>7
  <2>3. <<Before(t), Before(s)>> \in Order
    BY <1>2, <2>1, <2>2 DEF StrictSubsetOrdering
  <2> QED
    BY <1>4, <1>5, <2>3
<1> QED
  BY <1>7 DEF IsChosen

(* As long as an obligation lacks a witness, the ranking of an accepted    *)
(* suite has a first scenario, and only one.                               *)
ChoiceExists ==
  phase = "selecting" /\ Incomplete =>
    \E s \in Ranked : \A t \in remaining : IsChosen(t) <=> t = s

(* ChoiceExists for every input suite and obligation document: the head of *)
(* the sorted list is well-defined in every iteration of reduce_suite.     *)
THEOREM ChoiceIsPossible == Spec => []ChoiceExists
<1>1. TypeOK /\ CountsAreWitnesses /\ PhaseInv /\ ChoiceUnique => ChoiceExists
  <2> SUFFICES ASSUME TypeOK, CountsAreWitnesses, PhaseInv, ChoiceUnique,
                      phase = "selecting", Incomplete
               PROVE  \E s \in Ranked : \A t \in remaining : IsChosen(t) <=> t = s
    BY DEF ChoiceExists
  <2>1. Ranked # {}
    BY RankingNotEmpty DEF PhaseInv, AcceptedInput
  <2>2. PICK s \in Ranked : IsChosen(s)
    BY <2>1, FirstOfRanking
  <2>3. s \in remaining
    BY DEF Ranked
  <2> QED
    BY <2>2, <2>3 DEF ChoiceUnique
<1> QED
  BY <1>1, TypeCorrect, CountsCorrect, PhasesCorrect, ChoiceIsUnique, PTL

(* What is left to do: the scenarios that may be selected, and the ends of *)
(* the checks and of the loop.                                             *)
Work ==
  Cardinality(remaining) + (CASE phase = "checking"  -> 2
                              [] phase = "selecting" -> 1
                              [] OTHER               -> 0)

(* Every step of reduce_suite takes work off a finite amount of it, so     *)
(* that the loop ends for every input suite.                               *)
WorkDecreases == [][Work' \in Nat /\ Work' < Work]_vars

(* WorkDecreases for every input suite and obligation document.            *)
THEOREM WorkIsBounded == Spec => WorkDecreases
<1>1. ASSUME TypeOK, [Next]_vars PROVE [Work' \in Nat /\ Work' < Work]_vars
  <2>1. IsFiniteSet(remaining) /\ Cardinality(remaining) \in Nat
    BY <1>1, ScenariosAssumption, FS_Subset, FS_CardinalityType DEF TypeOK
  <2>2. CASE Reject
    BY <2>1, <2>2 DEF Reject, Work
  <2>3. CASE Accept
    BY <2>1, <2>3 DEF Accept, Work
  <2>4. ASSUME NEW s \in Scenarios, Select(s) PROVE Work' \in Nat /\ Work' < Work
    <3>1. s \in remaining
      BY <2>4 DEF Select, IsChosen, Ranked
    <3>2. Cardinality(remaining \ {s}) = Cardinality(remaining) - 1
      BY <2>1, <3>1, FS_RemoveElement
    <3>3. Cardinality(remaining \ {s}) \in Nat
      BY <2>1, FS_RemoveElement, FS_CardinalityType
    <3> QED
      BY <2>1, <2>4, <3>2, <3>3 DEF Select, Work
  <2>5. CASE Report
    BY <2>1, <2>5 DEF Report, Work
  <2> QED
    BY <1>1, <2>2, <2>3, <2>4, <2>5 DEF Next
<1> QED
  BY <1>1, TypeCorrect, PTL DEF Spec, WorkDecreases

-----------------------------------------------------------------------------
(* The size of the reduced suite.                                          *)

(* The witness slots filled so far: the first of every obligation and the  *)
(* second of every MC/DC pair.                                             *)
FirstFilled == {o \in Obligations : counts[o] >= 1}
SecondFilled == {o \in McdcIds : counts[o] >= 2}

(* Every selected scenario has filled a slot of its own.                   *)
EachFillsASlot ==
  Cardinality(Selected) <= Cardinality(FirstFilled) + Cardinality(SecondFilled)

(* The greedy suite is never larger than the number of required witnesses, *)
(* whatever the size of the input suite.                                   *)
SizeBounded ==
  Cardinality(Selected) <= Cardinality(Obligations) + Cardinality(McdcIds)

(* The filled slots are finitely many.                                     *)
LEMMA FilledFinite ==
  /\ IsFiniteSet(FirstFilled) /\ IsFiniteSet(SecondFilled)
  /\ Cardinality(FirstFilled) \in Nat /\ Cardinality(SecondFilled) \in Nat
  /\ Cardinality(FirstFilled) <= Cardinality(Obligations)
  /\ Cardinality(SecondFilled) <= Cardinality(McdcIds)
  /\ Cardinality(Obligations) \in Nat /\ Cardinality(McdcIds) \in Nat
<1>1. IsFiniteSet(McdcIds)
  BY ObligationsAssumption, FS_Subset
<1>2. FirstFilled \subseteq Obligations /\ SecondFilled \subseteq McdcIds
  BY DEF FirstFilled, SecondFilled
<1>3. /\ IsFiniteSet(FirstFilled) /\ IsFiniteSet(SecondFilled)
      /\ Cardinality(FirstFilled) <= Cardinality(Obligations)
      /\ Cardinality(SecondFilled) <= Cardinality(McdcIds)
  BY <1>1, <1>2, ObligationsAssumption, FS_Subset
<1> QED
  BY <1>1, <1>3, ObligationsAssumption, FS_CardinalityType

(* A finite set within a finite one is the smaller, strictly so when an    *)
(* element is missing.                                                     *)
LEMMA Grows ==
  ASSUME NEW A, NEW B, IsFiniteSet(B), A \subseteq B
  PROVE  /\ Cardinality(A) <= Cardinality(B)
         /\ \A e \in B \ A : Cardinality(A) + 1 <= Cardinality(B)
<1>1. IsFiniteSet(A) /\ Cardinality(A) <= Cardinality(B)
  BY FS_Subset
<1>2. ASSUME NEW e \in B \ A PROVE Cardinality(A) + 1 <= Cardinality(B)
  <2>1. Cardinality(A \cup {e}) = Cardinality(A) + 1
    BY <1>1, <1>2, FS_AddElement
  <2>2. A \cup {e} \subseteq B
    BY <1>2
  <2>3. Cardinality(A \cup {e}) <= Cardinality(B)
    BY <2>2, FS_Subset
  <2> QED
    BY <2>1, <2>3
<1> QED
  BY <1>1, <1>2

(* A selection fills at least one slot and empties none.                   *)
LEMMA SelectionFills ==
  ASSUME TypeOK, TypeOK', NEW s \in Scenarios, Select(s)
  PROVE  Cardinality(FirstFilled) + Cardinality(SecondFilled) + 1
           <= Cardinality(FirstFilled') + Cardinality(SecondFilled')
<1>1. Gain(s) > 0 /\ counts' = CountsAfter(s)
  BY DEF Select, IsChosen, Ranked
<1>2. PICK o \in coverage[s] : Below(o)
  BY <1>1, NewlyCoveredFinite DEF NewlyCovered
<1>3. o \in Obligations /\ counts'[o] = counts[o] + 1
  BY <1>1, <1>2 DEF TypeOK, CountsAfter, NewlyCovered
<1>4. \A p \in Obligations : /\ counts[p] \in Int /\ counts'[p] \in Int
                             /\ counts'[p] >= counts[p]
  <2>1. \A p \in Obligations : counts[p] \in Int /\ counts'[p] \in Int
    BY DEF TypeOK
  <2> QED
    BY <1>1, <2>1 DEF CountsAfter
<1>5. FirstFilled \subseteq FirstFilled' /\ SecondFilled \subseteq SecondFilled'
  BY <1>4, ObligationsAssumption DEF FirstFilled, SecondFilled
<1>6. /\ IsFiniteSet(FirstFilled') /\ IsFiniteSet(SecondFilled')
      /\ FirstFilled' \subseteq Obligations
  <2>1. FirstFilled' \subseteq Obligations /\ SecondFilled' \subseteq Obligations
    BY ObligationsAssumption DEF FirstFilled, SecondFilled
  <2> QED
    BY <2>1, ObligationsAssumption, FS_Subset
<1>7. /\ Cardinality(FirstFilled) \in Nat /\ Cardinality(FirstFilled') \in Nat
      /\ Cardinality(SecondFilled) \in Nat /\ Cardinality(SecondFilled') \in Nat
  BY <1>6, FilledFinite, FS_CardinalityType
<1>8. /\ Cardinality(FirstFilled) <= Cardinality(FirstFilled')
      /\ Cardinality(SecondFilled) <= Cardinality(SecondFilled')
  BY <1>5, <1>6, Grows
<1>9. CASE counts[o] = 0
  <2>1. o \in FirstFilled' \ FirstFilled
    BY <1>3, <1>9 DEF FirstFilled
  <2>2. Cardinality(FirstFilled) + 1 <= Cardinality(FirstFilled')
    BY <1>5, <1>6, <2>1, Grows
  <2> QED
    BY <1>7, <1>8, <2>2
<1>10. CASE counts[o] # 0
  <2>1. o \in McdcIds /\ counts[o] = 1
    BY <1>2, <1>3, <1>4, <1>10 DEF TypeOK, Below, Required
  <2>2. o \in SecondFilled' \ SecondFilled
    BY <1>3, <2>1 DEF SecondFilled
  <2>3. Cardinality(SecondFilled) + 1 <= Cardinality(SecondFilled')
    BY <1>5, <1>6, <2>2, Grows
  <2> QED
    BY <1>7, <1>8, <2>3
<1> QED
  BY <1>9, <1>10

(* SizeBounded for every input suite and obligation document.              *)
THEOREM SuiteSizeBounded == Spec => []SizeBounded
<1>1. Init => EachFillsASlot
  <2> SUFFICES ASSUME Init PROVE Cardinality(Selected) = 0
    BY FilledFinite DEF EachFillsASlot
  <2>1. Selected = {}
    BY DEF Init, Selected
  <2> QED
    BY <2>1, FS_EmptySet
<1>2. TypeOK /\ TypeOK' /\ EachFillsASlot /\ [Next]_vars => EachFillsASlot'
  <2> SUFFICES ASSUME TypeOK, TypeOK', EachFillsASlot, [Next]_vars
               PROVE  EachFillsASlot'
    OBVIOUS
  <2>1. ASSUME NEW s \in Scenarios, Select(s) PROVE EachFillsASlot'
    <3>1. s \in remaining /\ remaining' = remaining \ {s}
      BY <2>1 DEF Select, IsChosen, Ranked
    <3>2. Selected' = Selected \cup {s} /\ s \notin Selected
      BY <3>1 DEF Selected, TypeOK
    <3>3. IsFiniteSet(Selected)
      BY FS_Subset, ScenariosAssumption DEF Selected
    <3>4. /\ Cardinality(Selected') = Cardinality(Selected) + 1
          /\ Cardinality(Selected) \in Nat
      BY <3>2, <3>3, FS_AddElement, FS_CardinalityType
    <3>5. Cardinality(FirstFilled) + Cardinality(SecondFilled) + 1
            <= Cardinality(FirstFilled') + Cardinality(SecondFilled')
      BY <2>1, SelectionFills
    <3>6. /\ Cardinality(FirstFilled') \in Nat
          /\ Cardinality(SecondFilled') \in Nat
      <4>1. FirstFilled' \subseteq Obligations /\ SecondFilled' \subseteq Obligations
        BY ObligationsAssumption DEF FirstFilled, SecondFilled
      <4> QED
        BY <4>1, ObligationsAssumption, FS_Subset, FS_CardinalityType
    <3> QED
      BY <3>4, <3>5, <3>6, FilledFinite DEF EachFillsASlot
  <2>2. CASE UNCHANGED <<counts, remaining>>
    BY <2>2 DEF EachFillsASlot, FirstFilled, SecondFilled, Selected
  <2> QED
    BY <2>1, <2>2 DEF Next, Reject, Accept, Report, vars
<1>3. EachFillsASlot => SizeBounded
  <2>1. IsFiniteSet(Selected)
    BY FS_Subset, ScenariosAssumption DEF Selected
  <2>2. Cardinality(Selected) \in Nat
    BY <2>1, FS_CardinalityType
  <2> QED
    BY <2>2, FilledFinite DEF EachFillsASlot, SizeBounded
<1> QED
  BY <1>1, <1>2, <1>3, TypeCorrect, PTL DEF Spec
=============================================================================
