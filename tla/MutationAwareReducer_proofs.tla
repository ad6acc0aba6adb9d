--------------------- MODULE MutationAwareReducer_proofs ---------------------
(***************************************************************************)
(* Proofs about MutationAwareReducer for every finite input suite,         *)
(* obligation document and set of controlled mutants: the loop's progress  *)
(* is real, the report always passes with every obligation witnessed and   *)
(* every mutant detected, the ranking leaves no tie, gains never increase, *)
(* and the loop keeps the promise of WitnessMulticover.                    *)
(***************************************************************************)
EXTENDS MutationAwareReducer, FiniteSetTheorems, SequenceTheorems,
        WellFoundedInduction, TLAPS

(* What a scenario newly covers and newly kills are finite sets.           *)
LEMMA GainsFinite ==
  ASSUME TypeOK, NEW s \in Scenarios
  PROVE  /\ IsFiniteSet(NewObligations(s)) /\ IsFiniteSet(NewMutants(s))
         /\ ObligationGain(s) \in Nat /\ MutationGain(s) \in Nat
         /\ TotalGain(s) \in Nat
         /\ TotalGain(s) > 0 <=>
              NewObligations(s) # {} \/ NewMutants(s) # {}
<1>1. NewObligations(s) \subseteq Obligations /\ NewMutants(s) \subseteq Mutants
  BY DEF NewObligations, NewMutants, TypeOK
<1>2. IsFiniteSet(NewObligations(s)) /\ IsFiniteSet(NewMutants(s))
  BY <1>1, FS_Subset, ObligationsAssumption, MutantsAssumption
<1>3. ObligationGain(s) \in Nat /\ MutationGain(s) \in Nat
  BY <1>2, FS_CardinalityType DEF ObligationGain, MutationGain
<1>4. /\ ObligationGain(s) = 0 <=> NewObligations(s) = {}
      /\ MutationGain(s) = 0 <=> NewMutants(s) = {}
  BY <1>2, FS_EmptySet DEF ObligationGain, MutationGain
<1> QED
  BY <1>2, <1>3, <1>4 DEF TotalGain

(* Every step keeps the variables in their types.                          *)
THEOREM TypeCorrect == Spec => []TypeOK
<1>1. Init => TypeOK
  <2> SUFFICES ASSUME Init PROVE TypeOK
    OBVIOUS
  <2>1. counts \in [Obligations -> 0..2]
    BY DEF Init
  <2>2. trace \in Seq([scenario : Scenarios, gain : Nat])
    BY DEF Init
  <2>3. /\ wellFormed \in BOOLEAN
        /\ obligations \in [Scenarios -> SUBSET Obligations]
        /\ mutants \in [Scenarios -> SUBSET Mutants]
        /\ cycleCount \in [Scenarios -> 1..MaxCycles]
    BY Zenon DEF Init
  <2> QED
    BY <2>1, <2>2, <2>3 DEF Init, TypeOK
<1>2. TypeOK /\ [Next]_vars => TypeOK'
  <2> SUFFICES ASSUME TypeOK, [Next]_vars PROVE TypeOK'
    OBVIOUS
  <2>1. CASE Reject
    BY <2>1 DEF Reject, inputs, progress, TypeOK
  <2>2. CASE Accept
    BY <2>2 DEF Accept, inputs, progress, TypeOK
  <2>3. ASSUME NEW s \in Scenarios, Select(s) PROVE TypeOK'
    <3>1. TotalGain(s) \in Nat
      BY GainsFinite
    <3>2. counts' \in [Obligations -> 0..2]
      <4>1. ASSUME NEW o \in Obligations PROVE CountsAfter(s)[o] \in 0..2
        BY DEF TypeOK, CountsAfter, NewObligations, Below, Required
      <4> QED
        BY <2>3, <4>1 DEF Select, CountsAfter
    <3>3. trace' \in Seq([scenario : Scenarios, gain : Nat])
      BY <2>3, <3>1 DEF Select, TypeOK
    <3>4. killed' \in SUBSET Mutants
      BY <2>3 DEF Select, KilledAfter, NewMutants, TypeOK
    <3> QED
      BY <2>3, <3>2, <3>3, <3>4 DEF Select, inputs, TypeOK
  <2>4. CASE Report
    BY <2>4 DEF Report, inputs, progress, TypeOK
  <2>5. CASE UNCHANGED vars
    BY <2>5 DEF vars, inputs, progress, TypeOK
  <2> QED
    BY <2>1, <2>2, <2>3, <2>4, <2>5 DEF Next
<1> QED
  BY <1>1, <1>2, PTL DEF Spec

-----------------------------------------------------------------------------
(* Witnesses.                                                              *)

(* Witnesses of an obligation in a part of the input suite.                *)
LEMMA WitnessesFinite ==
  ASSUME NEW o, NEW S \in SUBSET Scenarios
  PROVE  /\ IsFiniteSet(Witnesses(o, S))
         /\ Cardinality(Witnesses(o, S)) \in Nat
<1>1. Witnesses(o, S) \subseteq Scenarios
  BY DEF Witnesses
<1>2. IsFiniteSet(Witnesses(o, S))
  BY <1>1, FS_Subset, ScenariosAssumption
<1> QED
  BY <1>2, FS_CardinalityType

(* Selecting one more scenario adds one witness to what it covers.         *)
LEMMA WitnessAdded ==
  ASSUME NEW o, NEW S \in SUBSET Scenarios, NEW s \in Scenarios \ S
  PROVE  Cardinality(Witnesses(o, S \cup {s})) =
           IF o \in obligations[s] THEN Cardinality(Witnesses(o, S)) + 1
                                ELSE Cardinality(Witnesses(o, S))
<1>1. IsFiniteSet(Witnesses(o, S)) /\ s \notin Witnesses(o, S)
  BY WitnessesFinite DEF Witnesses
<1>2. CASE o \in obligations[s]
  <2>1. Witnesses(o, S \cup {s}) = Witnesses(o, S) \cup {s}
    BY <1>2 DEF Witnesses
  <2> QED
    BY <1>1, <1>2, <2>1, FS_AddElement
<1>3. CASE o \notin obligations[s]
  <2>1. Witnesses(o, S \cup {s}) = Witnesses(o, S)
    BY <1>3 DEF Witnesses
  <2> QED
    BY <1>3, <2>1
<1> QED
  BY <1>2, <1>3

(* The two parts of ProgressIsReal.                                        *)
CountsReal ==
  \A o \in Obligations :
    LET found == Cardinality(Witnesses(o, Selected))
    IN  counts[o] = IF found < Required(o) THEN found ELSE Required(o)

KillsReal == killed = Detected(Selected)

(* A selection keeps the counters equal to the witnesses.                  *)
LEMMA SelectCounts ==
  ASSUME TypeOK, CountsReal, NEW s \in Scenarios, Select(s)
  PROVE  CountsReal'
<1>1. s \in remaining /\ remaining' = remaining \ {s}
      /\ obligations' = obligations /\ counts' = CountsAfter(s)
  BY DEF Select, IsChosen, Ranked, inputs
<1>2. /\ Selected \in SUBSET Scenarios /\ s \in Scenarios \ Selected
      /\ Selected' = Selected \cup {s}
  BY <1>1 DEF Selected, TypeOK
<1> SUFFICES ASSUME NEW o \in Obligations
             PROVE  counts'[o] =
                      LET found == Cardinality(Witnesses(o, Selected))'
                      IN  IF found < Required(o) THEN found
                                                 ELSE Required(o)
  BY DEF CountsReal, Required
<1> DEFINE found == Cardinality(Witnesses(o, Selected))
<1>3. Cardinality(Witnesses(o, Selected))' =
        IF o \in obligations[s] THEN found + 1 ELSE found
  <2>1. Witnesses(o, Selected)' = Witnesses(o, Selected \cup {s})
    BY <1>1, <1>2 DEF Witnesses
  <2> QED
    BY <1>2, <2>1, WitnessAdded
<1>4. found \in Nat /\ Required(o) \in {1, 2}
  BY <1>2, WitnessesFinite DEF Required
<1>5. counts[o] = IF found < Required(o) THEN found ELSE Required(o)
  BY DEF CountsReal
<1>6. counts'[o] = IF o \in obligations[s] /\ counts[o] < Required(o)
                   THEN counts[o] + 1 ELSE counts[o]
  BY <1>1 DEF CountsAfter, NewObligations, Below
<1> HIDE DEF found
<1> QED
  BY <1>3, <1>4, <1>5, <1>6

(* A selection keeps the killed mutants equal to the detected ones.        *)
LEMMA SelectKills ==
  ASSUME TypeOK, KillsReal, NEW s \in Scenarios, Select(s)
  PROVE  KillsReal'
<1>1. /\ s \in remaining /\ remaining' = remaining \ {s}
      /\ mutants' = mutants /\ killed' = killed \cup (mutants[s] \ killed)
  BY DEF Select, IsChosen, Ranked, inputs, KilledAfter, NewMutants
<1>2. Selected' = Selected \cup {s}
  BY <1>1 DEF Selected, TypeOK
<1>3. Detected(Selected)' = Detected(Selected) \cup mutants[s]
  BY <1>1, <1>2 DEF Detected
<1> QED
  BY <1>1, <1>3 DEF KillsReal

(* ProgressIsReal is inductive on its own.                                 *)
THEOREM ProgressCorrect == Spec => []ProgressIsReal
<1> USE DEF inputs, progress
<1>1. Init => CountsReal /\ KillsReal
  <2> SUFFICES ASSUME Init PROVE CountsReal /\ KillsReal
    OBVIOUS
  <2>1. Selected = {}
    BY DEF Init, Selected
  <2>2. KillsReal
    BY <2>1 DEF Init, KillsReal, Detected
  <2>3. ASSUME NEW o \in Obligations
        PROVE  /\ counts[o] = 0
               /\ Cardinality(Witnesses(o, Selected)) = 0
               /\ Required(o) \in {1, 2}
    <3>1. Witnesses(o, Selected) = {}
      BY <2>1 DEF Witnesses
    <3> QED
      BY <3>1, FS_EmptySet DEF Init, Required
  <2> QED
    BY <2>2, <2>3 DEF CountsReal
<1>2. TypeOK /\ CountsReal /\ KillsReal /\ [Next]_vars
      => CountsReal' /\ KillsReal'
  <2> SUFFICES ASSUME TypeOK, CountsReal, KillsReal, [Next]_vars
               PROVE  CountsReal' /\ KillsReal'
    OBVIOUS
  <2>1. ASSUME NEW s \in Scenarios, Select(s)
        PROVE  CountsReal' /\ KillsReal'
    BY <2>1, SelectCounts, SelectKills
  <2>2. CASE UNCHANGED <<obligations, mutants, counts, killed, remaining>>
    BY <2>2 DEF CountsReal, KillsReal, Detected, Witnesses, Selected, Required
  <2> QED
    BY <2>1, <2>2 DEF Next, Reject, Accept, Report, vars
<1>3. ProgressIsReal <=> CountsReal /\ KillsReal
  BY DEF ProgressIsReal, CountsReal, KillsReal
<1> QED
  BY <1>1, <1>2, <1>3, TypeCorrect, PTL DEF Spec

-----------------------------------------------------------------------------
(* Nothing is selected before the check, and the input suite was accepted  *)
(* in every phase that follows it.                                         *)
AcceptedInput ==
  /\ phase = "checking" => remaining = Scenarios
  /\ phase \in {"selecting", "reported"} => wellFormed /\ Available

(* While a slot lacks a witness, the accepted suite still holds a scenario *)
(* with a positive gain: the break of the loop is unreachable.             *)
LEMMA RankingNotEmpty ==
  ASSUME TypeOK, ProgressIsReal, Available, Incomplete
  PROVE  Ranked # {}
<1>1. CASE \E o \in Obligations : Below(o)
  <2>1. PICK o \in Obligations : counts[o] < Required(o)
    BY <1>1 DEF Below
  <2>2. Selected \in SUBSET Scenarios /\ Scenarios \in SUBSET Scenarios
    BY DEF Selected
  <2>3. /\ Cardinality(Witnesses(o, Selected)) \in Nat
        /\ Cardinality(Witnesses(o, Scenarios)) \in Nat
        /\ Required(o) \in {1, 2}
    BY <2>2, WitnessesFinite DEF Required
  <2>4. Cardinality(Witnesses(o, Selected)) < Required(o)
    BY <2>1, <2>3 DEF ProgressIsReal
  <2>5. Cardinality(Witnesses(o, Scenarios)) >= Required(o)
    BY DEF Available
  <2>6. Witnesses(o, Scenarios) # Witnesses(o, Selected)
    BY <2>3, <2>4, <2>5
  <2>7. PICK s \in remaining : o \in obligations[s]
    BY <2>6 DEF Witnesses, Selected
  <2>8. s \in Scenarios /\ o \in NewObligations(s)
    BY <2>1, <2>7 DEF NewObligations, Below, TypeOK
  <2> QED
    BY <2>7, <2>8, GainsFinite DEF Ranked
<1>2. CASE Cardinality(killed) < Cardinality(Mutants)
  <2>1. IsFiniteSet(Mutants) /\ Cardinality(Mutants) \in Nat
    BY MutantsAssumption, FS_CardinalityType
  <2>2. killed # Mutants
    BY <1>2, <2>1
  <2>3. PICK m \in Mutants : m \notin killed
    BY <2>2 DEF TypeOK
  <2>4. PICK s \in Scenarios : m \in mutants[s]
    BY DEF Available, Detected
  <2>5. s \in remaining
    BY <2>3, <2>4 DEF ProgressIsReal, Detected, Selected
  <2>6. m \in NewMutants(s)
    BY <2>3, <2>4 DEF NewMutants
  <2> QED
    BY <2>4, <2>5, <2>6, GainsFinite DEF Ranked
<1> QED
  BY <1>1, <1>2 DEF Incomplete

(* A complete loop is a sufficient suite that kills every mutant.          *)
LEMMA CompleteSuffices ==
  ASSUME TypeOK, ProgressIsReal, ~Incomplete
  PROVE  /\ \A o \in Obligations :
              Cardinality(Witnesses(o, Selected)) >= Required(o)
         /\ killed = Mutants
         /\ Detected(Selected) = Mutants
<1>1. ASSUME NEW o \in Obligations
      PROVE  Cardinality(Witnesses(o, Selected)) >= Required(o)
  <2>1. Cardinality(Witnesses(o, Selected)) \in Nat /\ Required(o) \in {1, 2}
    BY WitnessesFinite DEF Selected, Required
  <2> QED
    BY <2>1 DEF Incomplete, Below, ProgressIsReal
<1>2. killed = Mutants
  <2>1. /\ IsFiniteSet(killed)
        /\ Cardinality(killed) <= Cardinality(Mutants)
        /\ Cardinality(Mutants) = Cardinality(killed) => Mutants = killed
    BY MutantsAssumption, FS_Subset DEF TypeOK
  <2>2. Cardinality(killed) \in Nat /\ Cardinality(Mutants) \in Nat
    BY <2>1, MutantsAssumption, FS_CardinalityType
  <2> QED
    BY <2>1, <2>2 DEF Incomplete
<1> QED
  BY <1>1, <1>2 DEF ProgressIsReal

(* The two phase invariants, together.                                     *)
PhaseInv == AcceptedInput /\ ReportedSuiteSuffices

(* PhaseInv for every input suite, obligation document and mutant set.     *)
THEOREM PhasesCorrect == Spec => []PhaseInv
<1> USE DEF inputs, progress
<1>1. Init => PhaseInv
  BY DEF Init, PhaseInv, AcceptedInput, ReportedSuiteSuffices
<1>2. TypeOK /\ ProgressIsReal /\ PhaseInv /\ [Next]_vars => PhaseInv'
  <2> SUFFICES ASSUME TypeOK, ProgressIsReal, PhaseInv, [Next]_vars
               PROVE  PhaseInv'
    OBVIOUS
  <2> USE DEF PhaseInv, AcceptedInput, ReportedSuiteSuffices
  <2>1. CASE Reject
    BY <2>1 DEF Reject
  <2>2. CASE Accept
    BY <2>2 DEF Accept, Available, Witnesses, Detected
  <2>3. ASSUME NEW s \in Scenarios, Select(s) PROVE PhaseInv'
    BY <2>3 DEF Select, Available, Witnesses, Detected
  <2>4. CASE Report
    <3>1. wellFormed /\ Available /\ ~Incomplete
      BY <2>4, RankingNotEmpty DEF Report
    <3>2. /\ \A o \in Obligations :
               Cardinality(Witnesses(o, Selected)) >= Required(o)
          /\ killed = Mutants
          /\ Mutants \subseteq Detected(Selected)
      BY <3>1, CompleteSuffices
    <3>3. passed' = TRUE
      BY <2>4, <3>1, <3>2 DEF Report, Incomplete
    <3>4. AcceptedInput'
      BY <2>4, <3>1 DEF Report, Available, Witnesses, Detected
    <3>5. ReportedSuiteSuffices'
      BY <2>4, <3>2, <3>3 DEF Report, Witnesses, Detected, Selected, Required
    <3> QED
      BY <3>4, <3>5
  <2>5. CASE UNCHANGED vars
    BY <2>5 DEF vars, Available, Witnesses, Detected, Selected
  <2> QED
    BY <2>1, <2>2, <2>3, <2>4, <2>5 DEF Next
<1> QED
  BY <1>1, <1>2, TypeCorrect, ProgressCorrect, PTL DEF Spec

(* ReportedSuiteSuffices for every input suite and obligation document: no *)
(* accepted suite is ever reported incomplete.                             *)
THEOREM ReportCorrect == Spec => []ReportedSuiteSuffices
BY PhasesCorrect, PTL DEF PhaseInv
-----------------------------------------------------------------------------
(* The ranking and its gains.                                              *)

(* ChoiceUnique: the sort key orders any two candidates strictly.          *)
THEOREM ChoiceIsUnique == Spec => []ChoiceUnique
<1>1. TypeOK => ChoiceUnique
  <2> SUFFICES ASSUME TypeOK, NEW s \in remaining, NEW t \in remaining,
                      IsChosen(s), IsChosen(t)
               PROVE  s = t
    BY DEF ChoiceUnique
  <2>1. /\ s \in Int /\ t \in Int
        /\ cycleCount[s] \in Int /\ cycleCount[t] \in Int
    BY ScenariosAssumption DEF TypeOK
  <2>2. /\ TotalGain(s) \in Nat /\ TotalGain(t) \in Nat
        /\ MutationGain(s) \in Nat /\ MutationGain(t) \in Nat
    BY GainsFinite DEF TypeOK
  <2>3. ~Precedes(s, t) /\ ~Precedes(t, s)
    BY DEF IsChosen
  <2> QED
    BY <2>1, <2>2, <2>3 DEF Precedes
<1> QED
  BY <1>1, TypeCorrect, PTL

(* No remaining scenario would gain more than the last selection did.      *)
GainsBound ==
  /\ GainsNeverIncrease
  /\ trace # <<>> =>
       \A t \in remaining : TotalGain(t) <= trace[Len(trace)].gain

(* Selecting a scenario can only lower what the others would gain.         *)
LEMMA GainShrinks ==
  ASSUME TypeOK, NEW s \in Scenarios, Select(s), TypeOK',
         NEW t \in Scenarios
  PROVE  TotalGain(t)' \in Nat /\ TotalGain(t)' <= TotalGain(t)
<1>1. NewObligations(t)' \subseteq NewObligations(t)
  <2> SUFFICES ASSUME NEW o \in obligations[t], counts'[o] < Required(o)
               PROVE  counts[o] < Required(o)
    BY DEF Select, inputs, NewObligations, Below, Required
  <2>1. o \in Obligations
    BY DEF TypeOK
  <2>2. counts[o] \in Int /\ Required(o) \in Int
    BY <2>1 DEF TypeOK, Required
  <2>3. counts'[o] = counts[o] + 1 \/ counts'[o] = counts[o]
    BY <2>1 DEF Select, CountsAfter
  <2> QED
    BY <2>2, <2>3
<1>2. NewMutants(t)' \subseteq NewMutants(t)
  BY DEF Select, inputs, KilledAfter, NewMutants
<1>3. IsFiniteSet(NewObligations(t)) /\ IsFiniteSet(NewMutants(t))
  BY GainsFinite
<1>4. /\ IsFiniteSet(NewObligations(t)') /\ IsFiniteSet(NewMutants(t)')
      /\ Cardinality(NewObligations(t)') <= Cardinality(NewObligations(t))
      /\ Cardinality(NewMutants(t)') <= Cardinality(NewMutants(t))
  BY <1>1, <1>2, <1>3, FS_Subset
<1>5. /\ Cardinality(NewObligations(t)') \in Nat
      /\ Cardinality(NewMutants(t)') \in Nat
      /\ Cardinality(NewObligations(t)) \in Nat
      /\ Cardinality(NewMutants(t)) \in Nat
  BY <1>3, <1>4, FS_CardinalityType
<1> QED
  BY <1>4, <1>5 DEF TotalGain, ObligationGain, MutationGain

(* GainsNeverIncrease for every input suite.                               *)
THEOREM GainsMonotone == Spec => []GainsNeverIncrease
<1>1. Init => GainsBound
  BY DEF Init, GainsBound, GainsNeverIncrease
<1>2. TypeOK /\ TypeOK' /\ GainsBound /\ [Next]_vars => GainsBound'
  <2> SUFFICES ASSUME TypeOK, TypeOK', GainsBound, [Next]_vars
               PROVE  GainsBound'
    OBVIOUS
  <2>1. ASSUME NEW s \in Scenarios, Select(s) PROVE GainsBound'
    <3>1. /\ s \in remaining /\ remaining' = remaining \ {s}
          /\ trace' = Append(trace, [scenario |-> s, gain |-> TotalGain(s)])
      BY <2>1 DEF Select, IsChosen, Ranked
    <3>2. /\ trace \in Seq([scenario : Scenarios, gain : Nat])
          /\ TotalGain(s) \in Nat
      BY <2>1, GainsFinite DEF TypeOK
    <3>3. /\ Len(trace') = Len(trace) + 1 /\ trace' # <<>>
          /\ trace'[Len(trace')].gain = TotalGain(s)
          /\ \A i \in 1..Len(trace) : trace'[i] = trace[i]
      BY <3>1, <3>2
    <3>4. \A i \in 1..Len(trace) : trace[i].gain \in Nat
      <4>1. \A i \in 1..Len(trace) :
              trace[i] \in [scenario : Scenarios, gain : Nat]
        BY <3>2, ElementOfSeq
      <4> QED
        BY <4>1
    <3>5. \A i \in 1..Len(trace) : TotalGain(s) <= trace[i].gain
      <4> SUFFICES ASSUME NEW i \in 1..Len(trace)
                   PROVE  TotalGain(s) <= trace[i].gain
        OBVIOUS
      <4>1. TotalGain(s) <= trace[Len(trace)].gain
        BY <3>1, <3>2 DEF GainsBound
      <4>2. i = Len(trace) \/ trace[i].gain >= trace[Len(trace)].gain
        BY <3>2 DEF GainsBound, GainsNeverIncrease
      <4> QED
        BY <3>2, <3>4, <4>1, <4>2
    <3>6. GainsNeverIncrease'
      <4> SUFFICES ASSUME NEW i \in DOMAIN trace', NEW j \in DOMAIN trace',
                          i < j
                   PROVE  trace'[i].gain >= trace'[j].gain
        BY DEF GainsNeverIncrease
      <4>1. i \in 1..Len(trace) /\ j \in 1..Len(trace')
        BY <3>1, <3>2, <3>3
      <4>2. CASE j = Len(trace')
        BY <3>3, <3>5, <4>1, <4>2
      <4>3. CASE j # Len(trace')
        <5>1. j \in 1..Len(trace)
          BY <3>2, <3>3, <4>1, <4>3
        <5> QED
          BY <3>2, <3>3, <4>1, <5>1 DEF GainsBound, GainsNeverIncrease
      <4> QED
        BY <4>2, <4>3
    <3>7. \A t \in remaining' : TotalGain(t)' <= TotalGain(s)
      <4> SUFFICES ASSUME NEW t \in remaining' PROVE TotalGain(t)' <= TotalGain(s)
        OBVIOUS
      <4>1. t \in remaining /\ t \in Scenarios
        BY <3>1 DEF TypeOK
      <4>2. TotalGain(t) \in Nat
        BY <4>1, GainsFinite
      <4>3. TotalGain(t)' \in Nat /\ TotalGain(t)' <= TotalGain(t)
        BY <2>1, <4>1, GainShrinks
      <4>5. TotalGain(t) <= TotalGain(s)
        <5>1. CASE TotalGain(t) > 0
          BY <2>1, <3>2, <4>1, <4>2, <5>1
             DEF Select, IsChosen, Ranked, Precedes
        <5> QED
          BY <3>2, <4>2, <5>1
      <4> QED
        BY <3>2, <4>2, <4>3, <4>5
    <3> QED
      BY <3>3, <3>6, <3>7 DEF GainsBound
  <2>2. CASE UNCHANGED <<obligations, mutants, counts, killed, remaining,
                         trace>>
    BY <2>2 DEF GainsBound, GainsNeverIncrease, TotalGain, ObligationGain,
                MutationGain, NewObligations, NewMutants, Below, Required
  <2> QED
    BY <2>1, <2>2
       DEF Next, Reject, Accept, Report, vars, inputs, progress
<1>3. GainsBound => GainsNeverIncrease
  BY DEF GainsBound
<1> QED
  BY <1>1, <1>2, <1>3, TypeCorrect, PTL DEF Spec

-----------------------------------------------------------------------------
(* The refinement of the promise.                                          *)

(* The promise counts without numbers: one witness, or two different ones. *)
LEMMA EnoughIsWitnessed ==
  ASSUME TypeOK, NEW o \in Obligations, NEW S \in SUBSET Scenarios
  PROVE  Cardinality(Witnesses(o, S)) >= Required(o)
         <=> Promise!Witnessed(o, S)
<1> DEFINE W == Witnesses(o, S)
<1>1. IsFiniteSet(W) /\ Cardinality(W) \in Nat
  BY WitnessesFinite
<1>2. Cardinality(W) >= 1 <=> \E s \in S : o \in obligations[s]
  <2>1. Cardinality(W) = 0 <=> W = {}
    BY <1>1, FS_EmptySet
  <2>2. W # {} <=> \E s \in S : o \in obligations[s]
    BY DEF Witnesses
  <2> HIDE DEF W
  <2> QED
    BY <1>1, <2>1, <2>2
<1>3. Cardinality(W) >= 2
      <=> \E s \in S : /\ o \in obligations[s]
                       /\ \E t \in S \ {s} : o \in obligations[t]
  <2>1. ASSUME NEW s \in W
        PROVE  /\ IsFiniteSet(W \ {s})
               /\ Cardinality(W \ {s}) = Cardinality(W) - 1
               /\ Cardinality(W \ {s}) \in Nat
               /\ Cardinality(W \ {s}) = 0 <=> W \ {s} = {}
    <3>1. IsFiniteSet(W \ {s}) /\ Cardinality(W \ {s}) = Cardinality(W) - 1
      BY <1>1, <2>1, FS_RemoveElement
    <3> QED
      BY <3>1, FS_CardinalityType, FS_EmptySet
  <2>2. ASSUME Cardinality(W) >= 2
        PROVE  \E s \in W : W \ {s} # {}
    <3>1. W # {}
      <4>1. Cardinality({}) = 0
        BY FS_EmptySet
      <4> HIDE DEF W
      <4> QED
        BY <2>2, <4>1
    <3>2. PICK s \in W : TRUE
      BY <3>1
    <3>3. Cardinality(W \ {s}) = Cardinality(W) - 1
          /\ (Cardinality(W \ {s}) = 0 <=> W \ {s} = {})
      BY <2>1
    <3> HIDE DEF W
    <3>4. W \ {s} # {}
      BY <1>1, <2>2, <3>3
    <3> QED
      BY <3>4
  <2>3. ASSUME NEW s \in W, W \ {s} # {}
        PROVE  Cardinality(W) >= 2
    <3>1. /\ Cardinality(W \ {s}) = Cardinality(W) - 1
          /\ Cardinality(W \ {s}) \in Nat
          /\ (Cardinality(W \ {s}) = 0 <=> W \ {s} = {})
      BY <2>1
    <3> HIDE DEF W
    <3> QED
      BY <1>1, <2>3, <3>1
  <2>4. (\E s \in W : W \ {s} # {})
        <=> \E s \in S : /\ o \in obligations[s]
                         /\ \E t \in S \ {s} : o \in obligations[t]
    BY DEF Witnesses
  <2> HIDE DEF W
  <2> QED
    BY <2>2, <2>3, <2>4
<1>4. \A s \in Scenarios :
        o \in obligations[s] <=>
        o \in [t \in Scenarios |-> obligations[t] \cup mutants[t]][s]
  BY MutantsAssumption DEF TypeOK
<1> QED
  BY <1>2, <1>3, <1>4 DEF Required, Promise!Witnessed

(* A mutant is a slot that one detecting scenario witnesses.               *)
LEMMA MutantIsWitnessed ==
  ASSUME TypeOK, NEW m \in Mutants, NEW S \in SUBSET Scenarios
  PROVE  m \in Detected(S) <=> Promise!Witnessed(m, S)
<1>1. \A s \in S : m \notin obligations[s]
  BY MutantsAssumption DEF TypeOK
<1>2. m \notin McdcIds
  BY MutantsAssumption, ObligationsAssumption
<1> QED
  BY <1>1, <1>2 DEF Promise!Witnessed, Detected

(* An obligation below its requirement is a slot that lacks a witness.     *)
LEMMA BelowIsMissing ==
  ASSUME TypeOK, ProgressIsReal, NEW o \in Obligations, Below(o)
  PROVE  ~Promise!Witnessed(o, Selected)
<1>1. Cardinality(Witnesses(o, Selected)) \in Nat /\ Required(o) \in {1, 2}
  BY WitnessesFinite DEF Selected, Required
<1>2. Cardinality(Witnesses(o, Selected)) < Required(o)
  BY <1>1 DEF ProgressIsReal, Below
<1> QED
  BY <1>1, <1>2, EnoughIsWitnessed DEF Selected

(* The promise's sufficiency is the availability check.                    *)
LEMMA SufficientMeans ==
  ASSUME TypeOK, NEW S \in SUBSET Scenarios
  PROVE  Promise!Sufficient(S) <=>
           /\ \A o \in Obligations :
                Cardinality(Witnesses(o, S)) >= Required(o)
           /\ Mutants \subseteq Detected(S)
<1>1. \A o \in Obligations : Cardinality(Witnesses(o, S)) >= Required(o)
                             <=> Promise!Witnessed(o, S)
  BY EnoughIsWitnessed
<1>2. \A m \in Mutants : m \in Detected(S) <=> Promise!Witnessed(m, S)
  BY MutantIsWitnessed
<1> QED
  BY <1>1, <1>2 DEF Promise!Sufficient

(* Every step of the reducer is a step of the promise or a stutter.        *)
LEMMA StepKeepsPromise ==
  ASSUME TypeOK, ProgressIsReal, AcceptedInput, [Next]_vars
  PROVE  [Promise!WNext]_(Promise!wvars)
<1> USE DEF inputs, progress
<1>1. CASE Reject
  <2>1. ~wellFormed \/ ~Promise!Sufficient(Scenarios)
    BY <1>1, SufficientMeans DEF Reject, Available
  <2>2. Selected = {} /\ Selected' = Selected
    BY <1>1 DEF Reject, AcceptedInput, Selected
  <2>3. OutcomeOf(phase) = "open" /\ OutcomeOf(phase') = "refused"
    BY <1>1 DEF Reject, OutcomeOf
  <2> QED
    BY <1>1, <2>1, <2>2, <2>3 DEF Reject, Promise!WNext, Promise!Refuse
<1>2. CASE Accept
  <2>1. OutcomeOf(phase) = "open" /\ OutcomeOf(phase') = "open"
    BY <1>2 DEF Accept, OutcomeOf
  <2> QED
    BY <1>2, <2>1 DEF Accept, Promise!wvars, Selected
<1>3. ASSUME NEW s \in Scenarios, Select(s)
      PROVE  Promise!Add
  <2>1. /\ s \in remaining /\ TotalGain(s) > 0
        /\ remaining' = remaining \ {s} /\ phase = "selecting"
    BY <1>3 DEF Select, IsChosen, Ranked
  <2>2. s \in Scenarios \ Selected /\ Selected' = Selected \cup {s}
    BY <2>1 DEF Selected, TypeOK
  <2>3. ASSUME NewObligations(s) # {} PROVE Promise!Useful(s)
    <3>1. PICK o \in obligations[s] : Below(o)
      BY <2>3 DEF NewObligations
    <3>2. o \in Obligations
      BY <3>1 DEF TypeOK
    <3> QED
      BY <3>1, <3>2, BelowIsMissing DEF Promise!Useful
  <2>4. ASSUME NewMutants(s) # {} PROVE Promise!Useful(s)
    <3>1. PICK m \in mutants[s] : m \notin killed
      BY <2>4 DEF NewMutants
    <3>2. m \in Mutants /\ m \notin Detected(Selected)
      BY <3>1 DEF TypeOK, ProgressIsReal
    <3>3. ~Promise!Witnessed(m, Selected)
      BY <3>2, MutantIsWitnessed DEF Selected
    <3> QED
      BY <3>1, <3>3 DEF Promise!Useful
  <2>5. Promise!Useful(s)
    BY <2>1, <2>3, <2>4, GainsFinite
  <2>6. OutcomeOf(phase) = "open" /\ wellFormed
    BY <2>1 DEF OutcomeOf, AcceptedInput
  <2> QED
    BY <1>3, <2>2, <2>5, <2>6 DEF Promise!Add, Select
<1>4. CASE Report
  <2>1. wellFormed /\ ~Incomplete
    BY <1>4, RankingNotEmpty DEF Report, AcceptedInput
  <2>2. Promise!Sufficient(Selected)
    BY <2>1, CompleteSuffices, SufficientMeans DEF Selected
  <2>3. OutcomeOf(phase) = "open" /\ OutcomeOf(phase') = "delivered"
    BY <1>4 DEF Report, OutcomeOf
  <2> QED
    BY <1>4, <2>1, <2>2, <2>3
       DEF Report, Promise!Deliver, Promise!WNext, Selected
<1>5. CASE UNCHANGED vars
  BY <1>5 DEF vars, Promise!wvars, Selected
<1> QED
  BY <1>1, <1>2, <1>3, <1>4, <1>5 DEF Next, Promise!WNext

(* The mutation-aware reduction implements WitnessMulticover.              *)
THEOREM ReducerKeepsPromise == Spec => KeepsPromise
<1>1. Init => Promise!WInit
  <2> SUFFICES ASSUME Init PROVE Promise!WInit
    OBVIOUS
  <2>1. Selected = {} /\ OutcomeOf(phase) = "open"
    BY DEF Init, Selected, OutcomeOf
  <2>2. [s \in Scenarios |-> obligations[s] \cup mutants[s]]
          \in [Scenarios -> SUBSET (Obligations \cup Mutants)]
    BY DEF Init
  <2>3. wellFormed \in BOOLEAN
    BY Zenon DEF Init
  <2> QED
    BY <2>1, <2>2, <2>3 DEF Promise!WInit
<1>2. TypeOK /\ ProgressIsReal /\ PhaseInv /\ [Next]_vars
      => [Promise!WNext]_(Promise!wvars)
  BY StepKeepsPromise DEF PhaseInv
<1> QED
  BY <1>1, <1>2, TypeCorrect, ProgressCorrect, PhasesCorrect, PTL
     DEF Spec, KeepsPromise, Promise!WSpec
-----------------------------------------------------------------------------
(* Progress.                                                               *)

(* A sort key that is transitive has a first scenario: of the sets of      *)
(* scenarios ranked before each one, take a smallest.                      *)
LEMMA FirstOfRanking ==
  ASSUME TypeOK, Ranked # {}
  PROVE  \E s \in Ranked : IsChosen(s)
<1> DEFINE Before(s) == {t \in Ranked : Precedes(t, s)}
           Sets == {Before(s) : s \in Ranked}
           Order == StrictSubsetOrdering(Scenarios)
<1>1. Ranked \subseteq Scenarios
  BY DEF Ranked, TypeOK
<1>2. \A s \in Ranked : Before(s) \in SUBSET Scenarios
  BY <1>1
<1>3. IsWellFoundedOn(Order, SUBSET Scenarios)
  BY FS_StrictSubsetOrderingWellFounded, FS_FiniteSubsetsOfFinite, ScenariosAssumption
<1>4. PICK B \in Sets : \A C \in Sets : <<C, B>> \notin Order
  <2>1. Sets \subseteq SUBSET Scenarios /\ Sets # {}
    BY <1>2
  <2> HIDE DEF Order, Sets
  <2> QED
    BY <1>3, <2>1, WFMin
<1>5. PICK s \in Ranked : B = Before(s)
  BY <1>4
<1>6. ASSUME NEW t \in Ranked, NEW u \in Ranked
      PROVE  /\ ~Precedes(t, t)
             /\ \A v \in Ranked : Precedes(v, u) /\ Precedes(u, t) => Precedes(v, t)
  <2>1. \A v \in Ranked : /\ v \in Int /\ cycleCount[v] \in Int
                          /\ TotalGain(v) \in Int /\ MutationGain(v) \in Int
    BY <1>1, GainsFinite, ScenariosAssumption DEF TypeOK
  <2> QED
    BY <2>1 DEF Precedes
<1>7. ASSUME NEW t \in Ranked, Precedes(t, s) PROVE FALSE
  <2>1. Before(t) \subseteq Before(s)
    BY <1>6, <1>7
  <2>2. t \in Before(s) /\ t \notin Before(t)
    BY <1>6, <1>7
  <2>3. <<Before(t), Before(s)>> \in Order
    BY <1>2, <2>1, <2>2 DEF StrictSubsetOrdering
  <2> QED
    BY <1>4, <1>5, <2>3
<1> QED
  BY <1>7 DEF IsChosen

(* As long as an obligation lacks a witness or a mutant is undetected, the *)
(* ranking of an accepted suite has a first scenario, and only one.        *)
ChoiceExists ==
  phase = "selecting" /\ Incomplete =>
    \E s \in Ranked : \A t \in remaining : IsChosen(t) <=> t = s

(* ChoiceExists for every input suite, obligation document and mutant set: *)
(* the head of the sorted list is well-defined in every iteration.         *)
THEOREM ChoiceIsPossible == Spec => []ChoiceExists
<1>1. TypeOK /\ ProgressIsReal /\ PhaseInv /\ ChoiceUnique => ChoiceExists
  <2> SUFFICES ASSUME TypeOK, ProgressIsReal, PhaseInv, ChoiceUnique,
                      phase = "selecting", Incomplete
               PROVE  \E s \in Ranked : \A t \in remaining : IsChosen(t) <=> t = s
    BY DEF ChoiceExists
  <2>1. Ranked # {}
    BY RankingNotEmpty DEF PhaseInv, AcceptedInput
  <2>2. PICK s \in Ranked : IsChosen(s)
    BY <2>1, FirstOfRanking
  <2>3. s \in remaining
    BY DEF Ranked
  <2> QED
    BY <2>2, <2>3 DEF ChoiceUnique
<1> QED
  BY <1>1, TypeCorrect, ProgressCorrect, PhasesCorrect, ChoiceIsUnique, PTL

(* What is left to do: the scenarios that may be selected, and the ends of *)
(* the checks and of the loop.                                             *)
Work ==
  Cardinality(remaining) + (CASE phase = "checking"  -> 2
                              [] phase = "selecting" -> 1
                              [] OTHER               -> 0)

(* Every step of reduce_suite takes work off a finite amount of it, so     *)
(* that the loop ends for every input suite.                               *)
WorkDecreases == [][Work' \in Nat /\ Work' < Work]_vars

(* WorkDecreases for every input suite, obligation document and mutant     *)
(* set.                                                                    *)
THEOREM WorkIsBounded == Spec => WorkDecreases
<1>1. ASSUME TypeOK, [Next]_vars PROVE [Work' \in Nat /\ Work' < Work]_vars
  <2>1. IsFiniteSet(remaining) /\ Cardinality(remaining) \in Nat
    BY <1>1, ScenariosAssumption, FS_Subset, FS_CardinalityType DEF TypeOK
  <2>2. CASE Reject
    BY <2>1, <2>2 DEF Reject, Work, inputs, progress
  <2>3. CASE Accept
    BY <2>1, <2>3 DEF Accept, Work, inputs, progress
  <2>4. ASSUME NEW s \in Scenarios, Select(s) PROVE Work' \in Nat /\ Work' < Work
    <3>1. s \in remaining
      BY <2>4 DEF Select, IsChosen, Ranked
    <3>2. Cardinality(remaining \ {s}) = Cardinality(remaining) - 1
      BY <2>1, <3>1, FS_RemoveElement
    <3>3. Cardinality(remaining \ {s}) \in Nat
      BY <2>1, FS_RemoveElement, FS_CardinalityType
    <3> QED
      BY <2>1, <2>4, <3>2, <3>3 DEF Select, Work
  <2>5. CASE Report
    BY <2>1, <2>5 DEF Report, Work, inputs, progress
  <2> QED
    BY <1>1, <2>2, <2>3, <2>4, <2>5 DEF Next
<1> QED
  BY <1>1, TypeCorrect, PTL DEF Spec, WorkDecreases

-----------------------------------------------------------------------------
(* The size of the reduced suite.                                          *)

(* The witness slots filled so far: the first of every obligation and the  *)
(* second of every MC/DC pair.  A killed mutant is a slot as well.         *)
FirstFilled == {o \in Obligations : counts[o] >= 1}
SecondFilled == {o \in McdcIds : counts[o] >= 2}

Filled ==
  Cardinality(FirstFilled) + Cardinality(SecondFilled) + Cardinality(killed)

(* Every selected scenario has filled a slot of its own.                   *)
EachFillsASlot == Cardinality(Selected) <= Filled

(* The greedy suite is never larger than the number of required witnesses  *)
(* and controlled mutants, whatever the size of the input suite.           *)
SizeBounded ==
  Cardinality(Selected) <=
    Cardinality(Obligations) + Cardinality(McdcIds) + Cardinality(Mutants)

(* A finite set within a finite one is the smaller, strictly so when an    *)
(* element is missing.                                                     *)
LEMMA Grows ==
  ASSUME NEW A, NEW B, IsFiniteSet(B), A \subseteq B
  PROVE  /\ Cardinality(A) \in Nat /\ Cardinality(B) \in Nat
         /\ Cardinality(A) <= Cardinality(B)
         /\ \A e \in B \ A : Cardinality(A) + 1 <= Cardinality(B)
<1>1. IsFiniteSet(A) /\ Cardinality(A) <= Cardinality(B)
  BY FS_Subset
<1>2. ASSUME NEW e \in B \ A PROVE Cardinality(A) + 1 <= Cardinality(B)
  <2>1. Cardinality(A \cup {e}) = Cardinality(A) + 1
    BY <1>1, <1>2, FS_AddElement
  <2>2. A \cup {e} \subseteq B
    BY <1>2
  <2>3. Cardinality(A \cup {e}) <= Cardinality(B)
    BY <2>2, FS_Subset
  <2> QED
    BY <2>1, <2>3
<1> QED
  BY <1>1, <1>2, FS_CardinalityType

(* There are no more filled slots than slots.                              *)
LEMMA FilledBounded ==
  ASSUME TypeOK
  PROVE  /\ Filled \in Nat
         /\ Filled <= Cardinality(Obligations) + Cardinality(McdcIds)
                      + Cardinality(Mutants)
<1>1. IsFiniteSet(McdcIds)
  BY ObligationsAssumption, FS_Subset
<1>2. FirstFilled \subseteq Obligations /\ SecondFilled \subseteq McdcIds
  BY DEF FirstFilled, SecondFilled
<1>3. killed \subseteq Mutants
  BY DEF TypeOK
<1>4. /\ Cardinality(FirstFilled) \in Nat /\ Cardinality(Obligations) \in Nat
      /\ Cardinality(FirstFilled) <= Cardinality(Obligations)
  BY <1>2, ObligationsAssumption, Grows
<1>5. /\ Cardinality(SecondFilled) \in Nat /\ Cardinality(McdcIds) \in Nat
      /\ Cardinality(SecondFilled) <= Cardinality(McdcIds)
  BY <1>1, <1>2, Grows
<1>6. /\ Cardinality(killed) \in Nat /\ Cardinality(Mutants) \in Nat
      /\ Cardinality(killed) <= Cardinality(Mutants)
  BY <1>3, MutantsAssumption, Grows
<1> QED
  BY <1>4, <1>5, <1>6 DEF Filled

(* A selection fills at least one slot and empties none.                   *)
LEMMA SelectionFills ==
  ASSUME TypeOK, TypeOK', NEW s \in Scenarios, Select(s)
  PROVE  Filled + 1 <= Filled'
<1>1. /\ NewObligations(s) # {} \/ NewMutants(s) # {}
      /\ counts' = CountsAfter(s) /\ killed' = KilledAfter(s)
  BY GainsFinite DEF Select, IsChosen, Ranked
<1>2. \A p \in Obligations : /\ counts[p] \in Int /\ counts'[p] \in Int
                             /\ counts'[p] >= counts[p]
  <2>1. \A p \in Obligations : counts[p] \in Int /\ counts'[p] \in Int
    BY DEF TypeOK
  <2> QED
    BY <1>1, <2>1 DEF CountsAfter
<1>3. /\ FirstFilled \subseteq FirstFilled'
      /\ SecondFilled \subseteq SecondFilled'
      /\ killed \subseteq killed'
  BY <1>1, <1>2, ObligationsAssumption
     DEF FirstFilled, SecondFilled, KilledAfter
<1>4. /\ IsFiniteSet(FirstFilled') /\ IsFiniteSet(SecondFilled')
      /\ IsFiniteSet(killed')
  <2>1. /\ FirstFilled' \subseteq Obligations
        /\ SecondFilled' \subseteq Obligations
        /\ killed' \subseteq Mutants
    BY ObligationsAssumption DEF FirstFilled, SecondFilled, TypeOK
  <2> QED
    BY <2>1, ObligationsAssumption, MutantsAssumption, FS_Subset
<1>5. /\ Cardinality(FirstFilled) \in Nat /\ Cardinality(FirstFilled') \in Nat
      /\ Cardinality(FirstFilled) <= Cardinality(FirstFilled')
      /\ \A e \in FirstFilled' \ FirstFilled :
           Cardinality(FirstFilled) + 1 <= Cardinality(FirstFilled')
  BY <1>3, <1>4, Grows
<1>6. /\ Cardinality(SecondFilled) \in Nat /\ Cardinality(SecondFilled') \in Nat
      /\ Cardinality(SecondFilled) <= Cardinality(SecondFilled')
      /\ \A e \in SecondFilled' \ SecondFilled :
           Cardinality(SecondFilled) + 1 <= Cardinality(SecondFilled')
  BY <1>3, <1>4, Grows
<1>7. /\ Cardinality(killed) \in Nat /\ Cardinality(killed') \in Nat
      /\ Cardinality(killed) <= Cardinality(killed')
      /\ \A e \in killed' \ killed :
           Cardinality(killed) + 1 <= Cardinality(killed')
  BY <1>3, <1>4, Grows
<1>8. ASSUME NewMutants(s) # {} PROVE Filled + 1 <= Filled'
  <2>1. PICK m \in NewMutants(s) : TRUE
    BY <1>8
  <2>2. m \in killed' \ killed
    BY <1>1, <2>1 DEF KilledAfter, NewMutants
  <2>3. Cardinality(killed) + 1 <= Cardinality(killed')
    BY <1>7, <2>2
  <2> QED
    BY <1>5, <1>6, <1>7, <2>3 DEF Filled
<1>9. ASSUME NewObligations(s) # {} PROVE Filled + 1 <= Filled'
  <2>1. PICK o \in obligations[s] : Below(o)
    BY <1>9 DEF NewObligations
  <2>2. o \in Obligations /\ counts'[o] = counts[o] + 1
    BY <1>1, <2>1 DEF TypeOK, CountsAfter, NewObligations
  <2>3. CASE counts[o] = 0
    <3>1. o \in FirstFilled' \ FirstFilled
      BY <2>2, <2>3 DEF FirstFilled
    <3>2. Cardinality(FirstFilled) + 1 <= Cardinality(FirstFilled')
      BY <1>5, <3>1
    <3> QED
      BY <1>5, <1>6, <1>7, <3>2 DEF Filled
  <2>4. CASE counts[o] # 0
    <3>1. o \in McdcIds /\ counts[o] = 1
      BY <2>1, <2>2, <2>4 DEF TypeOK, Below, Required
    <3>2. o \in SecondFilled' \ SecondFilled
      BY <2>2, <3>1 DEF SecondFilled
    <3>3. Cardinality(SecondFilled) + 1 <= Cardinality(SecondFilled')
      BY <1>6, <3>2
    <3> QED
      BY <1>5, <1>6, <1>7, <3>3 DEF Filled
  <2> QED
    BY <2>3, <2>4
<1> QED
  BY <1>1, <1>8, <1>9

(* SizeBounded for every input suite, obligation document and mutant set.  *)
THEOREM SuiteSizeBounded == Spec => []SizeBounded
<1>1. Init => EachFillsASlot
  <2> SUFFICES ASSUME Init PROVE EachFillsASlot
    OBVIOUS
  <2>1. Selected = {} /\ killed = {} /\ FirstFilled = {} /\ SecondFilled = {}
    BY ObligationsAssumption
       DEF Init, Selected, FirstFilled, SecondFilled
  <2>2. Cardinality({}) = 0
    BY FS_EmptySet
  <2> QED
    BY <2>1, <2>2 DEF EachFillsASlot, Filled
<1>2. TypeOK /\ TypeOK' /\ EachFillsASlot /\ [Next]_vars => EachFillsASlot'
  <2> SUFFICES ASSUME TypeOK, TypeOK', EachFillsASlot, [Next]_vars
               PROVE  EachFillsASlot'
    OBVIOUS
  <2>1. ASSUME NEW s \in Scenarios, Select(s) PROVE EachFillsASlot'
    <3>1. s \in remaining /\ remaining' = remaining \ {s}
      BY <2>1 DEF Select, IsChosen, Ranked
    <3>2. Selected' = Selected \cup {s} /\ s \notin Selected
      BY <3>1 DEF Selected, TypeOK
    <3>3. IsFiniteSet(Selected)
      BY FS_Subset, ScenariosAssumption DEF Selected
    <3>4. /\ Cardinality(Selected') = Cardinality(Selected) + 1
          /\ Cardinality(Selected) \in Nat
      BY <3>2, <3>3, FS_AddElement, FS_CardinalityType
    <3>5. Filled + 1 <= Filled'
      BY <2>1, SelectionFills
    <3>6. Filled \in Nat /\ Filled' \in Nat
      <4>1. /\ FirstFilled' \subseteq Obligations
            /\ SecondFilled' \subseteq Obligations
            /\ killed' \subseteq Mutants
        BY ObligationsAssumption DEF FirstFilled, SecondFilled, TypeOK
      <4>2. /\ Cardinality(FirstFilled') \in Nat
            /\ Cardinality(SecondFilled') \in Nat
            /\ Cardinality(killed') \in Nat
        BY <4>1, ObligationsAssumption, MutantsAssumption, Grows
      <4> QED
        BY <4>2, FilledBounded DEF Filled
    <3> QED
      BY <3>4, <3>5, <3>6 DEF EachFillsASlot
  <2>2. CASE UNCHANGED <<counts, killed, remaining>>
    BY <2>2 DEF EachFillsASlot, Filled, FirstFilled, SecondFilled, Selected
  <2> QED
    BY <2>1, <2>2 DEF Next, Reject, Accept, Report, vars, inputs, progress
<1>3. TypeOK /\ EachFillsASlot => SizeBounded
  <2>1. IsFiniteSet(Selected)
    BY FS_Subset, ScenariosAssumption DEF Selected
  <2>2. Cardinality(Selected) \in Nat
    BY <2>1, FS_CardinalityType
  <2>3. /\ Cardinality(Obligations) \in Nat /\ Cardinality(Mutants) \in Nat
        /\ Cardinality(McdcIds) \in Nat
    BY ObligationsAssumption, MutantsAssumption, FS_Subset, FS_CardinalityType
  <2> QED
    BY <2>2, <2>3, FilledBounded DEF EachFillsASlot, SizeBounded
<1> QED
  BY <1>1, <1>2, <1>3, TypeCorrect, PTL DEF Spec
=============================================================================
