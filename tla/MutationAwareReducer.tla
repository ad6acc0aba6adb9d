------------------------- MODULE MutationAwareReducer -------------------------
(***************************************************************************)
(* The mutation-aware suite reduction, reduce_suite of                     *)
(* src/tools/mutation_aware_suite_reducer.py: the greedy multicover of     *)
(* SuiteReducer with the controlled mutants as further slots.  A scenario  *)
(* detects a mutant when its replay on the mutated AIR differs from a      *)
(* frozen expectation (scenario_detects_mutant); which ones it detects is  *)
(* an input here, as its obligation coverage is.                           *)
(***************************************************************************)
EXTENDS Integers, Sequences, FiniteSets

CONSTANTS
  Scenarios,    \* the identities of the input suite, ordered
  Obligations,  \* the identities of the obligation document
  McdcIds,      \* those of kind MCDC_PAIR
  Mutants,      \* the identities of mutated_airs
  MaxCycles     \* bound on the length of a scenario

ASSUME ScenariosAssumption ==
  Scenarios \subseteq Int /\ IsFiniteSet(Scenarios)
ASSUME ObligationsAssumption ==
  IsFiniteSet(Obligations) /\ McdcIds \subseteq Obligations
ASSUME MutantsAssumption ==
  IsFiniteSet(Mutants) /\ Mutants \cap Obligations = {}
ASSUME MaxCyclesAssumption == MaxCycles \in Nat \ {0}

VARIABLES
  wellFormed,   \* the documents pass every structural check
  obligations,  \* Candidate.obligations of each scenario
  mutants,      \* Candidate.mutants of each scenario
  cycleCount,   \* Candidate.cycle_count of each scenario
  phase,        \* where reduce_suite is
  counts,       \* obligation_counts
  killed,       \* killed_mutants
  remaining,    \* the keys of remaining
  trace,        \* the selection trace
  passed        \* the report's verdict

inputs == <<wellFormed, obligations, mutants, cycleCount>>
progress == <<counts, killed, remaining, trace>>
vars == <<inputs, phase, progress, passed>>

Required(o) == IF o \in McdcIds THEN 2 ELSE 1

Witnesses(o, suite) == {s \in suite : o \in obligations[s]}

Detected(suite) == UNION {mutants[s] : s \in suite}

Below(o) == counts[o] < Required(o)

NewObligations(s) == {o \in obligations[s] : Below(o)}

NewMutants(s) == mutants[s] \ killed

ObligationGain(s) == Cardinality(NewObligations(s))

MutationGain(s) == Cardinality(NewMutants(s))

TotalGain(s) == ObligationGain(s) + MutationGain(s)

(* incomplete(): the mutants are compared by their number only.            *)
Incomplete ==
  \/ \E o \in Obligations : Below(o)
  \/ Cardinality(killed) < Cardinality(Mutants)

(* Defect: candidates that kill nothing new left out of the ranking.       *)
KillersOnly == {s \in remaining : MutationGain(s) > 0}

Ranked == {s \in remaining : TotalGain(s) > 0}

(* The sort key; at equal total and mutation gains the obligation gains    *)
(* are equal too.                                                          *)
Precedes(s, t) ==
  \/ TotalGain(s) > TotalGain(t)
  \/ /\ TotalGain(s) = TotalGain(t)
     /\ \/ MutationGain(s) > MutationGain(t)
        \/ /\ MutationGain(s) = MutationGain(t)
           /\ \/ cycleCount[s] < cycleCount[t]
              \/ cycleCount[s] = cycleCount[t] /\ s < t

IsChosen(s) == s \in Ranked /\ \A t \in Ranked : ~Precedes(t, s)

-----------------------------------------------------------------------------

Init ==
  /\ wellFormed \in BOOLEAN
  /\ obligations \in [Scenarios -> SUBSET Obligations]
  /\ mutants \in [Scenarios -> SUBSET Mutants]
  /\ cycleCount \in [Scenarios -> 1..MaxCycles]
  /\ phase = "checking"
  /\ counts = [o \in Obligations |-> 0]
  /\ killed = {}
  /\ remaining = Scenarios
  /\ trace = <<>>
  /\ passed = FALSE

(* Defect: the undetected mutants reported, the suite accepted.            *)
ObligationsAvailable ==
  \A o \in Obligations :
    Cardinality(Witnesses(o, Scenarios)) >= Required(o)

Available ==
  /\ \A o \in Obligations :
       Cardinality(Witnesses(o, Scenarios)) >= Required(o)
  /\ Mutants \subseteq Detected(Scenarios)

Reject ==
  /\ phase = "checking"
  /\ ~wellFormed \/ ~Available
  /\ phase' = "rejected"
  /\ UNCHANGED <<inputs, progress, passed>>

Accept ==
  /\ phase = "checking"
  /\ wellFormed
  /\ Available
  /\ phase' = "selecting"
  /\ UNCHANGED <<inputs, progress, passed>>

(* Defect: only the first of the newly killed mutants recorded.            *)
KillOne(s) ==
  killed \cup {m \in NewMutants(s) : m = CHOOSE n \in NewMutants(s) : TRUE}

KilledAfter(s) == killed \cup NewMutants(s)

CountsAfter(s) ==
  [o \in Obligations |-> IF o \in NewObligations(s) THEN counts[o] + 1
                                                    ELSE counts[o]]

(* One iteration of the greedy loop.                                       *)
Select(s) ==
  /\ phase = "selecting"
  /\ Incomplete
  /\ IsChosen(s)
  /\ counts' = CountsAfter(s)
  /\ killed' = KilledAfter(s)
  /\ remaining' = remaining \ {s}
  /\ trace' = Append(trace, [scenario |-> s, gain |-> TotalGain(s)])
  /\ UNCHANGED <<inputs, phase, passed>>

Report ==
  /\ phase = "selecting"
  /\ ~Incomplete \/ Ranked = {}
  /\ phase' = "reported"
  /\ passed' = /\ \A o \in Obligations : ~Below(o)
               /\ Mutants \ killed = {}
  /\ UNCHANGED <<inputs, progress>>

Next ==
  \/ Reject
  \/ Accept
  \/ \E s \in Scenarios : Select(s)
  \/ Report

Spec == Init /\ [][Next]_vars

-----------------------------------------------------------------------------

Selected == Scenarios \ remaining

(* Every variable stays in its type.                                       *)
TypeOK ==
  /\ wellFormed \in BOOLEAN
  /\ obligations \in [Scenarios -> SUBSET Obligations]
  /\ mutants \in [Scenarios -> SUBSET Mutants]
  /\ cycleCount \in [Scenarios -> 1..MaxCycles]
  /\ phase \in {"checking", "selecting", "reported", "rejected"}
  /\ counts \in [Obligations -> 0..2]
  /\ killed \in SUBSET Mutants
  /\ remaining \in SUBSET Scenarios
  /\ trace \in Seq([scenario : Scenarios, gain : Nat])
  /\ passed \in BOOLEAN

(* The loop's counters and its set of killed mutants say what the suite    *)
(* selected so far witnesses and detects, no more and no less.             *)
ProgressIsReal ==
  /\ \A o \in Obligations :
       LET found == Cardinality(Witnesses(o, Selected))
       IN  counts[o] = IF found < Required(o) THEN found ELSE Required(o)
  /\ killed = Detected(Selected)

(* A report is only ever made, and passes, on a reduced suite that keeps   *)
(* every obligation's witnesses and still detects every controlled mutant; *)
(* the INCOMPLETE exit is unreachable once the input suite is accepted.    *)
ReportedSuiteSuffices ==
  phase = "reported" =>
    /\ passed
    /\ \A o \in Obligations :
         Cardinality(Witnesses(o, Selected)) >= Required(o)
    /\ Mutants \subseteq Detected(Selected)

(* The ranking leaves no tie.                                              *)
ChoiceUnique ==
  \A s, t \in remaining : IsChosen(s) /\ IsChosen(t) => s = t

(* The total gains of successive selections never increase.                *)
GainsNeverIncrease ==
  \A i, j \in DOMAIN trace : i < j => trace[i].gain >= trace[j].gain

-----------------------------------------------------------------------------
(* Refinement of the promise, the mutants being slots of one witness.      *)

OutcomeOf(p) ==
  CASE p \in {"checking", "selecting"} -> "open"
    [] p = "reported" -> "delivered"
    [] p = "rejected" -> "refused"

Promise == INSTANCE WitnessMulticover WITH
  Suite   <- Scenarios,
  Slots   <- Obligations \cup Mutants,
  Pairs   <- McdcIds,
  usable  <- wellFormed,
  covers  <- [s \in Scenarios |-> obligations[s] \cup mutants[s]],
  chosen  <- Selected,
  outcome <- OutcomeOf(phase)

(* The greedy loop keeps the promise of a suite reduction, mutants         *)
(* included.                                                               *)
KeepsPromise == Promise!WSpec
=============================================================================
