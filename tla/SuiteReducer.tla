----------------------------- MODULE SuiteReducer -----------------------------
(***************************************************************************)
(* The obligation-only suite reduction, reduce_suite of                    *)
(* src/tools/assurance_suite_reducer.py: a greedy multicover of assurance  *)
(* obligations by synthesized scenarios.  An MC/DC pair needs two          *)
(* different scenarios, any other obligation one.                          *)
(*                                                                         *)
(* Scenario identities are integers: only their order matters, as the last *)
(* criterion of the ranking.                                               *)
(***************************************************************************)
EXTENDS Integers, Sequences, FiniteSets

CONSTANTS
  Scenarios,    \* the identities of the input suite
  Obligations,  \* the identities of the obligation document
  McdcIds,      \* those of kind MCDC_PAIR
  MaxCycles     \* bound on the length of a scenario

ASSUME ScenariosAssumption ==
  Scenarios \subseteq Int /\ IsFiniteSet(Scenarios)
ASSUME ObligationsAssumption ==
  IsFiniteSet(Obligations) /\ McdcIds \subseteq Obligations
ASSUME MaxCyclesAssumption == MaxCycles \in Nat \ {0}

VARIABLES
  wellFormed,  \* the documents pass every structural check
  coverage,    \* Candidate.coverage of each scenario
  cycleCount,  \* Candidate.cycle_count of each scenario
  phase,       \* where reduce_suite is
  counts,      \* coverage_counts
  remaining,   \* the keys of remaining
  trace,       \* selection_records
  passed       \* the report's verdict

vars == <<wellFormed, coverage, cycleCount, phase, counts, remaining, trace,
          passed>>

Required(o) == IF o \in McdcIds THEN 2 ELSE 1

Witnesses(o, suite) == {s \in suite : o \in coverage[s]}

Below(o) == counts[o] < Required(o)

NewlyCovered(s) == {o \in coverage[s] : Below(o)}

Gain(s) == Cardinality(NewlyCovered(s))

Incomplete == \E o \in Obligations : Below(o)

Ranked == {s \in remaining : Gain(s) > 0}

(* The sort key (-gain, cycle_count, scenario_id).                         *)
Precedes(s, t) ==
  \/ Gain(s) > Gain(t)
  \/ /\ Gain(s) = Gain(t)
     /\ \/ cycleCount[s] < cycleCount[t]
        \/ cycleCount[s] = cycleCount[t] /\ s < t

IsChosen(s) == s \in Ranked /\ \A t \in Ranked : ~Precedes(t, s)

-----------------------------------------------------------------------------

Init ==
  /\ wellFormed \in BOOLEAN
  /\ coverage \in [Scenarios -> SUBSET Obligations]
  /\ cycleCount \in [Scenarios -> 1..MaxCycles]
  /\ phase = "checking"
  /\ counts = [o \in Obligations |-> 0]
  /\ remaining = Scenarios
  /\ trace = <<>>
  /\ passed = FALSE

(* Defect: availability checked without the multiplicity of MC/DC pairs.   *)
SomeWitnessEach ==
  \A o \in Obligations : Witnesses(o, Scenarios) # {}

Available ==
  \A o \in Obligations :
    Cardinality(Witnesses(o, Scenarios)) >= Required(o)

(* Every ReductionError: a document check fails, or the input suite cannot *)
(* satisfy the required multiplicity.                                      *)
Reject ==
  /\ phase = "checking"
  /\ ~wellFormed \/ ~Available
  /\ phase' = "rejected"
  /\ UNCHANGED <<wellFormed, coverage, cycleCount, counts, remaining, trace,
                 passed>>

Accept ==
  /\ phase = "checking"
  /\ wellFormed
  /\ Available
  /\ phase' = "selecting"
  /\ UNCHANGED <<wellFormed, coverage, cycleCount, counts, remaining, trace,
                 passed>>

CountsAfter(s) ==
  [o \in Obligations |-> IF o \in NewlyCovered(s) THEN counts[o] + 1
                                                  ELSE counts[o]]

(* Defect: the iteration works on copies, nothing is consumed.             *)
SelectOnCopies(s) ==
  /\ phase = "selecting"
  /\ Incomplete
  /\ IsChosen(s)
  /\ UNCHANGED vars

(* One iteration of the greedy loop.                                       *)
Select(s) ==
  /\ phase = "selecting"
  /\ Incomplete
  /\ IsChosen(s)
  /\ counts' = CountsAfter(s)
  /\ remaining' = remaining \ {s}
  /\ trace' = Append(trace, [scenario |-> s, gain |-> Gain(s)])
  /\ UNCHANGED <<wellFormed, coverage, cycleCount, phase, passed>>

(* The loop ends, by its condition or by the break on an empty ranking,    *)
(* and the report is built.                                                *)
Report ==
  /\ phase = "selecting"
  /\ ~Incomplete \/ Ranked = {}
  /\ phase' = "reported"
  /\ passed' = /\ ~Incomplete
               /\ \A o \in McdcIds : counts[o] >= 2
  /\ UNCHANGED <<wellFormed, coverage, cycleCount, counts, remaining, trace>>

Next ==
  \/ Reject
  \/ Accept
  \/ \E s \in Scenarios : Select(s)
  \/ Report

Spec == Init /\ [][Next]_vars

(* reduce_suite is a sequential function: it runs until it returns.        *)
FairSpec == Spec /\ WF_vars(Next)

-----------------------------------------------------------------------------

Selected == Scenarios \ remaining

Phases == {"checking", "selecting", "reported", "rejected"}

(* Every variable stays in its type.                                       *)
TypeOK ==
  /\ wellFormed \in BOOLEAN
  /\ coverage \in [Scenarios -> SUBSET Obligations]
  /\ cycleCount \in [Scenarios -> 1..MaxCycles]
  /\ phase \in Phases
  /\ counts \in [Obligations -> 0..2]
  /\ remaining \in SUBSET Scenarios
  /\ trace \in Seq([scenario : Scenarios, gain : Nat])
  /\ passed \in BOOLEAN

(* The counters of the loop are the witnesses of the suite selected so     *)
(* far, capped at what each obligation requires.                           *)
CountsAreWitnesses ==
  \A o \in Obligations :
    LET found == Cardinality(Witnesses(o, Selected))
    IN  counts[o] = IF found < Required(o) THEN found ELSE Required(o)

(* A report is only ever made on a reduced suite in which every obligation *)
(* keeps its required number of distinct witnesses, and it passes: the     *)
(* INCOMPLETE exit and the break on an empty ranking are unreachable once  *)
(* the availability check has accepted the input suite.                    *)
ReportedSuiteSuffices ==
  phase = "reported" =>
    /\ passed
    /\ \A o \in Obligations :
         Cardinality(Witnesses(o, Selected)) >= Required(o)

(* The ranking leaves no tie, so that the selection does not depend on the *)
(* order of the input suite or of a dictionary ("deterministic": true).    *)
ChoiceUnique ==
  \A s, t \in remaining : IsChosen(s) /\ IsChosen(t) => s = t

(* The witness slots gained by successive selections never increase: what  *)
(* a scenario would add only shrinks while others are selected.            *)
GainsNeverIncrease ==
  \A i, j \in DOMAIN trace : i < j => trace[i].gain >= trace[j].gain

(* reduce_suite returns or raises.                                         *)
Terminates == <>(phase \in {"reported", "rejected"})

-----------------------------------------------------------------------------
(* Refinement of the promise.                                              *)

OutcomeOf(p) ==
  CASE p \in {"checking", "selecting"} -> "open"
    [] p = "reported" -> "delivered"
    [] p = "rejected" -> "refused"

Promise == INSTANCE WitnessMulticover WITH
  Suite   <- Scenarios,
  Slots   <- Obligations,
  Pairs   <- McdcIds,
  usable  <- wellFormed,
  covers  <- coverage,
  chosen  <- Selected,
  outcome <- OutcomeOf(phase)

(* The greedy loop keeps the promise of a suite reduction.                 *)
KeepsPromise == Promise!WSpec
=============================================================================
