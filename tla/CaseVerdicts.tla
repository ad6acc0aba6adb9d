------------------------------ MODULE CaseVerdicts ------------------------------
(***************************************************************************)
(* What is decided about a case from the executions of its suite           *)
(* (src/tools/aerost_tool.py, compare_assurance_suites.py): the reports    *)
(* over the traces of the three executors, the two accounts of coverage,   *)
(* the two judgements of the mutants, and the acceptance of the case.      *)
(* Nothing here executes AIR: traces is what AssuranceCase recorded.       *)
(***************************************************************************)
EXTENDS BoundedSynthesis, SuiteComparison, TraceReports

VARIABLES
  synthesized,  \* the suite that the search found, none before it is written
  final,        \* what the reduction leaves of it
  manual,       \* the manual suite with its supplement
  damage,       \* what a defective backend did to its output
  traces        \* the recorded executions, none before they ran
                \*   reference, external, backend
                \*             the cycles of the final suite in the three
                \*             executors, none where one refuses
                \*   mutants   for each mutant the cycles of the final suite
                \*             in the interpreter (reference) and, when it
                \*             builds, in the backend, and those of the
                \*             manual suite in the interpreter
                \*   final, synthesized, manual
                \*             the executions that the suites are compared by
                \*   fitting   whether every mutation finds what it changes

suites == <<synthesized, final>>
executions == <<manual, damage, traces>>

IsCase == "case" \in DOMAIN program
Air == program.air
Nodes == program.nodes
Direct == program.obligations
Profile == program.profile

Ran == traces # <<>>

(* What the defective backend made of its cycles.                          *)
Printed == Damaged(traces.backend, damage)

-----------------------------------------------------------------------------
(* Mutants                                                                 *)

(* expected_mismatches                                                     *)
Detected(cycles, suite) ==
  \E i \in DOMAIN cycles, s \in ToSet(suite) :
    /\ s.id = cycles[i].scenario
    /\ Projection(cycles[i]) # s.cycles[cycles[i].cycle + 1].expected

DetectedByReference(mutant) == Detected(mutant.reference, final)

DetectedByBackend(mutant) == Detected(mutant.backend, final)

(* A mutant counts as detected by both, or the report is not written.      *)
KilledInReport(mutant) == DetectedByReference(mutant) /\ DetectedByBackend(mutant)

ReportWritten ==
  traces.fitting /\ \A m \in DOMAIN traces.mutants : traces.mutants[m].builds

-----------------------------------------------------------------------------
(* Acceptance                                                              *)

Judged(suite, execution) ==
  Judgement(Nodes, Air.contract, Direct, suite, execution)

(* The suites that the comparison reads: the manual requirements suite has *)
(* all that its supplement adds, and one reduced suite stands for both.    *)
Accepted ==
  AcceptancePassed(Nodes, Direct, Profile, traces.fitting,
    [manual |-> Judged(manual, traces.manual),
     synthesized |-> Judged(synthesized, traces.synthesized),
     final |-> Judged(final, traces.final)])

Verified ==
  /\ ~Detected(traces.reference, final)
  /\ CoverageComplete(Nodes, traces.reference)
  /\ McdcComplete(Nodes, traces.reference)
  /\ ReportWritten => \A m \in DOMAIN traces.mutants : KilledInReport(traces.mutants[m])
  /\ "gate" \in DOMAIN Profile /\ Profile.gate =>
       \A m \in DOMAIN traces.mutants : Detected(traces.mutants[m].manual, manual)

-----------------------------------------------------------------------------
(* Agreement of executions                                                 *)

Completed(cycles) == \A i \in DOMAIN cycles : ~cycles[i].raised

(* Wherever the first execution was not refused a cycle, the second shows  *)
(* the same result in the cycle of the same key.                           *)
Follows(cycles, others) ==
  \A i \in DOMAIN cycles :
    ~cycles[i].raised =>
      \E j \in DOMAIN others : /\ KeyOf(others[j]) = KeyOf(cycles[i])
                               /\ Projection(others[j]) = Projection(cycles[i])

(* The executors agree on the final suite: on the program, and on each     *)
(* mutant as far as they run it.                                           *)
ProgramAgreed == SameRun(traces.reference, traces.final.cycles)

MutantsAgreed ==
  \A m \in DOMAIN traces.mutants :
    LET mutant == traces.mutants[m]
    IN  /\ Follows(traces.final.mutants[m], mutant.reference)
        /\ Follows(traces.manual.mutants[m], mutant.manual)
        /\ mutant.builds => SameRun(mutant.backend, traces.final.mutants[m])

-----------------------------------------------------------------------------
(* What is recorded                                                        *)

IsTrace(cycles) == cycles \in Seq(ToSet(cycles))

(* Every cycle is one of a scenario of the suite.                          *)
Scheduled(suite, cycles) ==
  \A i \in DOMAIN cycles :
    \E s \in ToSet(suite) : /\ s.id = cycles[i].scenario
                            /\ cycles[i].cycle + 1 \in DOMAIN s.cycles

(* No two cycles have the same key: the cycles of a scenario are numbered, *)
(* and the identities of scenarios checked to be different                 *)
(* (aerost_tool.py, line 1358).                                            *)
KeysDistinct(cycles) ==
  \A i, j \in DOMAIN cycles : KeyOf(cycles[i]) = KeyOf(cycles[j]) => i = j

(* The fields of a record that parse_backend_output returns.               *)
IsPrinted(c) ==
  /\ c = [scenario |-> c.scenario, cycle |-> c.cycle, committed |-> c.committed,
          outputs |-> c.outputs, inhibited |-> c.inhibited,
          statements |-> c.statements, decisions |-> c.decisions,
          arms |-> c.arms, diagnostics |-> c.diagnostics]
  /\ c.cycle \in Nat /\ c.inhibited \in BOOLEAN

(* An event of a decision has a value for each of its conditions.          *)
IsEvent(e) ==
  \E d \in ToSet(Nodes.decisions) :
    /\ e.decision = d.decision /\ e.result \in BOOLEAN
    /\ e.conditions \in [DOMAIN d.conditions -> BOOLEAN]

EventsRecorded(cycles) ==
  \A i \in DOMAIN cycles : \A e \in ToSet(cycles[i].decisions) : IsEvent(e)

(* Decisions have identities of their own, and the identity of a condition *)
(* is its decision's and its position.                                     *)
NodesIdentified ==
  \A d \in ToSet(Nodes.decisions) :
    /\ d.decision \in Seq(Nat) /\ DOMAIN d.conditions \subseteq Nat
    /\ \A j \in DOMAIN d.conditions : d.conditions[j].id = Append(d.decision, j)
    /\ \A e \in ToSet(Nodes.decisions) : e.decision = d.decision => e = d

ProgramRecorded ==
  /\ Direct = DirectObligations(Nodes, Air.contract, program.roots)
  /\ program.mcdc = McdcObligations(Nodes)
  /\ NodesIdentified

(* The cycles of a suite in the external executor, with what the suite     *)
(* expects of each.                                                        *)
ExecutionRecorded(suite, cycles) ==
  /\ IsTrace(cycles) /\ Scheduled(suite, cycles)
  /\ \A i \in DOMAIN cycles, s \in ToSet(suite) :
       s.id = cycles[i].scenario =>
         cycles[i].expected = s.cycles[cycles[i].cycle + 1].expected

TracesRecorded ==
  /\ traces.reference # <<>> /\ KeysDistinct(traces.reference)
  /\ \A cycles \in {traces.reference, traces.external, traces.backend} :
       IsTrace(cycles)
  /\ \A i \in DOMAIN traces.backend : IsPrinted(traces.backend[i])
  /\ EventsRecorded(traces.reference)
  /\ damage \in Damages

MutantsRecorded ==
  /\ DOMAIN traces.mutants = DOMAIN traces.final.mutants
  /\ DOMAIN traces.mutants = DOMAIN traces.manual.mutants
  /\ \A m \in DOMAIN traces.mutants :
       /\ ExecutionRecorded(final, traces.final.mutants[m])
       /\ ExecutionRecorded(manual, traces.manual.mutants[m])

(* What the executors leave is an account of the suites that they ran, and *)
(* of the program: the reports and the comparison look the cycles up by    *)
(* scenario and index, and the events by decision.                         *)
RunRecorded ==
  Ran => /\ ProgramRecorded /\ TracesRecorded /\ MutantsRecorded
         /\ ExecutionRecorded(final, traces.final.cycles)

-----------------------------------------------------------------------------
(* Properties                                                              *)

(* The reports decide on the traces: a lost, an altered or an unscheduled  *)
(* cycle fails the three-way report, and the differential report but for   *)
(* the unscheduled one, which it does not look at.  A repeated cycle does  *)
(* not, nor a wrong one that the right one follows: the last stands.       *)
ReportsAreConclusive ==
  /\ Ran /\ traces.external # <<>> /\ traces.backend # <<>>
  /\ SameRun(traces.reference, traces.external)
  /\ SameRun(traces.reference, traces.backend)
  =>
    /\ ThreeWayPassed(traces.reference, Printed, traces.external)
         <=> damage \in {"none", "repeated", "overtaken"}
    /\ DifferentialPassed(traces.reference, Printed)
         <=> damage \in {"none", "repeated", "overtaken", "extra"}

Structural(records) ==
  {id \in Ids(records) : id[1] \in {"statement", "decision", "condition"}}

AccountsAgree(covered) ==
  /\ CoverageComplete(Nodes, traces.reference) <=> Structural(Direct) \subseteq covered
  /\ McdcComplete(Nodes, traces.reference) <=> program.mcdc \subseteq covered

(* The two accounts of coverage agree: the structural report and the MC/DC *)
(* report over the interpreter's cycles are complete exactly when the      *)
(* suite covers the structural and the MC/DC obligations on the external   *)
(* executor, wherever the two show one behaviour.                          *)
CoverageIsObligations ==
  Ran /\ ProgramAgreed =>
    AccountsAgree(CoveredBy(Nodes, Air.contract, Direct, traces.final.cycles))

(* The mutation report and the comparison of suites judge a mutant alike,  *)
(* by looking the cycles of the interpreter and of the backend up in the   *)
(* suite there and by the first cycle of the external executor that        *)
(* differs here, when all of its cycles run and show one behaviour.        *)
MutantVerdictsAgree ==
  Ran =>
    \A m \in DOMAIN traces.mutants :
      LET mutant == traces.mutants[m]
          cycles == traces.final.mutants[m]
      IN  /\ Completed(cycles) /\ SameRun(mutant.reference, cycles) =>
               (DetectedByReference(mutant) <=> Verdict(cycles) = "killed")
          /\ Completed(cycles) /\ SameRun(mutant.backend, cycles) =>
               (DetectedByBackend(mutant) <=> Verdict(cycles) = "killed")

(* An accepted case is a verified one: the interpreter reproduces its      *)
(* final suite, which leaves neither structural coverage nor MC/DC open    *)
(* and kills every mutant in the mutation report too, when that can be     *)
(* written, and the manual suite kills them where the profile demands it,  *)
(* wherever the executors agree.                                           *)
AcceptanceIsSound ==
  Ran /\ ProgramAgreed /\ MutantsAgreed /\ Accepted => Verified
=============================================================================
