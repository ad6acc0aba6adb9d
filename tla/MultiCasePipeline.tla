-------------------------- MODULE MultiCasePipeline --------------------------
(***************************************************************************)
(* The authoritative evaluation: run_multi_case_pipeline of                *)
(* src/tools/multi_case_assurance_pipeline.py, the validator process it    *)
(* starts for each application (src/tools/application_case_validator.py),  *)
(* and the acceptance conditions of src/scripts/run-evaluation.ps1.        *)
(*                                                                         *)
(* The same output directory serves one invocation after another, and an   *)
(* invocation may be killed, with its child, between any two steps.  What  *)
(* an application's tools compute is reduced to the set of checks that     *)
(* fail, and everything else in its files to a choice of bytes.            *)
(***************************************************************************)
EXTENDS Naturals, Sequences, FiniteSets

CONSTANTS
  Manifests,     \* the application manifests of the repository
  Ids,           \* application identities
  IdOf,          \* application_id of a manifest
  Suites,        \* the possible "applications" arrays of the suite file
  FailureSets,   \* what may fail together in one validation of a case
  Bytes,         \* the possible bytes of a case's files, all else being equal
  MaxRuns        \* bound on the invocations of the pipeline

(* Where each check of a case is decided.                                  *)
ProfileChecks == {"mutationProfile"}
BundleChecks == {"oracle", "backendIndependence", "externalIndependence",
                 "threeWay"}
CoreChecks == {"coverage", "mcdc", "traceability", "expressive"}
ToolChecks == {"inputDomain", "obligationsCovered", "replay"}
GeneratedChecks == {"generatedSuite", "generatedCycles"}
FinalChecks == {"finalObligations", "finalMcdc", "finalMutants"}
ComparisonChecks == FinalChecks \cup {"manualGate"}
ReportChecks == {"searchComplete", "reduction", "mutationReduction", "schemas"}
UnreadChecks == {"conformance", "evidenceSchemas"}

Checks == ProfileChecks \cup BundleChecks \cup CoreChecks \cup ToolChecks
            \cup GeneratedChecks \cup ComparisonChecks \cup ReportChecks
            \cup UnreadChecks \cup {"summarySchema"}

ASSUME IdOfAssumption == IdOf \in [Manifests -> Ids]
ASSUME SuitesAssumption == Suites \subseteq Seq(Manifests)
ASSUME FailureSetsAssumption == FailureSets \subseteq SUBSET Checks
ASSUME BytesAssumption == Bytes # {}
ASSUME MaxRunsAssumption == MaxRuns \in Nat

VARIABLES
  invocation,  \* how the pipeline was started, and the suite file it finds
  runs,        \* invocations so far
  phase,       \* where the invocation is
  pass,        \* which of its two passes over the applications
  position,    \* the next application of the pass
  case,        \* the validator process
  collected,   \* the summaries read back in the first pass
  output,      \* the output directory
  reproduced,  \* the temporary directory of the second pass
  exitCode

vars == <<invocation, runs, phase, pass, position, case, collected, output,
          reproduced, exitCode>>

Invocations ==
  [launcher : {"script", "direct"}, compile : BOOLEAN, check : BOOLEAN,
   suite : Suites]

Resting == {"exited", "killed"}

NoProcess == [at |-> "none", fails |-> {}, bytes |-> CHOOSE b \in Bytes : TRUE]

NoCase == [run |-> 0, fails |-> {}, bytes |-> CHOOSE b \in Bytes : TRUE,
           summary |-> "missing", passed |-> FALSE]

NoCases == [id \in Ids |-> NoCase]

NoSummary == [run |-> 0, passed |-> FALSE, authoritative |-> FALSE]

EmptyOutput == [cases |-> NoCases, reproducibility |-> "none",
                summary |-> NoSummary, schemas |-> "none"]

-----------------------------------------------------------------------------
(* The verdicts.                                                           *)

SuiteAccepted(suite) ==
  /\ Len(suite) >= 2
  /\ \A i, j \in 1..Len(suite) : suite[i] = suite[j] => i = j

Manifest == invocation.suite[position]

(* Defects: an identity taken twice; the reports of the bundle not read.   *)
NothingSeen == {}

SeenIds == {IdOf[invocation.suite[i]] : i \in 1..(position - 1)}

SuiteIds == {IdOf[invocation.suite[i]] : i \in 1..Len(invocation.suite)}

CaseTree == IF pass = "baseline" THEN output.cases ELSE reproduced

ToolVerdictOnly(fails) ==
  fails \cap (ReportChecks \cup ComparisonChecks) = {}
    /\ (invocation.compile => "generatedSuite" \notin fails)

(* What the validator decides from the reports it holds in memory.         *)
CasePassed(fails) ==
  fails \cap (CoreChecks \cup ReportChecks \cup ComparisonChecks) = {}
    /\ (invocation.compile => "generatedSuite" \notin fails)

(* A shortfall never cancels out in the sums: no application has more      *)
(* items covered than it has items.                                        *)
Short(check) == \E i \in 1..Len(collected) : check \in collected[i].fails

AggregateComplete ==
  /\ ~Short("threeWay")
  /\ invocation.compile => ~Short("generatedSuite") /\ ~Short("generatedCycles")
  /\ ~Short("obligationsCovered")
  /\ ~Short("finalMcdc")
  /\ ~Short("finalMutants")

SameFiles(a, b) == [a EXCEPT !.run = 0] = [b EXCEPT !.run = 0]

Reproduced == \A id \in Ids : SameFiles(output.cases[id], reproduced[id])

RunPassed ==
  /\ \A i \in 1..Len(collected) : collected[i].passed
  /\ AggregateComplete
  /\ invocation.check => output.reproducibility = "identical"

(* The acceptance conditions of the launch script, which reads the exit    *)
(* code and then the files.                                                *)
Accepted ==
  /\ phase = "exited" /\ invocation.launcher = "script"
  /\ exitCode = "0"
  /\ output.summary.run # 0 /\ output.schemas = "valid"
  /\ output.summary.authoritative
  /\ Len(collected) = 2
  /\ AggregateComplete
  /\ output.reproducibility = "identical"
  /\ output.summary.passed

-----------------------------------------------------------------------------
Init ==
  /\ invocation \in Invocations
  /\ runs = 0
  /\ phase = "exited"
  /\ pass = "baseline"
  /\ position = 1
  /\ case = NoProcess
  /\ collected = <<>>
  /\ output = EmptyOutput
  /\ reproduced = NoCases
  /\ exitCode = "none"

Exit(code) == phase' = "exited" /\ exitCode' = code

(* The script removes the output itself, and asks for everything.          *)
Invoke ==
  /\ phase \in Resting /\ runs < MaxRuns
  /\ \E i \in Invocations :
       /\ i.launcher = "script" => i.compile /\ i.check
       /\ invocation' = i
       /\ phase' = IF i.launcher = "script" THEN "removing" ELSE "loading"
  /\ runs' = runs + 1
  /\ pass' = "baseline" /\ position' = 1
  /\ case' = NoProcess /\ collected' = <<>> /\ reproduced' = NoCases
  /\ exitCode' = "none"
  /\ UNCHANGED output

(* Removing a directory tree is one removal after another.                 *)
RemoveEntry ==
  /\ phase \in {"removing", "clearing"}
  /\ \/ \E id \in Ids : /\ output.cases[id] # NoCase
                        /\ output' = [output EXCEPT !.cases[id] = NoCase]
     \/ /\ output.reproducibility # "none"
        /\ output' = [output EXCEPT !.reproducibility = "none"]
     \/ /\ output.summary # NoSummary
        /\ output' = [output EXCEPT !.summary = NoSummary]
     \/ /\ output.schemas # "none"
        /\ output' = [output EXCEPT !.schemas = "none"]
  /\ UNCHANGED <<invocation, runs, phase, pass, position, case, collected,
                 reproduced, exitCode>>

(* The script's regression tests come before the pipeline.                 *)
RunRegressionTests ==
  /\ phase = "removing" /\ output = EmptyOutput
  /\ \/ phase' = "loading" /\ UNCHANGED exitCode
     \/ Exit("1")
  /\ UNCHANGED <<invocation, runs, pass, position, case, collected, output,
                 reproduced>>

LoadSuite ==
  /\ phase = "loading"
  /\ IF SuiteAccepted(invocation.suite)
       THEN phase' = "clearing" /\ UNCHANGED exitCode
       ELSE Exit("2")
  /\ UNCHANGED <<invocation, runs, pass, position, case, collected, output,
                 reproduced>>

(* Defect: writing into what the last invocation left.                     *)
OutputReused ==
  /\ phase = "clearing"
  /\ phase' = "cases"
  /\ UNCHANGED <<invocation, runs, pass, position, case, collected, output,
                 reproduced, exitCode>>

OutputCleared ==
  /\ phase = "clearing" /\ output = EmptyOutput
  /\ phase' = "cases"
  /\ UNCHANGED <<invocation, runs, pass, position, case, collected, output,
                 reproduced, exitCode>>

(* One validator process per application, unless its identity is taken.    *)
StartCase ==
  /\ phase = "cases" /\ case = NoProcess
  /\ position <= Len(invocation.suite)
  /\ IF IdOf[Manifest] \in SeenIds
       THEN Exit("2") /\ UNCHANGED case
       ELSE /\ \E f \in FailureSets, b \in Bytes :
                 /\ ~invocation.compile => f \cap GeneratedChecks = {}
                 /\ case' = [at |-> "started", fails |-> f, bytes |-> b]
            /\ UNCHANGED <<phase, exitCode>>
  /\ UNCHANGED <<invocation, runs, pass, position, collected, output,
                 reproduced>>

WriteCase(id, content) ==
  IF pass = "baseline"
    THEN output' = [output EXCEPT !.cases[id] = content] /\ UNCHANGED reproduced
    ELSE reproduced' = [reproduced EXCEPT ![id] = content] /\ UNCHANGED output

(* The process ends in failure, and the pipeline with it.                  *)
CaseFails == Exit("2") /\ case' = NoProcess

(* The profile is checked before build_core_bundle clears the directory of *)
(* the case; a check of the bundle that raises leaves a partial directory. *)
BuildBundle ==
  /\ case.at = "started"
  /\ IF case.fails \cap ProfileChecks # {}
       THEN CaseFails /\ UNCHANGED <<output, reproduced>>
       ELSE /\ WriteCase(IdOf[Manifest],
                 [run |-> runs, fails |-> case.fails, bytes |-> case.bytes,
                  summary |-> "missing", passed |-> FALSE])
            /\ IF case.fails \cap BundleChecks # {}
                 THEN CaseFails
                 ELSE case' = [case EXCEPT !.at = "bundled"]
                        /\ UNCHANGED <<phase, exitCode>>
  /\ UNCHANGED <<invocation, runs, pass, position, collected>>

(* Synthesis, reductions, comparison and the schemas of their documents,   *)
(* then the summary with the verdict on all of it.                         *)
WriteCaseSummary ==
  /\ case.at = "bundled"
  /\ IF case.fails \cap ToolChecks # {}
       THEN CaseFails /\ UNCHANGED <<output, reproduced>>
       ELSE /\ WriteCase(IdOf[Manifest],
                 [CaseTree[IdOf[Manifest]] EXCEPT
                    !.summary = "provisional", !.passed = CasePassed(case.fails)])
            /\ case' = [case EXCEPT !.at = "summarized"]
            /\ UNCHANGED <<phase, exitCode>>
  /\ UNCHANGED <<invocation, runs, pass, position, collected>>

(* The summary is rewritten with its own schema verdict, the process exits *)
(* with it, and the pipeline goes on only after a zero.                    *)
ReviseCaseSummary ==
  LET id == IdOf[Manifest]
      revised == [CaseTree[id] EXCEPT
                    !.summary = "final",
                    !.passed = @ /\ "summarySchema" \notin case.fails]
  IN /\ case.at = "summarized"
     /\ WriteCase(id, revised)
     /\ case' = NoProcess
     /\ IF revised.passed
          THEN /\ position' = position + 1
               /\ collected' = IF pass = "baseline"
                                 THEN Append(collected, revised) ELSE collected
               /\ UNCHANGED <<phase, exitCode>>
          ELSE Exit("2") /\ UNCHANGED <<position, collected>>
     /\ UNCHANGED <<invocation, runs, pass>>

(* The second pass, in a temporary directory, if it was asked for.         *)
EndPass ==
  /\ phase = "cases" /\ case = NoProcess
  /\ position > Len(invocation.suite)
  /\ IF pass = "baseline" /\ invocation.check
       THEN pass' = "reproduced" /\ position' = 1 /\ UNCHANGED phase
       ELSE phase' = "comparing" /\ UNCHANGED <<pass, position>>
  /\ UNCHANGED <<invocation, runs, case, collected, output, reproduced,
                 exitCode>>

WriteReproducibility ==
  /\ phase = "comparing"
  /\ output' = [output EXCEPT !.reproducibility =
                  CASE ~invocation.check -> "disabled"
                    [] invocation.check /\ Reproduced -> "identical"
                    [] OTHER -> "different"]
  /\ phase' = "summarizing"
  /\ UNCHANGED <<invocation, runs, pass, position, case, collected, reproduced,
                 exitCode>>

WriteSummary ==
  /\ phase = "summarizing"
  /\ output' = [output EXCEPT !.summary =
                  [run |-> runs, passed |-> RunPassed,
                   authoritative |-> invocation.compile /\ invocation.check]]
  /\ phase' = "validating"
  /\ UNCHANGED <<invocation, runs, pass, position, case, collected, reproduced,
                 exitCode>>

ValidateRoot ==
  /\ phase = "validating"
  /\ \E verdict \in {"valid", "invalid"} :
       output' = [output EXCEPT !.schemas = verdict]
  /\ phase' = "revising"
  /\ UNCHANGED <<invocation, runs, pass, position, case, collected, reproduced,
                 exitCode>>

(* Defect: the verdict taken back in memory only.                          *)
SummaryNotRevised ==
  LET passed == output.summary.passed /\ output.schemas = "valid"
  IN /\ phase = "revising"
     /\ Exit(IF passed THEN "0" ELSE "3")
     /\ UNCHANGED <<invocation, runs, pass, position, case, collected, output,
                    reproduced>>

(* An invalid root document takes the verdict back; the exit code is the   *)
(* verdict of the summary returned.                                        *)
ReviseSummary ==
  LET passed == output.summary.passed /\ output.schemas = "valid"
  IN /\ phase = "revising"
     /\ output' = [output EXCEPT !.summary.passed = passed]
     /\ Exit(IF passed THEN "0" ELSE "3")
     /\ UNCHANGED <<invocation, runs, pass, position, case, collected,
                    reproduced>>

(* The processes are killed, at any time, and no handler runs.             *)
Kill ==
  /\ phase \notin Resting
  /\ phase' = "killed"
  /\ case' = NoProcess
  /\ UNCHANGED <<invocation, runs, pass, position, collected, output,
                 reproduced, exitCode>>

Step ==
  \/ RemoveEntry \/ RunRegressionTests \/ LoadSuite \/ OutputCleared
  \/ StartCase \/ BuildBundle \/ WriteCaseSummary \/ ReviseCaseSummary
  \/ EndPass \/ WriteReproducibility \/ WriteSummary \/ ValidateRoot
  \/ ReviseSummary

Next == Invoke \/ Step \/ Kill

Spec == Init /\ [][Next]_vars

-----------------------------------------------------------------------------
(* What the script announces as a pass is true of the evidence it points   *)
(* to: this invocation wrote all of it, each application's directory holds *)
(* the final summary of a validation none of whose gated checks failed,    *)
(* and a second validation of each gave the same files.                    *)
AcceptedIsSound ==
  Accepted =>
    /\ output.summary.run = runs
    /\ \A id \in SuiteIds :
         /\ output.cases[id].run = runs /\ reproduced[id].run = runs
         /\ output.cases[id].summary = "final"
         /\ output.cases[id].fails \subseteq UnreadChecks
         /\ SameFiles(output.cases[id], reproduced[id])
    /\ \A id \in Ids \ SuiteIds : output.cases[id] = NoCase

(* The summaries aggregated are the final ones, they passed, and they are  *)
(* still what the directory of their application holds: no case is read    *)
(* before its verdict is final, and none overwrites another's files.       *)
AggregatedIsOnDisk ==
  \A i \in 1..Len(collected) :
    /\ collected[i].summary = "final" /\ collected[i].passed
    /\ output.cases[IdOf[invocation.suite[i]]] = collected[i]

(* Once an invocation writes cases, the directory holds nothing of an      *)
(* earlier one, whatever the earlier one left when it was killed.          *)
NoEvidenceOfAnEarlierRun ==
  phase \in {"cases", "comparing", "summarizing", "validating", "revising"} =>
    /\ \A id \in Ids : output.cases[id] = NoCase \/ output.cases[id].run = runs
    /\ output.summary.run \in {0, runs}
    /\ phase = "cases" => output.summary = NoSummary /\ output.schemas = "none"

(* The exit code, the summary and the schema report agree when the process *)
(* ends by itself: zero only with a summary of this invocation that passed *)
(* and valid documents, and no summary claims a pass after another code.   *)
ExitCodeMatchesEvidence ==
  phase = "exited" /\ exitCode # "none" =>
    /\ exitCode = "0" <=> /\ output.summary.run = runs /\ output.summary.passed
                          /\ output.schemas = "valid"
    /\ exitCode = "3" => output.summary.run = runs /\ ~output.summary.passed
=============================================================================
