--------------------------- MODULE EvidencePipeline ---------------------------
(***************************************************************************)
(* The evidence pipeline of one application: run_pipeline of               *)
(* src/tools/aerost_tool.py with the core bundle, the chain of assurance   *)
(* tools, the mutation report, the clean rebuild, the summary, the         *)
(* manifest and the schema validation.                                     *)
(*                                                                         *)
(* The files of the output directory are grouped by the step that writes   *)
(* them.  A file is known by the invocation that wrote it, 0 if absent;    *)
(* what an invocation computes is reduced to the set of checks that fail   *)
(* in it.  An invocation may be killed between any two steps, and the next *)
(* one finds what it left.                                                 *)
(***************************************************************************)
EXTENDS Naturals, Sequences

CONSTANTS
  FailureSets,  \* what may fail together in one invocation
  MaxRuns       \* bound on the invocations

(* The assurance tools, in the order of the chain, each named for the      *)
(* document it writes.                                                     *)
Tools == <<"obligations", "domainValidation", "synthesized",
           "obligationReduced", "mutationReduced", "comparison">>
ToolFiles == {Tools[i] : i \in 1..Len(Tools)}

Checks == {"manifestFile", "frontEnd", "oracle", "backendIndependence", "cargo",
           "externalIndependence", "externalExecutor", "threeWay", "conformance", "coverage",
           "mcdc", "survivingMutants", "traceability", "expressive",
           "hostTiming", "rebuild", "schemas"} \cup ToolFiles

Files == {"sources", "backendIndependence", "referenceTraces", "traces", "externalIndependence",
          "threeWay", "reports", "inputDomain", "mutation", "timing",
          "platform", "reproducibility", "summary", "manifest",
          "schemaReport"} \cup ToolFiles

Evidence == Files \ {"summary", "manifest", "schemaReport"}

(* What write_manifest leaves out of the list.                             *)
Unlisted == {"manifest", "schemaReport"}

ASSUME FailureSetsAssumption == FailureSets \subseteq SUBSET Checks
ASSUME MaxRunsAssumption == MaxRuns \in Nat

VARIABLES
  run,       \* the current invocation
  failing,   \* the checks that fail in each invocation
  compile,   \* without --skip-cargo
  gated,     \* manual_suite_gate of the mutation profile
  phase,     \* the step reached
  output,    \* the output directory: who wrote each file
  listed,    \* the files listed by the manifest, and who wrote them
  exitCode

vars == <<run, failing, compile, gated, phase, output, listed, exitCode>>

Empty == [f \in Files |-> 0]

Resting == {"exited", "killed"}

Fails(checks) == failing[run] \cap checks # {}

Exit(code) == phase' = "exited" /\ exitCode' = code

Proceed(next) == phase' = next /\ UNCHANGED exitCode

(* Go on, or raise if one of the checks fails.                             *)
Gate(checks, next) == IF Fails(checks) THEN Exit(1) ELSE Proceed(next)

Write(files) ==
  output' = [f \in Files |-> IF f \in files THEN run ELSE output[f]]

Settings == <<run, failing, compile, gated>>

-----------------------------------------------------------------------------
Init ==
  /\ run = 0
  /\ failing = [r \in 1..MaxRuns |-> {}]
  /\ compile \in BOOLEAN /\ gated \in BOOLEAN
  /\ phase = "exited"
  /\ output = Empty
  /\ listed = Empty
  /\ exitCode = 0

Invoke ==
  /\ phase \in Resting /\ run < MaxRuns
  /\ run' = run + 1
  /\ compile' \in BOOLEAN /\ gated' \in BOOLEAN
  /\ \E f \in FailureSets :
       /\ f \cap {"cargo", "hostTiming"} # {} => compile'
       /\ failing' = [failing EXCEPT ![run'] = f]
  /\ phase' = "loading" /\ exitCode' = 0
  /\ UNCHANGED <<output, listed>>

(* A manifest that does not load ends the invocation before it touches     *)
(* anything.                                                               *)
LoadApplication ==
  /\ phase = "loading"
  /\ Gate({"manifestFile"}, "clearing")
  /\ UNCHANGED <<Settings, output, listed>>

(* Removing the old tree is one removal after another, in the order of the *)
(* directory; the reports that the verdict rests on go in one step.        *)
Entries == {{"summary"}, {"manifest"}, {"schemaReport"}, Evidence}

RemoveEntry ==
  /\ phase = "clearing"
  /\ \E entry \in Entries :
       /\ \E f \in entry : output[f] # 0
       /\ output' = [f \in Files |-> IF f \in entry THEN 0 ELSE output[f]]
  /\ UNCHANGED <<Settings, phase, listed, exitCode>>

(* Defect: writing into what the last invocation left.                     *)
OutputReused ==
  /\ phase = "clearing"
  /\ Proceed("frontEnd")
  /\ listed' = Empty
  /\ UNCHANGED <<Settings, output>>

OutputCleared ==
  /\ phase = "clearing" /\ output = Empty
  /\ Proceed("frontEnd")
  /\ listed' = Empty
  /\ UNCHANGED <<Settings, output>>

(* build_core_bundle: nothing is written before the oracle agrees.         *)
CompileProgram ==
  /\ phase = "frontEnd"
  /\ Gate({"frontEnd", "oracle"}, "backend")
  /\ UNCHANGED <<Settings, output, listed>>

GenerateBackend ==
  /\ phase = "backend"
  /\ Write({"sources", "backendIndependence"})
  /\ Gate({"backendIndependence"}, "execution")
  /\ UNCHANGED <<Settings, listed>>

(* The crate does not compile or run, or its traces are there and the      *)
(* source of the external executor is looked at.                           *)
ExecuteBackend ==
  /\ phase = "execution"
  /\ IF Fails({"cargo"})
       THEN Write({"referenceTraces"}) /\ Exit(1)
       ELSE /\ Write({"referenceTraces", "traces", "externalIndependence"})
            /\ Gate({"externalIndependence"}, "external")
  /\ UNCHANGED <<Settings, listed>>

ExecuteExternal ==
  /\ phase = "external"
  /\ IF Fails({"externalExecutor"})
       THEN Exit(1) /\ UNCHANGED output
       ELSE Write({"threeWay"}) /\ Gate({"threeWay"}, "reporting")
  /\ UNCHANGED <<Settings, listed>>

WriteReports ==
  /\ phase = "reporting"
  /\ Write({"reports"})
  /\ Proceed("core")
  /\ UNCHANGED <<Settings, listed>>

(* Defect: the selected MC/DC reported and not read.                       *)
AcceptCoverage ==
  /\ phase = "core"
  /\ Gate({"conformance", "coverage"}, "domain")
  /\ UNCHANGED <<Settings, output, listed>>

(* run_pipeline reads the bundle.  A two-way mismatch is a three-way one,  *)
(* which has raised already.                                               *)
AcceptCore ==
  /\ phase = "core"
  /\ Gate({"conformance", "coverage", "mcdc"}, "domain")
  /\ UNCHANGED <<Settings, output, listed>>

CopyInputDomain ==
  /\ phase = "domain"
  /\ Write({"inputDomain"})
  /\ Proceed(Tools[1])
  /\ UNCHANGED <<Settings, listed>>

(* A tool writes its document and exits with its verdict; the chain reads  *)
(* the verdicts again in the documents.                                    *)
RunTool ==
  \E i \in 1..Len(Tools) :
    /\ phase = Tools[i]
    /\ Write({Tools[i]})
    /\ Gate({Tools[i]},
            IF i < Len(Tools) THEN Tools[i + 1] ELSE "assurance")
    /\ UNCHANGED <<Settings, listed>>

AcceptAssurance ==
  /\ phase = "assurance"
  /\ Gate(ToolFiles, "mutation")
  /\ UNCHANGED <<Settings, output, listed>>

(* The survivors block only where the profile gates the manual suite.      *)
AnalyzeMutations ==
  /\ phase = "mutation"
  /\ Write({"mutation"})
  /\ IF gated THEN Gate({"survivingMutants"}, "traceability")
              ELSE Proceed("traceability")
  /\ UNCHANGED <<Settings, listed>>

AcceptTraceability ==
  /\ phase = "traceability"
  /\ Gate({"traceability", "expressive"}, "timing")
  /\ UNCHANGED <<Settings, output, listed>>

(* The benchmark runs only with a compiled backend, and may not end well.  *)
MeasureHost ==
  /\ phase = "timing"
  /\ IF Fails({"hostTiming"})
       THEN Exit(1) /\ UNCHANGED output
       ELSE /\ Write({"platform"} \cup (IF compile THEN {"timing"} ELSE {}))
            /\ Proceed("rebuilding")
  /\ UNCHANGED <<Settings, listed>>

(* Defect: a mismatch reported and not raised.                             *)
RebuildReported ==
  /\ phase = "rebuilding"
  /\ \/ Write({"reproducibility"}) /\ Proceed("summary")
     \/ Fails({"rebuild"}) /\ Exit(1) /\ UNCHANGED output
  /\ UNCHANGED <<Settings, listed>>

(* The rebuild runs the bundle and the tools again, in a directory of its  *)
(* own: it may raise as they may, or give other files.                     *)
Rebuild ==
  /\ phase = "rebuilding"
  /\ \/ Write({"reproducibility"}) /\ Gate({"rebuild"}, "summary")
     \/ Fails({"rebuild"}) /\ Exit(1) /\ UNCHANGED output
  /\ UNCHANGED <<Settings, listed>>

WriteSummary ==
  /\ phase = "summary"
  /\ Write({"summary"})
  /\ Proceed("manifest")
  /\ UNCHANGED <<Settings, listed>>

(* Defect: a list without the summary.                                     *)
ShortInventory ==
  [f \in Files |-> IF f \in Unlisted \cup {"summary"} THEN 0 ELSE output[f]]

Inventory == [f \in Files |-> IF f \in Unlisted THEN 0 ELSE output[f]]

WriteManifest ==
  /\ phase \in {"manifest", "finalManifest"}
  /\ Write({"manifest"})
  /\ listed' = Inventory
  /\ IF phase = "manifest" THEN Proceed("validation") ELSE Exit(0)
  /\ UNCHANGED Settings

ValidateSchemas ==
  /\ phase = "validation"
  /\ Write({"schemaReport"})
  /\ Gate({"schemas"}, "finalManifest")
  /\ UNCHANGED <<Settings, listed>>

Kill ==
  /\ phase \notin Resting
  /\ phase' = "killed"
  /\ UNCHANGED <<Settings, output, listed, exitCode>>

Step ==
  \/ LoadApplication \/ RemoveEntry \/ OutputCleared \/ CompileProgram
  \/ GenerateBackend \/ ExecuteBackend \/ ExecuteExternal \/ WriteReports
  \/ AcceptCore \/ CopyInputDomain \/ RunTool \/ AcceptAssurance
  \/ AnalyzeMutations \/ AcceptTraceability \/ MeasureHost \/ Rebuild
  \/ WriteSummary \/ WriteManifest \/ ValidateSchemas

Next == Invoke \/ Step \/ Kill

Spec == Init /\ [][Next]_vars

-----------------------------------------------------------------------------
Steps == {"loading", "clearing", "frontEnd", "backend", "execution", "external",
          "reporting", "core", "domain", "assurance", "mutation",
          "traceability", "timing", "rebuilding", "summary", "manifest",
          "validation", "finalManifest"} \cup ToolFiles

(* The declared values of every variable.                                  *)
TypeOK ==
  /\ run \in 0..MaxRuns
  /\ failing \in [1..MaxRuns -> SUBSET Checks]
  /\ compile \in BOOLEAN /\ gated \in BOOLEAN
  /\ phase \in Resting \cup Steps
  /\ output \in [Files -> 0..MaxRuns]
  /\ listed \in [Files -> 0..MaxRuns]
  /\ exitCode \in {0, 1}

(* The files behind each gate, in the order of the stages.                 *)
BackendFiles == Files \ {"sources", "backendIndependence"}
TraceFiles == BackendFiles \ {"referenceTraces"}
ExternalFiles == TraceFiles \ {"traces", "externalIndependence"}
ReportFiles == ExternalFiles \ {"threeWay"}
AssuranceFiles == ReportFiles \ {"reports"}
MutationFiles == AssuranceFiles \ (ToolFiles \cup {"inputDomain"})
ClosingFiles == MutationFiles \ {"mutation"}
ClaimFiles == {"summary", "manifest", "schemaReport"}

(* What must have held before a file may exist.                            *)
GatesBefore(f) ==
  {c \in Checks :
     \/ c \in {"manifestFile", "frontEnd", "oracle"}
     \/ c = "backendIndependence" /\ f \in BackendFiles
     \/ c = "cargo" /\ f \in TraceFiles
     \/ c \in {"externalIndependence", "externalExecutor"} /\ f \in ExternalFiles
     \/ c = "threeWay" /\ f \in ReportFiles
     \/ c \in {"conformance", "coverage", "mcdc"} /\ f \in AssuranceFiles
     \/ c \in ToolFiles /\ f \in MutationFiles
     \/ c \in {"traceability", "expressive", "hostTiming"} /\ f \in ClosingFiles
     \/ c = "rebuild" /\ f \in ClaimFiles}

(* No file outlives the failure of a gate in front of it: the assurance    *)
(* documents exist only over an accepted bundle, the summary and the       *)
(* manifest only over evidence that holds, after kills and restarts too.   *)
NoEvidenceBehindAFailedGate ==
  \A f \in Files : output[f] # 0 =>
    /\ failing[output[f]] \cap GatesBefore(f) = {}
    /\ (f \in {"platform", "summary", "manifest"} /\ output[f] = run /\ gated) =>
         "survivingMutants" \notin failing[run]

(* The directory never mixes the files of two invocations.                 *)
EvidenceOfOneRun ==
  \A f, g \in Files : output[f] # 0 /\ output[g] # 0 => output[f] = output[g]

(* While there is a manifest, every file of evidence beside it is listed   *)
(* as it is, also when the invocation stops before the final manifest; an  *)
(* invocation that succeeds leaves nothing listed that is not there.       *)
ManifestIsAccurate ==
  /\ output["manifest"] # 0 =>
       \A f \in Files \ Unlisted : output[f] # 0 => listed[f] = output[f]
  /\ phase = "exited" /\ exitCode = 0 /\ run > 0 =>
       \A f \in Files : listed[f] # 0 => output[f] = listed[f]

(* A reader who finds every file and a schema report without errors finds  *)
(* evidence of one invocation in which every gate held; an invocation that *)
(* succeeds leaves such a directory.                                       *)
CompleteDirectoryIsEvidence ==
  LET complete == \A f \in Files \ {"timing"} : output[f] # 0
      writer == output["summary"]
  IN /\ complete /\ "schemas" \notin failing[writer] =>
          failing[writer] \subseteq {"survivingMutants"}
     /\ phase = "exited" /\ exitCode = 0 /\ run > 0 =>
          complete /\ writer = run /\ "schemas" \notin failing[run]
=============================================================================
