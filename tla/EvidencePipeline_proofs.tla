----------------------- MODULE EvidencePipeline_proofs -----------------------
(***************************************************************************)
(* Proofs about EvidencePipeline for any number of invocations and any     *)
(* sets of checks failing in them: no artifact exists behind a gate that   *)
(* failed, a directory is never a mixture of two invocations, the manifest *)
(* describes the files beside it, and a complete directory is evidence.    *)
(*                                                                         *)
(* The properties are about what is in the directory, and are not          *)
(* inductive: that a stage may write needs what the stages before it have  *)
(* checked (Passed), and that nothing older is beside it.                  *)
(***************************************************************************)
EXTENDS EvidencePipeline, TLAPS

(* The stages that write: the old directory is gone.                       *)
Building == Steps \ {"loading", "clearing"}

(* The stages behind the gate of the mutation report.                      *)
BehindMutants == {"traceability", "timing", "rebuilding", "summary",
                  "manifest", "validation", "finalManifest"}

(* The stages up to each gate, and the checks that have held when a stage  *)
(* is reached.                                                             *)
ToFrontEnd == {"loading", "clearing", "frontEnd"}
ToBackend == ToFrontEnd \cup {"backend"}
ToExecution == ToBackend \cup {"execution"}
ToExternal == ToExecution \cup {"external"}
ToCore == ToExternal \cup {"reporting", "core"}
ToAssurance == ToCore \cup {"domain", "assurance"} \cup ToolFiles
ToTraceability == ToAssurance \cup {"mutation", "traceability"}
ToRebuild == ToTraceability \cup {"timing", "rebuilding"}

Passed(p) ==
  {c \in Checks :
     \/ c = "manifestFile" /\ p # "loading"
     \/ c \in {"frontEnd", "oracle"} /\ p \notin ToFrontEnd
     \/ c = "backendIndependence" /\ p \notin ToBackend
     \/ c \in {"cargo", "externalIndependence"} /\ p \notin ToExecution
     \/ c \in {"externalExecutor", "threeWay"} /\ p \notin ToExternal
     \/ c \in {"conformance", "coverage", "mcdc"} /\ p \notin ToCore
     \/ c \in ToolFiles /\ p \notin ToAssurance
     \/ c \in {"traceability", "expressive"} /\ p \notin ToTraceability
     \/ c = "hostTiming" /\ p \notin ToTraceability \cup {"timing"}
     \/ c = "rebuild" /\ p \notin ToRebuild}

Held(p) ==
  /\ failing[run] \cap Passed(p) = {}
  /\ p \in BehindMutants /\ gated => "survivingMutants" \notin failing[run]

PhaseInv ==
  /\ TypeOK
  /\ \A f \in Files : output[f] <= run
  /\ phase \in Steps => run > 0 /\ Held(phase)
  /\ phase \in Building => \A f \in Files : output[f] \in {0, run}
  /\ NoEvidenceBehindAFailedGate
  /\ EvidenceOfOneRun

(* What every stage of an invocation does: it writes files whose gates are *)
(* behind it, and stops or goes on to a stage whose checks have held.      *)
Stage(files) ==
  /\ phase \in Building
  /\ \A f \in files : failing[run] \cap GatesBefore(f) = {}
  /\ phase \notin BehindMutants =>
       files \cap {"platform", "summary", "manifest"} = {}
  /\ output' = [f \in Files |-> IF f \in files THEN run ELSE output[f]]
  /\ phase' \in Resting \/ (phase' \in Building /\ Held(phase'))
  /\ exitCode' \in {0, 1}
  /\ listed' \in [Files -> 0..MaxRuns]
  /\ UNCHANGED Settings

(* The chain of tools.                                                     *)
LEMMA ToolFacts ==
  /\ Len(Tools) = 6
  /\ Tools[1] = "obligations"
  /\ ToolFiles = {"obligations", "domainValidation", "synthesized",
                  "obligationReduced", "mutationReduced", "comparison"}
  /\ \A i \in 1..Len(Tools) : Tools[i] \in ToolFiles
<1>1. Len(Tools) = 6 /\ Tools[1] = "obligations"
  BY DEF Tools
<1>2. /\ Tools[2] = "domainValidation" /\ Tools[3] = "synthesized"
      /\ Tools[4] = "obligationReduced" /\ Tools[5] = "mutationReduced"
      /\ Tools[6] = "comparison"
  BY DEF Tools
<1>3. 1..Len(Tools) = {1, 2, 3, 4, 5, 6}
  BY <1>1
<1> QED
  BY <1>1, <1>2, <1>3 DEF ToolFiles

(* What a stage has checked beyond the stage before it.                    *)
LEMMA PassedNext ==
  /\ Passed("loading") = {}
  /\ Passed("clearing") \subseteq {"manifestFile"}
  /\ Passed("frontEnd") \subseteq Passed("clearing")
  /\ Passed("backend") \subseteq Passed("frontEnd") \cup {"frontEnd", "oracle"}
  /\ Passed("execution") \subseteq Passed("backend") \cup {"backendIndependence"}
  /\ Passed("external") \subseteq
       Passed("execution") \cup {"cargo", "externalIndependence"}
  /\ Passed("reporting") \subseteq
       Passed("external") \cup {"externalExecutor", "threeWay"}
  /\ Passed("core") \subseteq Passed("reporting")
  /\ Passed("domain") \subseteq
       Passed("core") \cup {"conformance", "coverage", "mcdc"}
  /\ \A p \in ToolFiles \cup {"domain"}, q \in ToolFiles \cup {"assurance"} :
       Passed(q) \subseteq Passed(p)
  /\ Passed("mutation") \subseteq Passed("assurance") \cup ToolFiles
  /\ Passed("traceability") \subseteq Passed("mutation")
  /\ Passed("timing") \subseteq
       Passed("traceability") \cup {"traceability", "expressive"}
  /\ Passed("rebuilding") \subseteq Passed("timing") \cup {"hostTiming"}
  /\ Passed("summary") \subseteq Passed("rebuilding") \cup {"rebuild"}
  /\ Passed("manifest") \subseteq Passed("summary")
  /\ Passed("validation") \subseteq Passed("manifest")
  /\ Passed("finalManifest") \subseteq Passed("validation")
BY ToolFacts DEF Passed, ToFrontEnd, ToBackend, ToExecution, ToExternal, ToCore, ToAssurance,
       ToTraceability, ToRebuild

(* The files a stage writes have their gates behind it.                    *)
LEMMA GatesBehind ==
  /\ \A f \in {"sources", "backendIndependence"} :
       GatesBefore(f) \subseteq Passed("backend")
  /\ GatesBefore("referenceTraces") \subseteq Passed("execution")
  /\ \A f \in {"traces", "externalIndependence"} :
       GatesBefore(f) \subseteq Passed("execution") \cup {"cargo"}
  /\ GatesBefore("threeWay") \subseteq Passed("external") \cup {"externalExecutor"}
  /\ GatesBefore("reports") \subseteq Passed("reporting")
  /\ GatesBefore("inputDomain") \subseteq Passed("domain")
  /\ \A f \in ToolFiles : GatesBefore(f) \subseteq Passed(f)
  /\ GatesBefore("mutation") \subseteq Passed("mutation")
  /\ \A f \in {"timing", "platform"} :
       GatesBefore(f) \subseteq Passed("timing") \cup {"hostTiming"}
  /\ GatesBefore("reproducibility") \subseteq Passed("rebuilding")
  /\ GatesBefore("summary") \subseteq Passed("summary")
  /\ GatesBefore("manifest") \subseteq Passed("manifest")
  /\ GatesBefore("manifest") \subseteq Passed("finalManifest")
  /\ GatesBefore("schemaReport") \subseteq Passed("validation")
BY ToolFacts DEF Passed, ToFrontEnd, ToBackend, ToExecution, ToExternal, ToCore, ToAssurance,
       ToTraceability, ToRebuild,
       GatesBefore, BackendFiles, TraceFiles, ExternalFiles, ReportFiles,
       AssuranceFiles, MutationFiles, ClosingFiles, ClaimFiles

LEMMA StageKeeps ==
  ASSUME PhaseInv, NEW files \in SUBSET Files, Stage(files)
  PROVE  PhaseInv'
<1>1. /\ run' = run /\ failing' = failing /\ gated' = gated /\ compile' = compile
      /\ run \in 1..MaxRuns /\ phase \in Steps
  BY DEF Stage, Settings, PhaseInv, TypeOK, Building
<1>2. \A f \in Files : output'[f] = IF f \in files THEN run ELSE output[f]
  BY DEF Stage
<1>3. \A f \in Files : output'[f] \in {0, run}
  BY <1>2 DEF Stage, PhaseInv
<1>4. TypeOK'
  <2>1. output' \in [Files -> 0..MaxRuns]
    BY <1>1, <1>3, MaxRunsAssumption DEF Stage
  <2>2. phase' \in Resting \cup Steps
    BY DEF Stage, Building
  <2> QED
    BY <1>1, <2>1, <2>2 DEF Stage, PhaseInv, TypeOK
<1>5. \A f \in Files : output'[f] <= run'
  BY <1>1, <1>3
<1>6. phase' \in Steps => run' > 0 /\ Held(phase)'
  <2>1. phase' \notin Resting \/ phase' \notin Steps
    BY ToolFacts DEF Resting, Steps
  <2> QED
    BY <1>1, <2>1 DEF Stage, Held
<1>7. NoEvidenceBehindAFailedGate'
  <2> SUFFICES ASSUME NEW f \in Files, output'[f] # 0
               PROVE  /\ failing[run] \cap GatesBefore(f) = {}
                      /\ (f \in {"platform", "summary", "manifest"} /\ gated) =>
                           "survivingMutants" \notin failing[run]
    BY <1>1, <1>3 DEF NoEvidenceBehindAFailedGate
  <2>1. CASE f \in files
    BY <1>1, <2>1 DEF Stage, PhaseInv, Held
  <2>2. CASE f \notin files
    BY <1>1, <1>2, <1>3, <2>2 DEF PhaseInv, NoEvidenceBehindAFailedGate
  <2> QED
    BY <2>1, <2>2
<1>8. EvidenceOfOneRun'
  BY <1>3 DEF EvidenceOfOneRun
<1> QED
  BY <1>1, <1>3, <1>4, <1>5, <1>6, <1>7, <1>8 DEF PhaseInv

(* A gate is passed, or ends the invocation.                               *)
LEMMA GateHolds ==
  ASSUME PhaseInv, phase \in Steps, NEW checks, NEW next,
         Gate(checks, next), UNCHANGED Settings,
         Passed(next) \subseteq Passed(phase) \cup checks
  PROVE  /\ exitCode' \in {0, 1}
         /\ phase' = "exited" \/ (phase' = next /\ failing[run] \cap Passed(next) = {})
BY DEF Gate, Fails, Exit, Proceed, PhaseInv, Held, TypeOK

(* Sets of checks and stages, for the proofs below.                        *)
LEMMA StepFacts ==
  /\ Building \subseteq Steps
  /\ "exited" \in Resting /\ "killed" \in Resting
  /\ Resting \cap Steps = {}
  /\ \A i \in 1..Len(Tools) : Tools[i] \in Building \ BehindMutants
  /\ {"frontEnd", "backend", "execution", "external", "reporting", "core",
      "domain", "assurance", "mutation"} \subseteq Building \ BehindMutants
  /\ BehindMutants \subseteq Building
BY ToolFacts DEF Building, Steps, Resting, BehindMutants

(* An invocation starts, over whatever is there.                           *)
LEMMA InvokeKeeps == PhaseInv /\ Invoke => PhaseInv'
<1> SUFFICES ASSUME PhaseInv, Invoke PROVE PhaseInv'
  OBVIOUS
<1>1. /\ run \in 0..MaxRuns /\ run' = run + 1 /\ run' \in 1..MaxRuns
      /\ output' = output /\ listed' = listed
      /\ phase' = "loading" /\ exitCode' = 0
      /\ compile' \in BOOLEAN /\ gated' \in BOOLEAN
  BY MaxRunsAssumption DEF Invoke, PhaseInv, TypeOK
<1>2. PICK bad \in FailureSets : failing' = [failing EXCEPT ![run'] = bad]
  BY Zenon DEF Invoke
<1>3. /\ failing' \in [1..MaxRuns -> SUBSET Checks]
      /\ \A r \in 1..run : failing'[r] = failing[r]
  BY <1>1, <1>2, FailureSetsAssumption DEF PhaseInv, TypeOK
<1>4. TypeOK'
  <2>1. phase' \in Resting \cup Steps
    BY <1>1 DEF Steps
  <2> QED
    BY <1>1, <1>3, <2>1, MaxRunsAssumption DEF PhaseInv, TypeOK
<1>5. \A f \in Files : output'[f] <= run' /\ output'[f] \in 0..run
  BY <1>1 DEF PhaseInv, TypeOK
<1>6. phase' \in Steps => run' > 0 /\ Held(phase)'
  BY <1>1, PassedNext DEF Held, BehindMutants
<1>7. phase' \notin Building
  BY <1>1 DEF Building
<1>8. NoEvidenceBehindAFailedGate'
  <2> SUFFICES ASSUME NEW f \in Files, output[f] # 0
               PROVE  /\ failing'[output[f]] \cap GatesBefore(f) = {}
                      /\ output[f] # run'
    BY <1>1 DEF NoEvidenceBehindAFailedGate
  <2>1. output[f] \in 1..run
    BY <1>1, <1>5
  <2> QED
    BY <1>1, <1>3, <2>1 DEF PhaseInv, NoEvidenceBehindAFailedGate
<1>9. EvidenceOfOneRun'
  BY <1>1 DEF PhaseInv, EvidenceOfOneRun
<1> QED
  BY <1>4, <1>5, <1>6, <1>7, <1>8, <1>9 DEF PhaseInv

(* Files only disappear, and what is there stays as it was.                *)
LEMMA RemovalKeeps ==
  ASSUME PhaseInv, UNCHANGED Settings,
         \A f \in Files : output'[f] \in {0, output[f]},
         output' \in [Files -> 0..MaxRuns], listed' \in [Files -> 0..MaxRuns],
         exitCode' \in {0, 1},
         \/ phase' \in Resting
         \/ /\ phase' \in Steps /\ run > 0 /\ Held(phase')
            /\ phase' \in Building => \A f \in Files : output'[f] = 0
  PROVE  PhaseInv'
<1>1. /\ run' = run /\ failing' = failing /\ gated' = gated /\ compile' = compile
  BY DEF Settings
<1>2. TypeOK'
  BY <1>1 DEF PhaseInv, TypeOK
<1>3. \A f \in Files : output'[f] <= run'
  <2>1. run \in Nat /\ \A f \in Files : output[f] <= run
    BY MaxRunsAssumption DEF PhaseInv, TypeOK
  <2> QED
    BY <1>1, <2>1
<1>4. phase' \in Steps => run' > 0 /\ Held(phase)'
  BY <1>1, StepFacts DEF Held
<1>5. phase' \in Building => \A f \in Files : output'[f] \in {0, run'}
  BY <1>1, StepFacts
<1>6. NoEvidenceBehindAFailedGate'
  BY <1>1 DEF PhaseInv, NoEvidenceBehindAFailedGate
<1>7. EvidenceOfOneRun'
  BY DEF PhaseInv, EvidenceOfOneRun
<1> QED
  BY <1>2, <1>3, <1>4, <1>5, <1>6, <1>7 DEF PhaseInv

(* The steps before the first file is written, and the end by a kill.      *)
LEMMA OpeningKeeps ==
  PhaseInv /\ (LoadApplication \/ RemoveEntry \/ OutputCleared \/ Kill)
    => PhaseInv'
<1> SUFFICES ASSUME PhaseInv,
                    LoadApplication \/ RemoveEntry \/ OutputCleared \/ Kill
             PROVE  PhaseInv'
  OBVIOUS
<1>1. CASE LoadApplication
  <2>1. /\ UNCHANGED Settings /\ output' = output /\ listed' = listed
        /\ phase = "loading" /\ Gate({"manifestFile"}, "clearing")
    BY <1>1 DEF LoadApplication
  <2>2. /\ Passed("clearing") \subseteq Passed("loading") \cup {"manifestFile"}
        /\ "loading" \in Steps
    BY PassedNext DEF Steps
  <2>3. /\ exitCode' \in {0, 1}
        /\ phase' = "exited" \/ (phase' = "clearing" /\ Held("clearing"))
    BY <2>1, <2>2, GateHolds DEF Held, BehindMutants
  <2>4. "clearing" \in Steps /\ "clearing" \notin Building
    BY DEF Steps, Building
  <2>5. output' \in [Files -> 0..MaxRuns] /\ listed' \in [Files -> 0..MaxRuns]
    BY <2>1 DEF PhaseInv, TypeOK
  <2>6. run > 0
    BY <2>1, <2>2 DEF PhaseInv
  <2> QED
    BY <2>1, <2>3, <2>4, <2>5, <2>6, StepFacts, RemovalKeeps
<1>2. CASE RemoveEntry
  <2>1. PICK entry \in Entries :
          output' = [f \in Files |-> IF f \in entry THEN 0 ELSE output[f]]
    BY <1>2, Zenon DEF RemoveEntry
  <2>2. /\ UNCHANGED Settings /\ listed' = listed /\ exitCode' = exitCode
        /\ phase = "clearing" /\ phase' = phase
    BY <1>2 DEF RemoveEntry
  <2>3. /\ \A f \in Files : output'[f] \in {0, output[f]}
        /\ output' \in [Files -> 0..MaxRuns]
    BY <2>1, MaxRunsAssumption DEF PhaseInv, TypeOK
  <2>4. "clearing" \in Steps /\ "clearing" \notin Building
    BY DEF Steps, Building
  <2> QED
    BY <2>2, <2>3, <2>4, RemovalKeeps DEF PhaseInv, TypeOK
<1>3. CASE OutputCleared
  <2>1. /\ UNCHANGED Settings /\ output' = output /\ output = Empty
        /\ listed' = Empty /\ phase = "clearing" /\ phase' = "frontEnd"
        /\ exitCode' = exitCode
    BY <1>3 DEF OutputCleared, Proceed
  <2>2. /\ \A f \in Files : output'[f] = 0
        /\ Empty \in [Files -> 0..MaxRuns]
    BY <2>1, MaxRunsAssumption DEF Empty
  <2>3. Held("frontEnd") /\ run > 0
    BY <2>1, PassedNext DEF PhaseInv, Held, Steps, BehindMutants
  <2> QED
    BY <2>1, <2>2, <2>3, StepFacts, RemovalKeeps DEF PhaseInv, TypeOK
<1>4. CASE Kill
  <2>1. /\ UNCHANGED <<Settings, output, listed, exitCode>> /\ phase' \in Resting
    BY <1>4, StepFacts DEF Kill
  <2> QED
    BY <2>1, RemovalKeeps DEF PhaseInv, TypeOK
<1> QED
  BY <1>1, <1>2, <1>3, <1>4

-----------------------------------------------------------------------------
(* The stages, one after the other.                                        *)

(* What a stage of the bundle or of the chain needs of the state it finds. *)
LEMMA StageFacts ==
  ASSUME PhaseInv, phase \in Building
  PROVE  /\ failing[run] \cap Passed(phase) = {}
         /\ listed \in [Files -> 0..MaxRuns]
         /\ exitCode \in {0, 1}
         /\ output = [f \in Files |-> IF f \in {} THEN run ELSE output[f]]
BY StepFacts DEF PhaseInv, Held, TypeOK

LEMMA CoreKeeps ==
  PhaseInv /\ (CompileProgram \/ GenerateBackend \/ ExecuteBackend
                 \/ ExecuteExternal \/ WriteReports \/ AcceptCore)
    => PhaseInv'
<1> SUFFICES ASSUME PhaseInv,
                    CompileProgram \/ GenerateBackend \/ ExecuteBackend
                      \/ ExecuteExternal \/ WriteReports \/ AcceptCore
             PROVE  PhaseInv'
  OBVIOUS
<1>1. CASE CompileProgram
  <2>1. phase \in Building \ BehindMutants /\ "backend" \in Building \ BehindMutants
    BY <1>1, StepFacts DEF CompileProgram
  <2>2. Stage({})
    BY <1>1, <2>1, StageFacts, StepFacts, GateHolds, PassedNext
    DEF CompileProgram, Stage, Held, Settings
  <2> QED
    BY <2>2, StageKeeps
<1>2. CASE GenerateBackend
  <2> DEFINE written == {"sources", "backendIndependence"}
  <2>1. phase \in Building \ BehindMutants /\ "execution" \in Building \ BehindMutants
    BY <1>2, StepFacts DEF GenerateBackend
  <2>2. \A f \in written : failing[run] \cap GatesBefore(f) = {}
    BY <1>2, <2>1, StageFacts, GatesBehind DEF GenerateBackend
  <2>3. Stage(written)
    BY <1>2, <2>1, <2>2, StageFacts, StepFacts, GateHolds, PassedNext
    DEF GenerateBackend, Stage, Held, Settings, Write
  <2> QED
    BY <2>3, StageKeeps DEF Files
<1>3. CASE ExecuteBackend
  <2> DEFINE compiled == {"referenceTraces", "traces", "externalIndependence"}
  <2>1. phase \in Building \ BehindMutants /\ "external" \in Building \ BehindMutants
    BY <1>3, StepFacts DEF ExecuteBackend
  <2>2. failing[run] \cap GatesBefore("referenceTraces") = {}
    BY <1>3, <2>1, StageFacts, GatesBehind DEF ExecuteBackend
  <2>3. CASE Fails({"cargo"})
    <3>1. Stage({"referenceTraces"})
      BY <1>3, <2>1, <2>2, <2>3, StageFacts, StepFacts
      DEF ExecuteBackend, Stage, Exit, Write, Settings
    <3> QED
      BY <3>1, StageKeeps DEF Files
  <2>4. CASE ~Fails({"cargo"})
    <3>1. failing[run] \cap {"cargo"} = {}
      BY <2>4 DEF Fails
    <3>2. \A f \in compiled : failing[run] \cap GatesBefore(f) = {}
      BY <1>3, <2>1, <2>2, <3>1, StageFacts, GatesBehind DEF ExecuteBackend
    <3>3. Gate({"externalIndependence"}, "external") /\ UNCHANGED Settings
      BY <1>3, <2>4 DEF ExecuteBackend, Settings
    <3>4. /\ exitCode' \in {0, 1}
          /\ \/ phase' = "exited"
             \/ phase' = "external" /\ failing[run] \cap {"externalIndependence"} = {}
      BY <3>3, <2>1, StageFacts DEF Gate, Fails, Exit, Proceed
    <3>5. phase' = "external" => failing[run] \cap Passed("external") = {}
      BY <1>3, <2>1, <3>1, <3>4, StageFacts, StepFacts, PassedNext
      DEF ExecuteBackend, Resting
    <3>6. Stage(compiled)
      BY <1>3, <2>1, <2>4, <3>2, <3>4, <3>5, StageFacts, StepFacts
      DEF ExecuteBackend, Stage, Held, Settings, Write
    <3> QED
      BY <3>6, StageKeeps DEF Files
  <2> QED
    BY <2>3, <2>4
<1>4. CASE ExecuteExternal
  <2>1. phase \in Building \ BehindMutants /\ "reporting" \in Building \ BehindMutants
    BY <1>4, StepFacts DEF ExecuteExternal
  <2>2. CASE Fails({"externalExecutor"})
    <3>1. Stage({})
      BY <1>4, <2>1, <2>2, StageFacts, StepFacts
      DEF ExecuteExternal, Stage, Exit, Settings
    <3> QED
      BY <3>1, StageKeeps
  <2>3. CASE ~Fails({"externalExecutor"})
    <3>1. failing[run] \cap {"externalExecutor"} = {}
      BY <2>3 DEF Fails
    <3>2. failing[run] \cap GatesBefore("threeWay") = {}
      BY <1>4, <2>1, <3>1, StageFacts, GatesBehind DEF ExecuteExternal
    <3>3. /\ exitCode' \in {0, 1}
          /\ \/ phase' = "exited"
             \/ phase' = "reporting" /\ failing[run] \cap {"threeWay"} = {}
      BY <1>4, <2>1, <2>3, StageFacts DEF ExecuteExternal, Gate, Fails, Exit, Proceed
    <3>4. phase' = "reporting" => failing[run] \cap Passed("reporting") = {}
      BY <1>4, <2>1, <3>1, <3>3, StageFacts, StepFacts, PassedNext
      DEF ExecuteExternal, Resting
    <3>5. Stage({"threeWay"})
      BY <1>4, <2>1, <2>3, <3>2, <3>3, <3>4, StageFacts, StepFacts
      DEF ExecuteExternal, Stage, Held, Settings, Write
    <3> QED
      BY <3>5, StageKeeps DEF Files
  <2> QED
    BY <2>2, <2>3
<1>5. CASE WriteReports
  <2>1. phase \in Building \ BehindMutants /\ "core" \in Building \ BehindMutants
    BY <1>5, StepFacts DEF WriteReports
  <2>2. failing[run] \cap GatesBefore("reports") = {}
    BY <1>5, <2>1, StageFacts, GatesBehind DEF WriteReports
  <2>3. failing[run] \cap Passed("core") = {}
    BY <1>5, <2>1, StageFacts, PassedNext DEF WriteReports
  <2>4. Stage({"reports"})
    BY <1>5, <2>1, <2>2, <2>3, StageFacts, StepFacts
    DEF WriteReports, Stage, Held, Settings, Write, Proceed
  <2> QED
    BY <2>4, StageKeeps DEF Files
<1>6. CASE AcceptCore
  <2>1. phase \in Building \ BehindMutants /\ "domain" \in Building \ BehindMutants
    BY <1>6, StepFacts DEF AcceptCore
  <2>2. Stage({})
    BY <1>6, <2>1, StageFacts, StepFacts, GateHolds, PassedNext
    DEF AcceptCore, Stage, Held, Settings
  <2> QED
    BY <2>2, StageKeeps
<1> QED
  BY <1>1, <1>2, <1>3, <1>4, <1>5, <1>6

LEMMA AssuranceKeeps ==
  PhaseInv /\ (CopyInputDomain \/ RunTool \/ AcceptAssurance
                 \/ AnalyzeMutations \/ AcceptTraceability)
    => PhaseInv'
<1> SUFFICES ASSUME PhaseInv,
                    CopyInputDomain \/ RunTool \/ AcceptAssurance
                      \/ AnalyzeMutations \/ AcceptTraceability
             PROVE  PhaseInv'
  OBVIOUS
<1>1. CASE CopyInputDomain
  <2>1. /\ phase \in Building \ BehindMutants /\ phase = "domain"
        /\ Tools[1] \in ToolFiles /\ Tools[1] \in Building \ BehindMutants
    BY <1>1, StepFacts, ToolFacts DEF CopyInputDomain
  <2>2. failing[run] \cap GatesBefore("inputDomain") = {}
    BY <2>1, StageFacts, GatesBehind
  <2>3. failing[run] \cap Passed(Tools[1]) = {}
    BY <2>1, StageFacts, PassedNext
  <2>4. Stage({"inputDomain"})
    BY <1>1, <2>1, <2>2, <2>3, StageFacts, StepFacts
    DEF CopyInputDomain, Stage, Held, Settings, Write, Proceed
  <2> QED
    BY <2>4, StageKeeps DEF Files
<1>2. CASE RunTool
  <2>1. PICK i \in 1..Len(Tools) :
          /\ phase = Tools[i]
          /\ Write({Tools[i]})
          /\ Gate({Tools[i]},
                  IF i < Len(Tools) THEN Tools[i + 1] ELSE "assurance")
          /\ UNCHANGED <<Settings, listed>>
    BY <1>2, Zenon DEF RunTool
  <2> DEFINE next == IF i < Len(Tools) THEN Tools[i + 1] ELSE "assurance"
  <2>2. /\ phase \in Building \ BehindMutants /\ phase \in ToolFiles
        /\ phase \in Files
    BY <2>1, StepFacts, ToolFacts DEF Files
  <2>3. /\ next \in ToolFiles \cup {"assurance"}
        /\ next \in Building \ BehindMutants
    BY <2>1, StepFacts, ToolFacts
  <2>4. failing[run] \cap GatesBefore(phase) = {}
    BY <2>2, StageFacts, GatesBehind
  <2>5. failing[run] \cap Passed(next) = {}
    BY <2>2, <2>3, StageFacts, PassedNext
  <2>6. exitCode' \in {0, 1} /\ (phase' = "exited" \/ phase' = next)
    BY <2>1, <2>2, StageFacts DEF Gate, Exit, Proceed
  <2> HIDE DEF next
  <2>7. /\ \A f \in {phase} : failing[run] \cap GatesBefore(f) = {}
        /\ {phase} \cap {"platform", "summary", "manifest"} = {}
    BY <2>2, <2>4, ToolFacts
  <2>8. Stage({phase})
    BY <2>1, <2>2, <2>3, <2>5, <2>6, <2>7, StageFacts, StepFacts
    DEF Stage, Held, Settings, Write
  <2> QED
    BY <2>2, <2>8, StageKeeps
<1>3. CASE AcceptAssurance
  <2>1. phase \in Building \ BehindMutants /\ "mutation" \in Building \ BehindMutants
    BY <1>3, StepFacts DEF AcceptAssurance
  <2>2. Stage({})
    BY <1>3, <2>1, StageFacts, StepFacts, GateHolds, PassedNext
    DEF AcceptAssurance, Stage, Held, Settings
  <2> QED
    BY <2>2, StageKeeps
<1>4. CASE AnalyzeMutations
  <2>1. phase \in Building \ BehindMutants /\ phase = "mutation"
    BY <1>4, StepFacts DEF AnalyzeMutations
  <2>2. failing[run] \cap GatesBefore("mutation") = {}
    BY <2>1, StageFacts, GatesBehind
  <2>3. failing[run] \cap Passed("traceability") = {}
    BY <2>1, StageFacts, PassedNext
  <2>4. /\ exitCode' \in {0, 1}
        /\ \/ phase' = "exited"
           \/ /\ phase' = "traceability"
              /\ gated => "survivingMutants" \notin failing[run]
    BY <1>4, <2>1, StageFacts DEF AnalyzeMutations, Gate, Fails, Exit, Proceed
  <2>5. "traceability" \in Building /\ "exited" \in Resting
    BY StepFacts DEF BehindMutants
  <2>6. Stage({"mutation"})
    BY <1>4, <2>1, <2>2, <2>3, <2>4, <2>5, StageFacts
    DEF AnalyzeMutations, Stage, Held, Settings, Write
  <2> QED
    BY <2>6, StageKeeps DEF Files
<1>5. CASE AcceptTraceability
  <2>1. /\ phase = "traceability" /\ phase \in Building /\ phase \in BehindMutants
        /\ "timing" \in Building /\ "timing" \in BehindMutants
        /\ "exited" \in Resting
    BY <1>5, StepFacts DEF AcceptTraceability, BehindMutants
  <2>2. Held("traceability")
    BY <2>1, StepFacts DEF PhaseInv
  <2>3. Stage({})
    BY <1>5, <2>1, <2>2, StageFacts, StepFacts, GateHolds, PassedNext
    DEF AcceptTraceability, Stage, Held, Settings
  <2> QED
    BY <2>3, StageKeeps
<1> QED
  BY <1>1, <1>2, <1>3, <1>4, <1>5

LEMMA ClosingKeeps ==
  PhaseInv /\ (MeasureHost \/ Rebuild \/ WriteSummary \/ WriteManifest
                 \/ ValidateSchemas)
    => PhaseInv'
<1> SUFFICES ASSUME PhaseInv,
                    MeasureHost \/ Rebuild \/ WriteSummary \/ WriteManifest
                      \/ ValidateSchemas
             PROVE  PhaseInv'
  OBVIOUS
<1>1. /\ {"timing", "rebuilding", "summary", "manifest", "validation",
          "finalManifest"} \subseteq BehindMutants
      /\ BehindMutants \subseteq Building /\ Building \subseteq Steps
      /\ "exited" \in Resting
  BY StepFacts DEF BehindMutants
<1>2. /\ phase \in BehindMutants /\ phase \in Building
      /\ gated => "survivingMutants" \notin failing[run]
      /\ failing[run] \cap Passed(phase) = {}
      /\ listed \in [Files -> 0..MaxRuns] /\ exitCode \in {0, 1}
  <2>1. phase \in BehindMutants /\ phase \in Building
    BY <1>1 DEF MeasureHost, Rebuild, WriteSummary, WriteManifest, ValidateSchemas
  <2> QED
    BY <1>1, <2>1 DEF PhaseInv, Held, TypeOK
<1>3. CASE MeasureHost
  <2>1. phase = "timing" /\ UNCHANGED Settings /\ listed' = listed
    BY <1>3 DEF MeasureHost
  <2>2. CASE Fails({"hostTiming"})
    <3>1. Exit(1) /\ output' = output
      BY <1>3, <2>2 DEF MeasureHost
    <3>2. Stage({})
      BY <1>1, <1>2, <2>1, <3>1, StageFacts DEF Stage, Exit, Settings
    <3> QED
      BY <3>2, StageKeeps
  <2>3. CASE ~Fails({"hostTiming"})
    <3> DEFINE measured == {"platform"} \cup (IF compile THEN {"timing"} ELSE {})
    <3>1. measured \subseteq {"timing", "platform"} /\ measured \in SUBSET Files
      BY DEF Files
    <3>2. Write(measured) /\ Proceed("rebuilding")
      BY <1>3, <2>3 DEF MeasureHost
    <3> HIDE DEF measured
    <3>3. "hostTiming" \notin failing[run]
      BY <2>3 DEF Fails
    <3>4. \A f \in measured : failing[run] \cap GatesBefore(f) = {}
      BY <1>2, <2>1, <3>1, <3>3, GatesBehind
    <3>5. failing[run] \cap Passed("rebuilding") = {}
      BY <1>2, <2>1, <3>3, PassedNext
    <3>6. Stage(measured)
      BY <1>1, <1>2, <2>1, <3>2, <3>4, <3>5 DEF Stage, Held, Settings, Write, Proceed
    <3> QED
      BY <3>1, <3>6, StageKeeps
  <2> QED
    BY <2>2, <2>3
<1>4. CASE Rebuild
  <2>1. UNCHANGED Settings /\ listed' = listed
    BY <1>4 DEF Rebuild
  <2>2. CASE Write({"reproducibility"}) /\ Gate({"rebuild"}, "summary")
    <3>1. failing[run] \cap GatesBefore("reproducibility") = {}
      BY <1>2, <1>4, GatesBehind DEF Rebuild
    <3>2. /\ exitCode' \in {0, 1}
          /\ \/ phase' = "exited"
             \/ phase' = "summary" /\ failing[run] \cap Passed("summary") = {}
      BY <1>1, <1>2, <1>4, <2>1, <2>2, GateHolds, PassedNext DEF Rebuild
    <3>3. Stage({"reproducibility"})
      BY <1>1, <1>2, <2>1, <2>2, <3>1, <3>2 DEF Stage, Held, Settings, Write
    <3> QED
      BY <3>3, StageKeeps DEF Files
  <2>3. CASE Exit(1) /\ UNCHANGED output
    <3>1. Stage({})
      BY <1>1, <1>2, <2>1, <2>3, StageFacts DEF Stage, Exit, Settings
    <3> QED
      BY <3>1, StageKeeps
  <2> QED
    BY <1>4, <2>2, <2>3 DEF Rebuild
<1>5. CASE WriteSummary
  <2>1. failing[run] \cap GatesBefore("summary") = {}
    BY <1>2, <1>5, GatesBehind DEF WriteSummary
  <2>2. failing[run] \cap Passed("manifest") = {}
    BY <1>2, <1>5, PassedNext DEF WriteSummary
  <2>3. Stage({"summary"})
    BY <1>1, <1>2, <1>5, <2>1, <2>2
    DEF WriteSummary, Stage, Held, Settings, Write, Proceed
  <2> QED
    BY <2>3, StageKeeps DEF Files
<1>6. CASE WriteManifest
  <2>1. failing[run] \cap GatesBefore("manifest") = {}
    BY <1>2, <1>6, GatesBehind DEF WriteManifest
  <2>2. Inventory \in [Files -> 0..MaxRuns]
    BY MaxRunsAssumption DEF PhaseInv, TypeOK, Inventory
  <2>3. /\ exitCode' \in {0, 1}
        /\ \/ phase' = "exited"
           \/ phase' = "validation" /\ failing[run] \cap Passed("validation") = {}
    BY <1>2, <1>6, PassedNext DEF WriteManifest, Proceed, Exit
  <2>4. Stage({"manifest"})
    BY <1>1, <1>2, <1>6, <2>1, <2>2, <2>3
    DEF WriteManifest, Stage, Held, Settings, Write
  <2> QED
    BY <2>4, StageKeeps DEF Files
<1>7. CASE ValidateSchemas
  <2>1. failing[run] \cap GatesBefore("schemaReport") = {}
    BY <1>2, <1>7, GatesBehind DEF ValidateSchemas
  <2>2. /\ exitCode' \in {0, 1}
        /\ \/ phase' = "exited"
           \/ /\ phase' = "finalManifest"
              /\ failing[run] \cap Passed("finalManifest") = {}
    BY <1>2, <1>7, PassedNext DEF ValidateSchemas, Gate, Exit, Proceed
  <2>3. Stage({"schemaReport"})
    BY <1>1, <1>2, <1>7, <2>1, <2>2
    DEF ValidateSchemas, Stage, Held, Settings, Write
  <2> QED
    BY <2>3, StageKeeps DEF Files
<1> QED
  BY <1>3, <1>4, <1>5, <1>6, <1>7

-----------------------------------------------------------------------------
(* Nothing has been written.                                               *)
LEMMA InitialPhase == Init => PhaseInv
<1> SUFFICES ASSUME Init PROVE PhaseInv
  OBVIOUS
<1>1. compile \in BOOLEAN /\ gated \in BOOLEAN
  BY Zenon DEF Init
<1>2. /\ run = 0 /\ failing = [r \in 1..MaxRuns |-> {}] /\ phase = "exited"
      /\ output = Empty /\ listed = Empty /\ exitCode = 0
  BY DEF Init
<1>3. Empty \in [Files -> 0..MaxRuns] /\ \A f \in Files : Empty[f] = 0
  BY MaxRunsAssumption DEF Empty
<1>4. phase \in Resting /\ phase \notin Steps /\ phase \notin Building
  BY <1>2, StepFacts
<1>5. TypeOK
  BY <1>1, <1>2, <1>3, <1>4, MaxRunsAssumption DEF TypeOK
<1> QED
  BY <1>2, <1>3, <1>4, <1>5
  DEF PhaseInv, NoEvidenceBehindAFailedGate, EvidenceOfOneRun

(* The inductive invariant: what the stages have checked, what they have   *)
(* written, and the two properties of the directory.                       *)
THEOREM PhasesCorrect == Spec => []PhaseInv
<1>1. Init => PhaseInv
  BY InitialPhase
<1>2. PhaseInv /\ [Next]_vars => PhaseInv'
  <2>1. PhaseInv /\ UNCHANGED vars => PhaseInv'
    <3> SUFFICES ASSUME PhaseInv, UNCHANGED vars PROVE PhaseInv'
      OBVIOUS
    <3>1. /\ run' = run /\ failing' = failing /\ compile' = compile /\ gated' = gated
          /\ phase' = phase /\ output' = output /\ listed' = listed
          /\ exitCode' = exitCode
      BY DEF vars
    <3> QED
      BY <3>1 DEF PhaseInv, TypeOK, Held, NoEvidenceBehindAFailedGate,
                  EvidenceOfOneRun
  <2> QED
    BY <2>1, InvokeKeeps, OpeningKeeps, CoreKeeps, AssuranceKeeps, ClosingKeeps
    DEF Next, Step
<1> QED
  BY <1>1, <1>2, PTL DEF Spec

(* The variables keep their declared values.                               *)
THEOREM TypeCorrect == Spec => []TypeOK
<1>1. PhaseInv => TypeOK
  BY DEF PhaseInv
<1> QED
  BY <1>1, PhasesCorrect, PTL

(* No artifact exists behind a gate that failed in the invocation that     *)
(* wrote it, whatever was killed or failed before.                         *)
THEOREM GatesCorrect == Spec => []NoEvidenceBehindAFailedGate
<1>1. PhaseInv => NoEvidenceBehindAFailedGate
  BY DEF PhaseInv
<1> QED
  BY <1>1, PhasesCorrect, PTL

(* The directory never holds the files of two invocations.                 *)
THEOREM DirectoryOfOneRun == Spec => []EvidenceOfOneRun
<1>1. PhaseInv => EvidenceOfOneRun
  BY DEF PhaseInv
<1> QED
  BY <1>1, PhasesCorrect, PTL

-----------------------------------------------------------------------------
(* What the manifest says of the directory, and what a complete directory  *)
(* says of the invocation.  To PhaseInv the invariant adds that a stage    *)
(* finds the files of all the stages before it (Done), and no manifest     *)
(* before the first one of this invocation.                                *)

(* The files that this invocation has written when a stage is reached.     *)
Done(p) ==
  {f \in Files :
     \/ f \in {"sources", "backendIndependence"} /\ p \notin ToBackend
     \/ f \in {"referenceTraces", "traces", "externalIndependence"}
          /\ p \notin ToExecution
     \/ f = "threeWay" /\ p \notin ToExternal
     \/ f = "reports" /\ p \notin ToExternal \cup {"reporting"}
     \/ f = "inputDomain" /\ p \notin ToCore \cup {"domain"}
     \/ f \in ToolFiles /\ p \notin ToAssurance \ {"assurance"}
     \/ \E i, j \in 1..Len(Tools) : j < i /\ p = Tools[i] /\ f = Tools[j]
     \/ f = "mutation" /\ p \notin ToAssurance \cup {"mutation"}
     \/ f = "platform" /\ p \notin ToTraceability \cup {"timing"}
     \/ f = "reproducibility" /\ p \notin ToRebuild
     \/ f = "summary" /\ p \in {"manifest", "validation", "finalManifest"}
     \/ f = "manifest" /\ p \in {"validation", "finalManifest"}
     \/ f = "schemaReport" /\ p = "finalManifest"}

Complete == \A f \in Files \ {"timing"} : output[f] # 0

ResultInv ==
  /\ PhaseInv
  /\ phase \in Building => \A f \in Done(phase) : output[f] = run
  /\ phase \in Building \ {"validation", "finalManifest"} => output["manifest"] = 0
  /\ phase = "finalManifest" => "schemas" \notin failing[run]
  /\ ManifestIsAccurate
  /\ phase = "exited" /\ exitCode = 0 /\ run > 0 =>
       Complete /\ output["summary"] = run /\ "schemas" \notin failing[run]

LEMMA ToolNames ==
  /\ Len(Tools) = 6
  /\ Tools[1] = "obligations" /\ Tools[2] = "domainValidation"
  /\ Tools[3] = "synthesized" /\ Tools[4] = "obligationReduced"
  /\ Tools[5] = "mutationReduced" /\ Tools[6] = "comparison"
BY DEF Tools

(* What a stage leaves beyond what it finds.                               *)
LEMMA DoneNext ==
  /\ Done("frontEnd") = {} /\ Done("backend") = {}
  /\ Done("execution") \subseteq {"sources", "backendIndependence"}
  /\ Done("external") \subseteq Done("execution")
       \cup {"referenceTraces", "traces", "externalIndependence"}
  /\ Done("reporting") \subseteq Done("external") \cup {"threeWay"}
  /\ Done("core") \subseteq Done("reporting") \cup {"reports"}
  /\ Done("domain") \subseteq Done("core")
  /\ Done(Tools[1]) \subseteq Done("domain") \cup {"inputDomain"}
  /\ Done("mutation") \subseteq Done("assurance")
  /\ Done("traceability") \subseteq Done("mutation") \cup {"mutation"}
  /\ Done("timing") \subseteq Done("traceability")
  /\ Done("rebuilding") \subseteq Done("timing") \cup {"platform"}
  /\ Done("summary") \subseteq Done("rebuilding") \cup {"reproducibility"}
  /\ Done("manifest") \subseteq Done("summary") \cup {"summary"}
  /\ Done("validation") \subseteq Done("manifest") \cup {"manifest"}
  /\ Done("finalManifest") \subseteq Done("validation") \cup {"schemaReport"}
  /\ Done("finalManifest") = Files \ {"timing"}
BY ToolNames, ToolFacts
DEF Done, ToFrontEnd, ToBackend, ToExecution, ToExternal, ToCore, ToAssurance,
    ToTraceability, ToRebuild, Files

LEMMA DoneTools ==
  /\ \A i \in 1..(Len(Tools) - 1) :
       Done(Tools[i + 1]) \subseteq Done(Tools[i]) \cup {Tools[i]}
  /\ Done("assurance") \subseteq Done(Tools[Len(Tools)]) \cup {Tools[Len(Tools)]}
<1>1. /\ Done(Tools[2]) \subseteq Done(Tools[1]) \cup {Tools[1]}
      /\ Done(Tools[3]) \subseteq Done(Tools[2]) \cup {Tools[2]}
      /\ Done(Tools[4]) \subseteq Done(Tools[3]) \cup {Tools[3]}
  BY ToolNames, ToolFacts
  DEF Done, ToFrontEnd, ToBackend, ToExecution, ToExternal, ToCore, ToAssurance,
      ToTraceability, ToRebuild
<1>2. /\ Done(Tools[5]) \subseteq Done(Tools[4]) \cup {Tools[4]}
      /\ Done(Tools[6]) \subseteq Done(Tools[5]) \cup {Tools[5]}
      /\ Done("assurance") \subseteq Done(Tools[6]) \cup {Tools[6]}
  BY ToolNames, ToolFacts
  DEF Done, ToFrontEnd, ToBackend, ToExecution, ToExternal, ToCore, ToAssurance,
      ToTraceability, ToRebuild
<1>3. \A i \in 1..(Len(Tools) - 1) : i = 1 \/ i = 2 \/ i = 3 \/ i = 4 \/ i = 5
  BY ToolNames
<1> QED
  BY <1>1, <1>2, <1>3, ToolNames
-----------------------------------------------------------------------------
(* A stage adds files of its own invocation and takes none away.           *)
LEMMA StageAdds ==
  ASSUME PhaseInv, Step, phase \in Building
  PROVE  /\ UNCHANGED Settings
         /\ output' \in [Files -> 0..MaxRuns]
         /\ \A f \in Files : output'[f] \in {output[f], run}
<1>1. phase \notin {"loading", "clearing"}
  BY ToolFacts DEF Building
<1>2. ~LoadApplication /\ ~RemoveEntry /\ ~OutputCleared
  BY <1>1 DEF LoadApplication, RemoveEntry, OutputCleared
<1>3. UNCHANGED Settings
  BY <1>2 DEF Step, CompileProgram, GenerateBackend, ExecuteBackend,
              ExecuteExternal, WriteReports, AcceptCore, CopyInputDomain, RunTool,
              AcceptAssurance, AnalyzeMutations, AcceptTraceability, MeasureHost,
              Rebuild, WriteSummary, WriteManifest, ValidateSchemas, Settings
<1>4. output' = output \/ \E files : Write(files)
  <2>1. CASE CompileProgram \/ AcceptCore \/ AcceptAssurance \/ AcceptTraceability
    BY <2>1 DEF CompileProgram, AcceptCore, AcceptAssurance, AcceptTraceability
  <2>2. CASE GenerateBackend \/ ExecuteBackend \/ ExecuteExternal \/ WriteReports
    BY <2>2 DEF GenerateBackend, ExecuteBackend, ExecuteExternal, WriteReports
  <2>3. CASE CopyInputDomain \/ RunTool \/ AnalyzeMutations \/ MeasureHost
    BY <2>3 DEF CopyInputDomain, RunTool, AnalyzeMutations, MeasureHost
  <2>4. CASE Rebuild \/ WriteSummary \/ WriteManifest \/ ValidateSchemas
    BY <2>4 DEF Rebuild, WriteSummary, WriteManifest, ValidateSchemas
  <2> QED
    BY <1>2, <2>1, <2>2, <2>3, <2>4 DEF Step
<1>5. output \in [Files -> 0..MaxRuns] /\ run \in 0..MaxRuns
  BY DEF PhaseInv, TypeOK
<1> QED
  BY <1>3, <1>4, <1>5 DEF Write

(* The next stage finds what this one found and wrote.                     *)
LEMMA StageLeaves ==
  ASSUME PhaseInv, Step, phase \in Building, phase' \in Building
  PROVE  \A f \in Done(phase') : f \in Done(phase) \/ output'[f] = run
<1>1. phase \notin {"loading", "clearing"} /\ phase' # "exited"
  BY ToolFacts DEF Building, Steps
<1>2. ~LoadApplication /\ ~RemoveEntry /\ ~OutputCleared
  BY <1>1 DEF LoadApplication, RemoveEntry, OutputCleared
<1>3. \A f \in Done(phase') : f \in Files
  BY DEF Done
<1>4. CASE CompileProgram \/ GenerateBackend \/ ExecuteBackend
  BY <1>1, <1>3, <1>4, DoneNext
  DEF CompileProgram, GenerateBackend, ExecuteBackend, Gate, Exit, Proceed, Write
<1>5. CASE ExecuteExternal \/ WriteReports \/ AcceptCore
  BY <1>1, <1>3, <1>5, DoneNext
  DEF ExecuteExternal, WriteReports, AcceptCore, Gate, Exit, Proceed, Write
<1>6. CASE CopyInputDomain
  BY <1>3, <1>6, DoneNext DEF CopyInputDomain, Proceed, Write
<1>7. CASE RunTool
  <2>1. PICK i \in 1..Len(Tools) :
          /\ phase = Tools[i]
          /\ Write({Tools[i]})
          /\ Gate({Tools[i]},
                  IF i < Len(Tools) THEN Tools[i + 1] ELSE "assurance")
    BY <1>7 DEF RunTool
  <2>2. phase' = IF i < Len(Tools) THEN Tools[i + 1] ELSE "assurance"
    BY <1>1, <2>1 DEF Gate, Exit, Proceed
  <2>3. Done(phase') \subseteq Done(phase) \cup {Tools[i]}
    <3>1. CASE i < Len(Tools)
      <4>1. i \in 1..(Len(Tools) - 1)
        BY <3>1, ToolNames
      <4> QED
        BY <2>1, <2>2, <3>1, <4>1, DoneTools
    <3>2. CASE ~(i < Len(Tools))
      <4>1. i = Len(Tools)
        BY <3>2, ToolNames
      <4> QED
        BY <2>1, <2>2, <3>2, <4>1, DoneTools
    <3> QED
      BY <3>1, <3>2
  <2> QED
    BY <1>3, <2>1, <2>3 DEF Write
<1>8. CASE AcceptAssurance \/ AnalyzeMutations \/ AcceptTraceability
  BY <1>1, <1>3, <1>8, DoneNext
  DEF AcceptAssurance, AnalyzeMutations, AcceptTraceability, Gate, Exit, Proceed, Write
<1>9. CASE MeasureHost \/ Rebuild \/ WriteSummary
  BY <1>1, <1>3, <1>9, DoneNext
  DEF MeasureHost, Rebuild, WriteSummary, Gate, Exit, Proceed, Write
<1>10. CASE WriteManifest \/ ValidateSchemas
  BY <1>1, <1>3, <1>10, DoneNext
  DEF WriteManifest, ValidateSchemas, Gate, Exit, Proceed, Write
<1> QED
  BY <1>2, <1>4, <1>5, <1>6, <1>7, <1>8, <1>9, <1>10 DEF Step
(* The manifest is written before and after the schema report and nowhere  *)
(* else, and an invocation succeeds with the second one only.              *)
LEMMA ClosingOrder ==
  ASSUME PhaseInv, Step, phase \in Building
  PROVE  /\ ~WriteManifest => listed' = listed /\ output'["manifest"] = output["manifest"]
         /\ phase' = "validation" => WriteManifest
         /\ phase' = "finalManifest" =>
              ValidateSchemas /\ "schemas" \notin failing[run]
         /\ phase' = "exited" /\ exitCode' = 0 =>
              WriteManifest /\ phase = "finalManifest"
<1>1. phase \notin {"loading", "clearing"}
  BY ToolFacts DEF Building
<1>2. ~LoadApplication /\ ~RemoveEntry /\ ~OutputCleared
  BY <1>1 DEF LoadApplication, RemoveEntry, OutputCleared
<1>3. CASE CompileProgram \/ GenerateBackend \/ ExecuteBackend
  BY <1>3
  DEF CompileProgram, GenerateBackend, ExecuteBackend, Gate, Exit, Proceed, Write, Files
<1>4. CASE ExecuteExternal \/ WriteReports \/ AcceptCore
  BY <1>4
  DEF ExecuteExternal, WriteReports, AcceptCore, Gate, Exit, Proceed, Write, Files
<1>5. CASE CopyInputDomain
  BY <1>5, ToolNames DEF CopyInputDomain, Proceed, Write, Files
<1>6. CASE RunTool
  <2>1. PICK i \in 1..Len(Tools) :
          /\ phase = Tools[i]
          /\ Write({Tools[i]})
          /\ Gate({Tools[i]},
                  IF i < Len(Tools) THEN Tools[i + 1] ELSE "assurance")
          /\ UNCHANGED <<Settings, listed>>
    BY <1>6 DEF RunTool
  <2> DEFINE next == IF i < Len(Tools) THEN Tools[i + 1] ELSE "assurance"
  <2>2. next \in ToolFiles \cup {"assurance"}
    BY ToolFacts
  <2>3. next \notin {"validation", "finalManifest", "exited"}
    BY <2>2, ToolFacts
  <2>4. Tools[i] # "manifest"
    BY ToolFacts
  <2>5. listed' = listed /\ output'["manifest"] = output["manifest"]
    BY <2>1, <2>4 DEF Write, Files
  <2>6. (phase' = "exited" /\ exitCode' = 1) \/ phase' = next
    BY <2>1 DEF Gate, Exit, Proceed
  <2> QED
    BY <2>3, <2>5, <2>6
<1>7. CASE AcceptAssurance \/ AnalyzeMutations \/ AcceptTraceability
  BY <1>7
  DEF AcceptAssurance, AnalyzeMutations, AcceptTraceability, Gate, Exit, Proceed, Write,
      Files
<1>8. CASE MeasureHost \/ Rebuild \/ WriteSummary
  BY <1>8 DEF MeasureHost, Rebuild, WriteSummary, Gate, Exit, Proceed, Write, Files
<1>9. CASE WriteManifest
  BY <1>9 DEF WriteManifest, Exit, Proceed
<1>10. CASE ValidateSchemas
  BY <1>10 DEF ValidateSchemas, Gate, Fails, Exit, Proceed, Write, Files
<1> QED
  BY <1>2, <1>3, <1>4, <1>5, <1>6, <1>7, <1>8, <1>9, <1>10 DEF Step

LEMMA ResultKeptByStage ==
  ASSUME ResultInv, Step, phase \in Building, PhaseInv'
  PROVE  ResultInv'
<1>1. /\ run' = run /\ failing' = failing /\ run > 0
      /\ output \in [Files -> 0..MaxRuns]
      /\ \A f \in Files : output'[f] \in {output[f], run}
  BY StageAdds, StepFacts DEF ResultInv, PhaseInv, TypeOK, Settings
<1>2. phase' \in Building => \A f \in Done(phase') : output'[f] = run'
  <2> SUFFICES ASSUME phase' \in Building, NEW f \in Done(phase')
               PROVE  output'[f] = run
    BY <1>1
  <2>1. f \in Files
    BY DEF Done
  <2>2. f \in Done(phase) => output[f] = run
    BY DEF ResultInv
  <2> QED
    BY <1>1, <2>1, <2>2, StageLeaves DEF ResultInv
<1>3. /\ ~WriteManifest => listed' = listed /\ output'["manifest"] = output["manifest"]
      /\ phase' = "validation" => WriteManifest
      /\ phase' = "finalManifest" =>
           ValidateSchemas /\ "schemas" \notin failing[run]
      /\ phase' = "exited" /\ exitCode' = 0 =>
           WriteManifest /\ phase = "finalManifest"
  BY ClosingOrder DEF ResultInv
<1>4. phase' \in Building \ {"validation", "finalManifest"} => output'["manifest"] = 0
  <2>1. phase' \in Building => phase' # "exited"
    BY StepFacts
  <2>2. WriteManifest => phase' \in {"validation", "exited"}
    BY DEF WriteManifest, Exit, Proceed
  <2>3. phase \in {"validation", "finalManifest"} =>
          phase' \in {"exited", "finalManifest"}
    BY ToolFacts
    DEF Step, LoadApplication, RemoveEntry, OutputCleared, CompileProgram,
        GenerateBackend, ExecuteBackend, ExecuteExternal, WriteReports, AcceptCore,
        CopyInputDomain, RunTool, AcceptAssurance, AnalyzeMutations,
        AcceptTraceability, MeasureHost, Rebuild, WriteSummary, WriteManifest,
        ValidateSchemas, Gate, Exit, Proceed
  <2> QED
    BY <1>3, <2>1, <2>2, <2>3 DEF ResultInv
<1>5. \A f \in Files \ Unlisted : WriteManifest =>
        listed'[f] = output'[f] /\ output'[f] = output[f]
  BY <1>1 DEF WriteManifest, Write, Inventory, Unlisted
<1>6. ManifestIsAccurate'
  <2>1. ASSUME output'["manifest"] # 0, NEW f \in Files \ Unlisted, output'[f] # 0
        PROVE  listed'[f] = output'[f]
    <3>1. CASE WriteManifest
      BY <1>5, <3>1
    <3>2. CASE ~WriteManifest
      <4>1. output["manifest"] # 0 /\ listed' = listed
        BY <1>3, <2>1, <3>2
      <4>2. phase \in {"validation", "finalManifest"}
        BY <4>1 DEF ResultInv
      <4>3. ValidateSchemas
        BY <3>2, <4>2, ToolFacts
        DEF Step, LoadApplication, RemoveEntry, OutputCleared, CompileProgram,
            GenerateBackend, ExecuteBackend, ExecuteExternal, WriteReports, AcceptCore,
            CopyInputDomain, RunTool, AcceptAssurance, AnalyzeMutations,
            AcceptTraceability, MeasureHost, Rebuild, WriteSummary
      <4>4. output'[f] = output[f]
        BY <4>3 DEF ValidateSchemas, Write, Unlisted
      <4> QED
        BY <2>1, <4>1, <4>4 DEF ResultInv, ManifestIsAccurate
    <3> QED
      BY <3>1, <3>2
  <2>2. ASSUME phase' = "exited", exitCode' = 0, NEW f \in Files, listed'[f] # 0
        PROVE  output'[f] = listed'[f]
    <3>1. WriteManifest
      BY <1>3, <2>2
    <3>2. f \notin Unlisted
      BY <2>2, <3>1 DEF WriteManifest, Inventory
    <3> QED
      BY <1>5, <3>1, <3>2
  <2> QED
    BY <2>1, <2>2 DEF ManifestIsAccurate
<1>7. phase' = "exited" /\ exitCode' = 0 =>
        Complete' /\ output'["summary"] = run' /\ "schemas" \notin failing'[run']
  <2> SUFFICES ASSUME phase' = "exited", exitCode' = 0
               PROVE  /\ Complete' /\ output'["summary"] = run
                      /\ "schemas" \notin failing[run]
    BY <1>1
  <2>1. phase = "finalManifest"
    BY <1>3
  <2>2. \A f \in Files \ {"timing"} : output[f] = run
    BY <2>1, DoneNext DEF ResultInv
  <2>3. \A f \in Files \ {"timing"} : output'[f] = run
    BY <1>1, <2>2
  <2> QED
    BY <1>1, <2>1, <2>3 DEF ResultInv, Complete, Files
<1> QED
  BY <1>1, <1>2, <1>3, <1>4, <1>6, <1>7 DEF ResultInv
-----------------------------------------------------------------------------
(* Before the first stage, and when an invocation is killed, files only    *)
(* disappear.                                                              *)
LEMMA ResultKeptOutside ==
  ASSUME ResultInv, PhaseInv', Invoke \/ Kill \/ (Step /\ phase \notin Building)
  PROVE  ResultInv'
<1>1. CASE Invoke
  <2>1. /\ output' = output /\ listed' = listed /\ phase' = "loading"
    BY <1>1 DEF Invoke
  <2> QED
    BY <2>1, ToolFacts DEF ResultInv, ManifestIsAccurate, Building
<1>2. CASE Kill
  <2>1. /\ output' = output /\ listed' = listed /\ phase' = "killed"
    BY <1>2 DEF Kill
  <2>2. "killed" \notin Building
    BY StepFacts
  <2> QED
    BY <2>1, <2>2 DEF ResultInv, ManifestIsAccurate
<1>3. CASE Step /\ phase \notin Building
  <2>1. phase \in {"loading", "clearing"} \cup Resting
    BY <1>3 DEF ResultInv, PhaseInv, TypeOK, Building
  <2>2. LoadApplication \/ RemoveEntry \/ OutputCleared
    BY <1>3, <2>1, ToolFacts
    DEF Step, Resting, CompileProgram, GenerateBackend, ExecuteBackend,
        ExecuteExternal, WriteReports, AcceptCore, CopyInputDomain, RunTool,
        AcceptAssurance, AnalyzeMutations, AcceptTraceability, MeasureHost, Rebuild,
        WriteSummary, WriteManifest, ValidateSchemas
  <2>3. CASE LoadApplication
    <3>1. /\ output' = output /\ listed' = listed
          /\ phase' = "clearing" \/ (phase' = "exited" /\ exitCode' = 1)
      BY <2>3 DEF LoadApplication, Gate, Exit, Proceed
    <3>2. "clearing" \notin Building /\ "exited" \notin Building
      BY StepFacts, ToolFacts DEF Building
    <3> QED
      BY <3>1, <3>2 DEF ResultInv, ManifestIsAccurate
  <2>4. CASE RemoveEntry
    <3>1. /\ listed' = listed /\ phase' = "clearing"
          /\ \A f \in Files : output'[f] \in {0, output[f]}
      BY <2>4 DEF RemoveEntry
    <3>2. "clearing" \notin Building
      BY DEF Building
    <3>3. ManifestIsAccurate'
      BY <3>1 DEF ResultInv, ManifestIsAccurate, Files
    <3> QED
      BY <3>1, <3>2, <3>3 DEF ResultInv
  <2>5. CASE OutputCleared
    <3>1. /\ phase' = "frontEnd"
          /\ \A f \in Files : output'[f] = 0
      BY <2>5 DEF OutputCleared, Proceed, Empty
    <3>2. ManifestIsAccurate'
      BY <3>1 DEF ManifestIsAccurate, Files
    <3> QED
      BY <3>1, <3>2, DoneNext DEF ResultInv, Files
  <2> QED
    BY <2>2, <2>3, <2>4, <2>5
<1> QED
  BY <1>1, <1>2, <1>3

(* The inductive invariant: what each stage finds, and what the directory  *)
(* of an invocation that succeeds holds.                                   *)
THEOREM ResultsCorrect == Spec => []ResultInv
<1>1. Init => ResultInv
  <2> SUFFICES ASSUME Init PROVE ResultInv
    OBVIOUS
  <2>1. PhaseInv
    BY InitialPhase
  <2>2. run = 0 /\ phase = "exited" /\ output = Empty
    BY DEF Init
  <2>3. \A f \in Files : output[f] = 0
    BY <2>2 DEF Empty
  <2>4. phase \notin Building /\ phase # "finalManifest"
    BY <2>2, StepFacts
  <2> QED
    BY <2>1, <2>2, <2>3, <2>4 DEF ResultInv, ManifestIsAccurate, Files
<1>2. ResultInv /\ PhaseInv' /\ [Next]_vars => ResultInv'
  <2>1. ResultInv /\ PhaseInv' /\ UNCHANGED vars => ResultInv'
    BY DEF ResultInv, ManifestIsAccurate, Complete, vars
  <2> QED
    BY <2>1, ResultKeptByStage, ResultKeptOutside DEF Next
<1> QED
  BY <1>1, <1>2, PhasesCorrect, PTL DEF Spec

(* While there is a manifest it lists the evidence beside it as it is, and *)
(* after a success nothing that is not there.                              *)
THEOREM ManifestCorrect == Spec => []ManifestIsAccurate
<1>1. ResultInv => ManifestIsAccurate
  BY DEF ResultInv
<1> QED
  BY <1>1, ResultsCorrect, PTL

(* A complete directory is the evidence of one invocation in which every   *)
(* gate held, and an invocation that succeeds leaves one.                  *)
THEOREM CompletenessCorrect == Spec => []CompleteDirectoryIsEvidence
<1>1. ResultInv => CompleteDirectoryIsEvidence
  <2> SUFFICES ASSUME ResultInv PROVE CompleteDirectoryIsEvidence
    OBVIOUS
  <2> DEFINE writer == output["summary"]
  <2>1. Checks \subseteq GatesBefore("summary") \cup {"survivingMutants", "schemas"}
    BY ToolFacts
    DEF Checks, GatesBefore, BackendFiles, TraceFiles, ExternalFiles, ReportFiles,
        AssuranceFiles, MutationFiles, ClosingFiles, ClaimFiles, Files
  <2>2. ASSUME Complete, "schemas" \notin failing[writer]
        PROVE  failing[writer] \subseteq {"survivingMutants"}
    <3>1. writer # 0
      BY <2>2 DEF Complete, Files
    <3>2. failing[writer] \cap GatesBefore("summary") = {}
      BY <3>1 DEF ResultInv, PhaseInv, NoEvidenceBehindAFailedGate, Files
    <3>3. writer \in 1..MaxRuns
      BY <3>1, MaxRunsAssumption DEF ResultInv, PhaseInv, TypeOK, Files
    <3>4. failing[writer] \subseteq Checks
      BY <3>3 DEF ResultInv, PhaseInv, TypeOK
    <3> QED
      BY <2>1, <2>2, <3>2, <3>4
  <2>3. phase = "exited" /\ exitCode = 0 /\ run > 0 =>
          Complete /\ writer = run /\ "schemas" \notin failing[run]
    BY DEF ResultInv
  <2> QED
    BY <2>2, <2>3 DEF CompleteDirectoryIsEvidence, Complete
<1> QED
  BY <1>1, ResultsCorrect, PTL
=============================================================================
