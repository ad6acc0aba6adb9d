----------------------- MODULE MultiCasePipeline_proofs -----------------------
(***************************************************************************)
(* Proofs about MultiCasePipeline, for any number of invocations,          *)
(* applications and failing checks: the type invariant, and the properties *)
(* of what the directories and the exit code say of the last invocation.   *)
(***************************************************************************)
EXTENDS MultiCasePipeline, TLAPS

Phases == {"removing", "loading", "clearing", "cases", "comparing",
           "summarizing", "validating", "revising"} \cup Resting

Contents ==
  [run : Nat, fails : SUBSET Checks, bytes : Bytes,
   summary : {"missing", "provisional", "final"}, passed : BOOLEAN]

Processes ==
  [at : {"none", "started", "bundled", "summarized"}, fails : SUBSET Checks,
   bytes : Bytes]

Outputs ==
  [cases : [Ids -> Contents],
   reproducibility : {"none", "disabled", "identical", "different"},
   summary : [run : Nat, passed : BOOLEAN, authoritative : BOOLEAN],
   schemas : {"none", "valid", "invalid"}]

TypeOK ==
  /\ invocation \in Invocations
  /\ runs \in Nat
  /\ phase \in Phases
  /\ pass \in {"baseline", "reproduced"}
  /\ position \in Nat \ {0}
  /\ case \in Processes
  /\ collected \in Seq(Contents)
  /\ output \in Outputs
  /\ reproduced \in [Ids -> Contents]
  /\ exitCode \in {"none", "0", "1", "2", "3"}

-----------------------------------------------------------------------------
(* The invariant                                                           *)

Preparing == {"removing", "loading", "clearing"}
Closing == {"comparing", "summarizing", "validating", "revising"}

(* The invocation ended with the verdict of its summary.                   *)
Concluded == phase = "exited" /\ exitCode \in {"0", "3"}

ReadChecks ==
  ProfileChecks \cup BundleChecks \cup CoreChecks \cup ToolChecks
    \cup ComparisonChecks \cup ReportChecks \cup {"summarySchema"}

(* A validator runs only while cases are validated, and never on an        *)
(* identity that is taken.                                                 *)
ProcessInv ==
  case.at # "none" =>
    /\ phase = "cases"
    /\ position <= Len(invocation.suite)
    /\ IdOf[Manifest] \notin SeenIds

(* What a running validator has written so far is its own work.            *)
TreeInv ==
  /\ case.at \in {"bundled", "summarized"} =>
       /\ CaseTree[IdOf[Manifest]].run = runs
       /\ CaseTree[IdOf[Manifest]].fails = case.fails
       /\ case.fails \cap (ProfileChecks \cup BundleChecks) = {}
  /\ case.at = "summarized" =>
       /\ case.fails \cap ToolChecks = {}
       /\ CaseTree[IdOf[Manifest]].passed <=> CasePassed(case.fails)

(* How far the passes are.                                                 *)
PassInv ==
  /\ phase \in Preparing => pass = "baseline" /\ position = 1 /\ collected = <<>>
  /\ phase = "cases" =>
       /\ position <= Len(invocation.suite) + 1
       /\ pass = "baseline" => Len(collected) = position - 1
       /\ pass = "reproduced" => Len(collected) = Len(invocation.suite)
  /\ phase \in Closing \/ Concluded =>
       /\ position = Len(invocation.suite) + 1
       /\ Len(collected) = Len(invocation.suite)
       /\ invocation.check => pass = "reproduced"

(* What was collected is on disk, and was written by this invocation.      *)
CollectedInv ==
  /\ AggregatedIsOnDisk
  /\ \A i \in 1..Len(collected) :
       collected[i].run = runs /\ collected[i].fails \cap ReadChecks = {}
  /\ pass = "reproduced" =>
       \A i \in 1..(position - 1) :
         reproduced[IdOf[invocation.suite[i]]].run = runs

(* Nothing in the directory is older than the clearing of it.              *)
FreshInv ==
  /\ output.summary.run <= runs
  /\ phase \in Preparing => output.summary.run < runs
  /\ phase \in {"cases"} \cup Closing \/ Concluded =>
       \A id \in Ids :
         output.cases[id] = NoCase \/ (output.cases[id].run = runs /\ id \in SuiteIds)
  /\ phase \in {"cases", "comparing", "summarizing"} => output.summary = NoSummary
  /\ phase = "cases" => output.schemas = "none"

(* The documents of the root say what is so.                               *)
VerdictInv ==
  /\ phase \in {"summarizing", "validating", "revising"} \/ Concluded =>
       (output.reproducibility = "identical" => Reproduced)
  /\ phase \in {"validating", "revising"} \/ Concluded =>
       /\ output.summary.run = runs
       /\ output.summary.authoritative <=> invocation.compile /\ invocation.check
  /\ ExitCodeMatchesEvidence

Inv == TypeOK /\ ProcessInv /\ TreeInv /\ PassInv /\ CollectedInv /\ FreshInv
         /\ VerdictInv

-----------------------------------------------------------------------------

LEMMA Defaults ==
  /\ NoProcess \in Processes /\ NoProcess.at = "none"
  /\ NoCase \in Contents /\ NoCase.run = 0 /\ NoCase.summary = "missing"
  /\ NoCases \in [Ids -> Contents]
  /\ NoSummary \in [run : Nat, passed : BOOLEAN, authoritative : BOOLEAN]
  /\ NoSummary.run = 0 /\ NoSummary.passed = FALSE
  /\ EmptyOutput \in Outputs
  /\ EmptyOutput.cases = NoCases /\ EmptyOutput.summary = NoSummary
  /\ EmptyOutput.schemas = "none" /\ EmptyOutput.reproducibility = "none"
<1>1. (CHOOSE b \in Bytes : TRUE) \in Bytes
  BY BytesAssumption
<1>2. NoProcess \in Processes /\ NoProcess.at = "none"
  BY <1>1 DEF NoProcess, Processes
<1>3. NoCase \in Contents /\ NoCase.run = 0 /\ NoCase.summary = "missing"
  BY <1>1 DEF NoCase, Contents
<1>4. NoCases \in [Ids -> Contents]
  BY <1>3 DEF NoCases
<1>5. NoSummary \in [run : Nat, passed : BOOLEAN, authoritative : BOOLEAN]
      /\ NoSummary.run = 0 /\ NoSummary.passed = FALSE
  BY DEF NoSummary
<1>6. /\ EmptyOutput \in Outputs
      /\ EmptyOutput.cases = NoCases /\ EmptyOutput.summary = NoSummary
      /\ EmptyOutput.schemas = "none" /\ EmptyOutput.reproducibility = "none"
  BY <1>4, <1>5 DEF EmptyOutput, Outputs
<1> QED
  BY <1>2, <1>3, <1>4, <1>5, <1>6

(* The manifest of a running validator.                                    *)
LEMMA ManifestFacts ==
  ASSUME TypeOK, position <= Len(invocation.suite)
  PROVE  /\ Manifest \in Manifests /\ IdOf[Manifest] \in Ids
         /\ Manifest = invocation.suite[position]
         /\ IdOf[Manifest] \in SuiteIds
<1>1. invocation.suite \in Seq(Manifests)
  BY SuitesAssumption DEF TypeOK, Invocations
<1>2. position \in 1..Len(invocation.suite)
  BY <1>1 DEF TypeOK
<1>3. Manifest = invocation.suite[position]
  BY DEF Manifest
<1>4. Manifest \in Manifests
  BY <1>1, <1>2, <1>3
<1>5. IdOf[Manifest] \in Ids
  BY <1>4, IdOfAssumption
<1>6. IdOf[Manifest] \in SuiteIds
  BY <1>2, <1>3 DEF SuiteIds
<1> QED
  BY <1>3, <1>4, <1>5, <1>6

(* The directory of a pass that a validator writes into.                   *)
LEMMA TreeType ==
  ASSUME TypeOK
  PROVE  /\ CaseTree \in [Ids -> Contents]
         /\ output.cases \in [Ids -> Contents]
BY DEF TypeOK, Outputs, CaseTree

LEMMA WriteCaseFacts ==
  ASSUME TypeOK, NEW id \in Ids, NEW content \in Contents, WriteCase(id, content)
  PROVE  /\ output' \in Outputs /\ reproduced' \in [Ids -> Contents]
         /\ output'.summary = output.summary
         /\ output'.schemas = output.schemas
         /\ output'.reproducibility = output.reproducibility
         /\ pass = "baseline" =>
              /\ reproduced' = reproduced
              /\ output'.cases = [output.cases EXCEPT ![id] = content]
         /\ pass # "baseline" =>
              /\ output' = output
              /\ reproduced' = [reproduced EXCEPT ![id] = content]
<1>1. CASE pass = "baseline"
  <2>1. output' = [output EXCEPT !.cases[id] = content] /\ reproduced' = reproduced
    BY <1>1 DEF WriteCase
  <2>2. output'.cases = [output.cases EXCEPT ![id] = content]
    BY <2>1 DEF TypeOK, Outputs
  <2>3. output' \in Outputs
    BY <2>1 DEF TypeOK, Outputs
  <2> QED
    BY <1>1, <2>1, <2>2, <2>3 DEF TypeOK, Outputs
<1>2. CASE pass # "baseline"
  BY <1>2 DEF WriteCase, TypeOK, Outputs
<1> QED
  BY <1>1, <1>2

-----------------------------------------------------------------------------
(* The steps of a validator                                                *)

LEMMA StartedFacts ==
  ASSUME TypeOK, ProcessInv, BuildBundle
  PROVE  \/ /\ CaseFails /\ output' = output /\ reproduced' = reproduced
         \/ \E content \in Contents :
              /\ WriteCase(IdOf[Manifest], content)
              /\ content.run = runs /\ content.fails = case.fails
              /\ case.fails \cap ProfileChecks = {}
              /\ \/ CaseFails
                 \/ /\ case.fails \cap BundleChecks = {}
                    /\ case' = [case EXCEPT !.at = "bundled"]
                    /\ phase' = phase /\ exitCode' = exitCode
<1> DEFINE content == [run |-> runs, fails |-> case.fails, bytes |-> case.bytes,
                       summary |-> "missing", passed |-> FALSE]
<1>1. content \in Contents
  BY DEF TypeOK, Contents, Processes
<1>2. content.run = runs /\ content.fails = case.fails
  OBVIOUS
<1>3. CASE case.fails \cap ProfileChecks # {}
  BY <1>3 DEF BuildBundle
<1>4. CASE case.fails \cap ProfileChecks = {}
  <2>1. /\ WriteCase(IdOf[Manifest], content)
        /\ \/ CaseFails
           \/ /\ case.fails \cap BundleChecks = {}
              /\ case' = [case EXCEPT !.at = "bundled"]
              /\ phase' = phase /\ exitCode' = exitCode
    BY <1>4, Zenon DEF BuildBundle
  <2> HIDE DEF content
  <2> QED
    BY <1>1, <1>2, <1>4, <2>1
<1> QED
  BY <1>3, <1>4

LEMMA BundledFacts ==
  ASSUME TypeOK, ProcessInv, TreeInv, WriteCaseSummary
  PROVE  \/ /\ CaseFails /\ output' = output /\ reproduced' = reproduced
         \/ \E content \in Contents :
              /\ WriteCase(IdOf[Manifest], content)
              /\ content.run = runs /\ content.fails = case.fails
              /\ content.passed <=> CasePassed(case.fails)
              /\ case.fails \cap ToolChecks = {}
              /\ case' = [case EXCEPT !.at = "summarized"]
              /\ phase' = phase /\ exitCode' = exitCode
<1> DEFINE content == [CaseTree[IdOf[Manifest]] EXCEPT
                         !.summary = "provisional", !.passed = CasePassed(case.fails)]
<1>1. CasePassed(case.fails) \in BOOLEAN
  BY Zenon DEF CasePassed
<1>2. CaseTree[IdOf[Manifest]] \in Contents /\ case.at = "bundled"
  BY ManifestFacts, TreeType DEF WriteCaseSummary, ProcessInv
<1>3. content \in Contents
  BY <1>1, <1>2 DEF Contents
<1>4. /\ content.run = runs /\ content.fails = case.fails
      /\ content.passed = CasePassed(case.fails)
  BY <1>2 DEF TreeInv, Contents
<1>5. CASE case.fails \cap ToolChecks # {}
  BY <1>5 DEF WriteCaseSummary
<1>6. CASE case.fails \cap ToolChecks = {}
  <2>1. /\ WriteCase(IdOf[Manifest], content)
        /\ case' = [case EXCEPT !.at = "summarized"]
        /\ phase' = phase /\ exitCode' = exitCode
    BY <1>6, Zenon DEF WriteCaseSummary
  <2> HIDE DEF content
  <2> QED
    BY <1>3, <1>4, <1>6, <2>1, Zenon
<1> QED
  BY <1>5, <1>6

LEMMA SummarizedFacts ==
  ASSUME TypeOK, ProcessInv, TreeInv, ReviseCaseSummary
  PROVE  \E content \in Contents :
           /\ WriteCase(IdOf[Manifest], content)
           /\ content.run = runs /\ content.fails = case.fails
           /\ content.summary = "final"
           /\ case' = NoProcess
           /\ \/ /\ ~content.passed /\ Exit("2")
                 /\ position' = position /\ collected' = collected
              \/ /\ content.passed /\ content.fails \cap ReadChecks = {}
                 /\ position' = position + 1
                 /\ collected' = IF pass = "baseline"
                                 THEN Append(collected, content) ELSE collected
                 /\ phase' = phase /\ exitCode' = exitCode
<1> DEFINE tree == CaseTree[IdOf[Manifest]]
           content == [tree EXCEPT
                         !.summary = "final",
                         !.passed = @ /\ "summarySchema" \notin case.fails]
<1>1. tree \in Contents /\ case.at = "summarized"
  BY ManifestFacts, TreeType DEF ReviseCaseSummary, ProcessInv
<1>2. (tree.passed /\ "summarySchema" \notin case.fails) \in BOOLEAN
  BY Zenon
<1>3. content \in Contents
  BY <1>1, <1>2 DEF Contents
<1>4. /\ content.run = runs /\ content.fails = case.fails
      /\ content.summary = "final"
  BY <1>1 DEF TreeInv, Contents
<1>5. content.passed = (tree.passed /\ "summarySchema" \notin case.fails)
  BY <1>1 DEF Contents
<1>6. content.passed => content.fails \cap ReadChecks = {}
  <2> SUFFICES ASSUME content.passed
               PROVE  case.fails \cap ReadChecks = {}
    BY <1>4
  <2>1. tree.passed /\ "summarySchema" \notin case.fails
    BY <1>5, Zenon
  <2>2. CasePassed(case.fails)
    BY <1>1, <2>1 DEF TreeInv
  <2>3. /\ case.fails \cap (ProfileChecks \cup BundleChecks) = {}
        /\ case.fails \cap ToolChecks = {}
    BY <1>1 DEF TreeInv
  <2> QED
    BY <2>1, <2>2, <2>3, Zenon DEF CasePassed, ReadChecks
<1>7. /\ WriteCase(IdOf[Manifest], content)
      /\ case' = NoProcess
      /\ IF content.passed
          THEN /\ position' = position + 1
               /\ collected' = IF pass = "baseline"
                                 THEN Append(collected, content) ELSE collected
               /\ UNCHANGED <<phase, exitCode>>
          ELSE Exit("2") /\ UNCHANGED <<position, collected>>
  BY Zenon DEF ReviseCaseSummary
<1> HIDE DEF content, tree
<1> QED
  BY <1>3, <1>4, <1>6, <1>7

(* What writing the case of the manifest leaves.                           *)
Written(content) ==
  /\ output' \in Outputs /\ reproduced' \in [Ids -> Contents]
  /\ output'.summary = output.summary
  /\ output'.schemas = output.schemas
  /\ \A id \in Ids \ {IdOf[Manifest]} :
       /\ output'.cases[id] = output.cases[id]
       /\ reproduced'[id] = reproduced[id]
  /\ pass = "baseline" => /\ reproduced' = reproduced
                          /\ output'.cases[IdOf[Manifest]] = content
  /\ pass # "baseline" => /\ output' = output
                          /\ reproduced'[IdOf[Manifest]] = content

LEMMA WrittenFacts ==
  ASSUME TypeOK, IdOf[Manifest] \in Ids,
         NEW content \in Contents, WriteCase(IdOf[Manifest], content)
  PROVE  Written(content)
<1>1. output.cases \in [Ids -> Contents] /\ reproduced \in [Ids -> Contents]
  BY TreeType DEF TypeOK
<1>2. CASE pass = "baseline"
  <2>1. /\ output' \in Outputs /\ reproduced' \in [Ids -> Contents]
        /\ output'.summary = output.summary /\ output'.schemas = output.schemas
        /\ reproduced' = reproduced
        /\ output'.cases = [output.cases EXCEPT ![IdOf[Manifest]] = content]
    BY <1>2, WriteCaseFacts
  <2> QED
    BY <1>1, <1>2, <2>1 DEF Written
<1>3. CASE pass # "baseline"
  <2>1. /\ output' \in Outputs /\ reproduced' \in [Ids -> Contents]
        /\ output' = output
        /\ reproduced' = [reproduced EXCEPT ![IdOf[Manifest]] = content]
    BY <1>3, WriteCaseFacts
  <2> QED
    BY <1>1, <1>3, <2>1 DEF Written
<1> QED
  BY <1>2, <1>3

ValidatorStep == BuildBundle \/ WriteCaseSummary \/ ReviseCaseSummary

StaysOrFails ==
  /\ position' = position /\ collected' = collected
  /\ \/ phase' = phase /\ exitCode' = exitCode
     \/ phase' = "exited" /\ exitCode' = "2"

Advances(content) ==
  /\ content.passed /\ content.summary = "final"
  /\ content.fails \cap ReadChecks = {}
  /\ case' = NoProcess
  /\ position' = position + 1
  /\ collected' = IF pass = "baseline" THEN Append(collected, content)
                  ELSE collected
  /\ phase' = phase /\ exitCode' = exitCode

(* A step of the validator leaves all other cases alone, what it writes is *)
(* of this invocation, and it goes on, ends the pipeline, or ends the      *)
(* validation with a passed summary.                                       *)
LEMMA ValidatorFacts ==
  ASSUME TypeOK, ProcessInv, TreeInv, ValidatorStep
  PROVE  /\ phase = "cases" /\ position <= Len(invocation.suite)
         /\ IdOf[Manifest] \in Ids /\ IdOf[Manifest] \in SuiteIds
         /\ IdOf[Manifest] \notin SeenIds
         /\ invocation' = invocation /\ runs' = runs /\ pass' = pass
         /\ \/ output' = output /\ reproduced' = reproduced /\ StaysOrFails
            \/ \E content \in Contents :
                 /\ Written(content) /\ content.run = runs
                 /\ StaysOrFails \/ Advances(content)
<1>1. /\ phase = "cases" /\ position <= Len(invocation.suite)
      /\ IdOf[Manifest] \in Ids /\ IdOf[Manifest] \in SuiteIds
      /\ IdOf[Manifest] \notin SeenIds
  BY ManifestFacts DEF ValidatorStep, ProcessInv, BuildBundle, WriteCaseSummary,
     ReviseCaseSummary
<1>2. invocation' = invocation /\ runs' = runs /\ pass' = pass
  BY DEF ValidatorStep, BuildBundle, WriteCaseSummary, ReviseCaseSummary
<1>3. ASSUME NEW content \in Contents, WriteCase(IdOf[Manifest], content)
      PROVE  Written(content)
  BY <1>1, <1>3, WrittenFacts
<1>4. CASE BuildBundle
  <2>1. position' = position /\ collected' = collected
    BY <1>4 DEF BuildBundle
  <2> QED
    BY <1>1, <1>2, <1>3, <1>4, <2>1, StartedFacts DEF StaysOrFails, CaseFails, Exit
<1>5. CASE WriteCaseSummary
  <2>1. position' = position /\ collected' = collected
    BY <1>5 DEF WriteCaseSummary
  <2> QED
    BY <1>1, <1>2, <1>3, <1>5, <2>1, BundledFacts DEF StaysOrFails, CaseFails, Exit
<1>6. CASE ReviseCaseSummary
  BY <1>1, <1>2, <1>3, <1>6, SummarizedFacts DEF StaysOrFails, Advances, Exit
<1> QED
  BY <1>4, <1>5, <1>6 DEF ValidatorStep

-----------------------------------------------------------------------------
(* Types                                                                   *)

LEMMA InitType == Init => TypeOK
BY Defaults DEF Init, TypeOK, Phases, Resting

LEMMA ValidatorType ==
  ASSUME TypeOK, ProcessInv, TreeInv, ValidatorStep
  PROVE  TypeOK'
<1>1. /\ invocation' \in Invocations /\ runs' \in Nat
      /\ pass' \in {"baseline", "reproduced"}
  BY ValidatorFacts DEF TypeOK
<1>2. case' \in Processes
  BY Defaults DEF TypeOK, ValidatorStep, BuildBundle, WriteCaseSummary,
     ReviseCaseSummary, CaseFails, Processes
<1>3. /\ phase' \in Phases /\ position' \in Nat \ {0}
      /\ collected' \in Seq(Contents)
      /\ exitCode' \in {"none", "0", "1", "2", "3"}
  BY ValidatorFacts DEF TypeOK, StaysOrFails, Advances, Phases, Resting
<1>4. output' \in Outputs /\ reproduced' \in [Ids -> Contents]
  BY ValidatorFacts DEF TypeOK, Written
<1> QED
  BY <1>1, <1>2, <1>3, <1>4 DEF TypeOK

LEMMA NextType ==
  ASSUME TypeOK, ProcessInv, TreeInv, [Next]_vars
  PROVE  TypeOK'
<1>1. CASE UNCHANGED vars
  BY <1>1 DEF vars, TypeOK
<1>2. CASE Invoke
  BY <1>2, Defaults DEF Invoke, TypeOK, Phases
<1>3. CASE Kill
  BY <1>3, Defaults DEF Kill, TypeOK, Phases, Resting
<1>4. CASE RemoveEntry
  <2>1. output' \in Outputs
    BY <1>4, Defaults DEF RemoveEntry, TypeOK, Outputs
  <2> QED
    BY <1>4, <2>1 DEF RemoveEntry, TypeOK
<1>5. CASE RunRegressionTests
  BY <1>5 DEF RunRegressionTests, Exit, TypeOK, Phases, Resting
<1>6. CASE LoadSuite
  BY <1>6 DEF LoadSuite, Exit, TypeOK, Phases, Resting
<1>7. CASE OutputCleared
  BY <1>7 DEF OutputCleared, TypeOK, Phases
<1>8. CASE StartCase
  <2>1. case' \in Processes
    BY <1>8, FailureSetsAssumption DEF StartCase, TypeOK, Processes
  <2> QED
    BY <1>8, <2>1 DEF StartCase, Exit, TypeOK, Phases, Resting
<1>9. CASE ValidatorStep
  BY <1>9, ValidatorType
<1>10. CASE EndPass
  BY <1>10 DEF EndPass, TypeOK, Phases
<1>11. CASE WriteReproducibility
  <2>1. \E verdict \in {"disabled", "identical", "different"} :
          output' = [output EXCEPT !.reproducibility = verdict]
    BY <1>11, Zenon DEF WriteReproducibility
  <2>2. output' \in Outputs
    BY <2>1 DEF TypeOK, Outputs
  <2> QED
    BY <1>11, <2>2 DEF WriteReproducibility, TypeOK, Phases
<1>12. CASE WriteSummary
  <2>1. /\ RunPassed \in BOOLEAN
        /\ (invocation.compile /\ invocation.check) \in BOOLEAN
    BY Zenon DEF RunPassed
  <2>2. output' \in Outputs
    BY <1>12, <2>1 DEF WriteSummary, TypeOK, Outputs
  <2> QED
    BY <1>12, <2>2 DEF WriteSummary, TypeOK, Phases
<1>13. CASE ValidateRoot
  BY <1>13 DEF ValidateRoot, TypeOK, Phases, Outputs
<1>14. CASE ReviseSummary
  <2>1. (output.summary.passed /\ output.schemas = "valid") \in BOOLEAN
    BY Zenon
  <2>2. output' \in Outputs
    BY <1>14, <2>1 DEF ReviseSummary, TypeOK, Outputs
  <2> QED
    BY <1>14, <2>2 DEF ReviseSummary, Exit, TypeOK, Phases, Resting
<1> QED
  BY <1>1, <1>2, <1>3, <1>4, <1>5, <1>6, <1>7, <1>8, <1>9, <1>10, <1>11, <1>12,
     <1>13, <1>14 DEF Next, Step, ValidatorStep

-----------------------------------------------------------------------------
(* The running validator                                                   *)

OtherStep ==
  \/ RemoveEntry \/ RunRegressionTests \/ LoadSuite \/ OutputCleared
  \/ EndPass \/ WriteReproducibility \/ WriteSummary \/ ValidateRoot
  \/ ReviseSummary

(* No validator runs when anything else happens.                           *)
LEMMA OtherFacts ==
  ASSUME TypeOK, ProcessInv, OtherStep
  PROVE  case.at = "none" /\ case' = case
<1>1. case' = case
  BY DEF OtherStep, RemoveEntry, RunRegressionTests, LoadSuite, OutputCleared,
     EndPass, WriteReproducibility, WriteSummary, ValidateRoot, ReviseSummary
<1>2. CASE phase = "cases"
  BY <1>2, Defaults DEF OtherStep, RemoveEntry, RunRegressionTests, LoadSuite,
     OutputCleared, EndPass, WriteReproducibility, WriteSummary, ValidateRoot,
     ReviseSummary
<1>3. CASE phase # "cases"
  BY <1>1, <1>3 DEF ProcessInv
<1> QED
  BY <1>1, <1>2, <1>3

(* What is known of a validator that goes on.                              *)
LEMMA ValidatorProcess ==
  ASSUME TypeOK, ProcessInv, TreeInv, ValidatorStep
  PROVE  \/ case'.at = "none"
         \/ /\ phase' = phase /\ position' = position
            /\ case'.at \in {"bundled", "summarized"}
            /\ case'.fails = case.fails
            /\ \E content \in Contents :
                 /\ Written(content)
                 /\ content.run = runs /\ content.fails = case.fails
                 /\ case.fails \cap (ProfileChecks \cup BundleChecks) = {}
                 /\ case'.at = "summarized" =>
                      /\ case.fails \cap ToolChecks = {}
                      /\ content.passed <=> CasePassed(case.fails)
<1>1. IdOf[Manifest] \in Ids
  BY ValidatorFacts
<1>2. ASSUME NEW content \in Contents, WriteCase(IdOf[Manifest], content)
      PROVE  Written(content)
  BY <1>1, <1>2, WrittenFacts
<1>3. CASE BuildBundle
  <2>1. position' = position
    BY <1>3 DEF BuildBundle
  <2>2. CASE CaseFails
    BY <2>2, Defaults DEF CaseFails
  <2>3. CASE ~CaseFails
    <3>1. PICK content \in Contents :
            /\ WriteCase(IdOf[Manifest], content)
            /\ content.run = runs /\ content.fails = case.fails
            /\ case.fails \cap ProfileChecks = {}
            /\ case.fails \cap BundleChecks = {}
            /\ case' = [case EXCEPT !.at = "bundled"]
            /\ phase' = phase /\ exitCode' = exitCode
      BY <1>3, <2>3, StartedFacts
    <3>2. case'.at = "bundled" /\ case'.fails = case.fails
      BY <3>1 DEF TypeOK, Processes
    <3> QED
      BY <1>2, <2>1, <3>1, <3>2
  <2> QED
    BY <2>2, <2>3
<1>4. CASE WriteCaseSummary
  <2>1. position' = position /\ case.at = "bundled"
    BY <1>4 DEF WriteCaseSummary
  <2>2. CASE CaseFails
    BY <2>2, Defaults DEF CaseFails
  <2>3. CASE ~CaseFails
    <3>1. PICK content \in Contents :
            /\ WriteCase(IdOf[Manifest], content)
            /\ content.run = runs /\ content.fails = case.fails
            /\ content.passed <=> CasePassed(case.fails)
            /\ case.fails \cap ToolChecks = {}
            /\ case' = [case EXCEPT !.at = "summarized"]
            /\ phase' = phase /\ exitCode' = exitCode
      BY <1>4, <2>3, BundledFacts
    <3>2. case'.at = "summarized" /\ case'.fails = case.fails
      BY <3>1 DEF TypeOK, Processes
    <3>3. case.fails \cap (ProfileChecks \cup BundleChecks) = {}
      BY <2>1 DEF TreeInv
    <3>4. Written(content)
      BY <1>2, <3>1
    <3> QED
      BY <2>1, <3>1, <3>2, <3>3, <3>4
  <2> QED
    BY <2>2, <2>3
<1>5. CASE ReviseCaseSummary
  BY <1>5, Defaults DEF ReviseCaseSummary
<1> QED
  BY <1>3, <1>4, <1>5 DEF ValidatorStep

LEMMA ProcessStep ==
  ASSUME TypeOK, ProcessInv, TreeInv, [Next]_vars
  PROVE  ProcessInv' /\ TreeInv'
<1>1. CASE UNCHANGED vars
  BY <1>1 DEF vars, ProcessInv, TreeInv, Manifest, SeenIds, CaseTree, CasePassed
<1>2. CASE case'.at \in {"none", "started"} /\ ProcessInv'
  BY <1>2 DEF TreeInv
<1>3. CASE Invoke \/ Kill
  <2>1. case'.at = "none"
    BY <1>3, Defaults DEF Invoke, Kill
  <2> QED
    BY <1>2, <2>1 DEF ProcessInv
<1>4. CASE OtherStep
  <2>1. case'.at = "none"
    BY <1>4, OtherFacts
  <2> QED
    BY <1>2, <2>1 DEF ProcessInv
<1>5. CASE StartCase
  <2>1. CASE IdOf[Manifest] \in SeenIds
    <3>1. case'.at = "none"
      BY <1>5, <2>1, Defaults DEF StartCase
    <3> QED
      BY <1>2, <3>1 DEF ProcessInv
  <2>2. CASE IdOf[Manifest] \notin SeenIds
    <3>1. /\ case'.at = "started"
          /\ phase' = "cases" /\ position' = position
          /\ position <= Len(invocation.suite) /\ invocation' = invocation
      BY <1>5, <2>2 DEF StartCase
    <3>2. Manifest' = Manifest /\ SeenIds' = SeenIds
      BY <3>1 DEF Manifest, SeenIds
    <3> QED
      BY <1>2, <2>2, <3>1, <3>2 DEF ProcessInv
  <2> QED
    BY <2>1, <2>2
<1>6. CASE ValidatorStep
  <2>1. CASE case'.at = "none"
    BY <1>2, <2>1 DEF ProcessInv
  <2>2. CASE case'.at # "none"
    <3>1. /\ phase' = phase /\ position' = position
          /\ case'.at \in {"bundled", "summarized"}
          /\ case'.fails = case.fails
      BY <1>6, <2>2, ValidatorProcess
    <3>2. PICK content \in Contents :
            /\ Written(content)
            /\ content.run = runs /\ content.fails = case.fails
            /\ case.fails \cap (ProfileChecks \cup BundleChecks) = {}
            /\ case'.at = "summarized" =>
                 /\ case.fails \cap ToolChecks = {}
                 /\ content.passed <=> CasePassed(case.fails)
      BY <1>6, <2>2, ValidatorProcess
    <3>3. /\ phase = "cases" /\ position <= Len(invocation.suite)
          /\ IdOf[Manifest] \notin SeenIds
          /\ invocation' = invocation /\ runs' = runs /\ pass' = pass
      BY <1>6, ValidatorFacts
    <3>4. /\ Manifest' = Manifest /\ SeenIds' = SeenIds
          /\ CasePassed(case.fails)' <=> CasePassed(case.fails)
      BY <3>1, <3>3 DEF Manifest, SeenIds, CasePassed
    <3>5. ProcessInv'
      BY <3>1, <3>3, <3>4 DEF ProcessInv
    <3>6. CaseTree'[IdOf[Manifest]] = content
      BY <3>2, <3>3 DEF CaseTree, Written, TypeOK
    <3> QED
      BY <3>1, <3>2, <3>3, <3>4, <3>5, <3>6 DEF TreeInv
  <2> QED
    BY <2>1, <2>2
<1> QED
  BY <1>1, <1>3, <1>4, <1>5, <1>6 DEF Next, Step, ValidatorStep, OtherStep

-----------------------------------------------------------------------------
(* The passes                                                              *)

LEMMA InitInv == Init => Inv
<1> SUFFICES ASSUME Init
             PROVE  Inv
  OBVIOUS
<1>1. TypeOK
  BY InitType
<1>2. /\ phase = "exited" /\ exitCode = "none" /\ runs = 0
      /\ pass = "baseline" /\ collected = <<>> /\ case.at = "none"
      /\ output.summary.run = 0
  BY Defaults DEF Init
<1>3. ProcessInv /\ TreeInv
  BY <1>2 DEF ProcessInv, TreeInv
<1>4. PassInv
  BY <1>2 DEF PassInv, Preparing, Closing, Concluded
<1>5. CollectedInv
  BY <1>2 DEF CollectedInv, AggregatedIsOnDisk
<1>6. FreshInv
  BY <1>2 DEF FreshInv, Preparing, Closing, Concluded
<1>7. VerdictInv
  BY <1>2 DEF VerdictInv, Concluded, ExitCodeMatchesEvidence
<1> QED
  BY <1>1, <1>3, <1>4, <1>5, <1>6, <1>7 DEF Inv

LEMMA PassStep ==
  ASSUME Inv, [Next]_vars
  PROVE  PassInv'
<1> USE DEF Preparing, Closing, Concluded
<1>1. /\ PassInv /\ Len(invocation.suite) \in Nat
      /\ position \in Nat \ {0} /\ pass \in {"baseline", "reproduced"}
      /\ collected \in Seq(Contents)
  BY SuitesAssumption DEF Inv, TypeOK, Invocations
<1>2. CASE UNCHANGED vars
  BY <1>1, <1>2 DEF vars, PassInv
<1>3. CASE Invoke
  BY <1>3 DEF Invoke, PassInv
<1>4. CASE Kill
  BY <1>4 DEF Kill, PassInv
<1>5. CASE RemoveEntry
  BY <1>1, <1>5 DEF RemoveEntry, PassInv
<1>6. CASE RunRegressionTests
  BY <1>1, <1>6 DEF RunRegressionTests, Exit, PassInv
<1>7. CASE LoadSuite
  BY <1>1, <1>7 DEF LoadSuite, Exit, PassInv
<1>8. CASE OutputCleared
  BY <1>1, <1>8 DEF OutputCleared, PassInv
<1>9. CASE StartCase
  BY <1>1, <1>9 DEF StartCase, Exit, PassInv
<1>10. CASE ValidatorStep
  <2>1. /\ phase = "cases" /\ position <= Len(invocation.suite)
        /\ invocation' = invocation /\ pass' = pass
    BY <1>10, ValidatorFacts DEF Inv
  <2>2. StaysOrFails \/ \E content \in Contents : Advances(content)
    BY <1>10, ValidatorFacts DEF Inv
  <2>3. CASE StaysOrFails
    BY <1>1, <2>1, <2>3 DEF StaysOrFails, PassInv
  <2>4. CASE \E content \in Contents : Advances(content)
    <3>1. PICK content \in Contents : Advances(content)
      BY <2>4
    <3>2. /\ position' = position + 1 /\ phase' = "cases"
          /\ pass = "baseline" => Len(collected') = Len(collected) + 1
          /\ pass # "baseline" => collected' = collected
      BY <1>1, <2>1, <3>1 DEF Advances
    <3> QED
      BY <1>1, <2>1, <3>2 DEF PassInv
  <2> QED
    BY <2>2, <2>3, <2>4
<1>11. CASE EndPass
  BY <1>1, <1>11 DEF EndPass, PassInv
<1>12. CASE WriteReproducibility
  BY <1>1, <1>12 DEF WriteReproducibility, PassInv
<1>13. CASE WriteSummary
  BY <1>1, <1>13 DEF WriteSummary, PassInv
<1>14. CASE ValidateRoot
  BY <1>1, <1>14 DEF ValidateRoot, PassInv
<1>15. CASE ReviseSummary
  BY <1>1, <1>15 DEF ReviseSummary, Exit, PassInv
<1> QED
  BY <1>2, <1>3, <1>4, <1>5, <1>6, <1>7, <1>8, <1>9, <1>10, <1>11, <1>12,
     <1>13, <1>14, <1>15 DEF Next, Step, ValidatorStep

-----------------------------------------------------------------------------
(* What was collected                                                      *)

(* Nothing in the directories of the cases changes.                        *)
CasesStay ==
  /\ output'.cases = output.cases /\ reproduced' = reproduced
  /\ invocation' = invocation /\ runs' = runs

(* Steps of the pipeline between and after the cases.                      *)
RootStep ==
  \/ RunRegressionTests \/ LoadSuite \/ OutputCleared \/ StartCase \/ EndPass
  \/ WriteReproducibility \/ WriteSummary \/ ValidateRoot \/ ReviseSummary

LEMMA RootFacts ==
  ASSUME TypeOK, RootStep
  PROVE  CasesStay /\ collected' = collected
<1>1. /\ collected' = collected /\ reproduced' = reproduced
      /\ invocation' = invocation /\ runs' = runs
  BY DEF RootStep, RunRegressionTests, LoadSuite, OutputCleared, StartCase,
     EndPass, WriteReproducibility, WriteSummary, ValidateRoot, ReviseSummary
<1>2. CASE output' = output
  BY <1>1, <1>2 DEF CasesStay
<1>3. CASE WriteReproducibility
  <2>1. \E verdict : output' = [output EXCEPT !.reproducibility = verdict]
    BY <1>3, Zenon DEF WriteReproducibility
  <2> QED
    BY <1>1, <2>1 DEF CasesStay, TypeOK, Outputs
<1>4. CASE WriteSummary
  <2>1. \E summary : output' = [output EXCEPT !.summary = summary]
    BY <1>4, Zenon DEF WriteSummary
  <2> QED
    BY <1>1, <2>1 DEF CasesStay, TypeOK, Outputs
<1>5. CASE ValidateRoot
  BY <1>1, <1>5 DEF ValidateRoot, CasesStay, TypeOK, Outputs
<1>6. CASE ReviseSummary
  <2>1. \E passed : output' = [output EXCEPT !.summary.passed = passed]
    BY <1>6, Zenon DEF ReviseSummary
  <2> QED
    BY <1>1, <2>1 DEF CasesStay, TypeOK, Outputs
<1> QED
  BY <1>2, <1>3, <1>4, <1>5, <1>6 DEF RootStep, RunRegressionTests, LoadSuite,
     OutputCleared, StartCase, EndPass

LEMMA CollectedStep ==
  ASSUME Inv, [Next]_vars
  PROVE  CollectedInv'
<1>1. /\ TypeOK /\ PassInv /\ CollectedInv
      /\ invocation.suite \in Seq(Manifests)
      /\ Len(invocation.suite) \in Nat
      /\ position \in Nat \ {0} /\ pass \in {"baseline", "reproduced"}
      /\ collected \in Seq(Contents) /\ Len(collected) \in Nat
  BY SuitesAssumption DEF Inv, TypeOK, Invocations
<1>2. CASE UNCHANGED vars
  BY <1>1, <1>2 DEF vars, CollectedInv, AggregatedIsOnDisk
<1>3. CASE Invoke
  BY <1>3 DEF Invoke, CollectedInv, AggregatedIsOnDisk
<1>4. CASE Kill
  BY <1>1, <1>4 DEF Kill, CollectedInv, AggregatedIsOnDisk
<1>5. CASE RemoveEntry
  <2>1. collected' = <<>> /\ pass' = "baseline"
    BY <1>1, <1>5 DEF RemoveEntry, PassInv, Preparing
  <2> QED
    BY <2>1 DEF CollectedInv, AggregatedIsOnDisk
<1>6. CASE RootStep
  <2>1. CasesStay /\ collected' = collected
    BY <1>1, <1>6, RootFacts
  <2>2. AggregatedIsOnDisk'
    BY <1>1, <2>1 DEF CollectedInv, AggregatedIsOnDisk, CasesStay
  <2>3. CASE EndPass
    BY <1>1, <2>1, <2>2, <2>3 DEF CollectedInv, CasesStay, EndPass
  <2>4. CASE ~EndPass
    <3>1. pass' = pass /\ position' = position
      BY <1>6, <2>4 DEF RootStep, RunRegressionTests, LoadSuite, OutputCleared,
         StartCase, WriteReproducibility, WriteSummary, ValidateRoot,
         ReviseSummary
    <3> QED
      BY <1>1, <2>1, <2>2, <3>1 DEF CollectedInv, CasesStay
  <2> QED
    BY <2>3, <2>4
<1>7. CASE ValidatorStep
  <2>1. /\ phase = "cases" /\ position <= Len(invocation.suite)
        /\ IdOf[Manifest] \in Ids /\ IdOf[Manifest] \notin SeenIds
        /\ invocation' = invocation /\ runs' = runs /\ pass' = pass
    BY <1>7, ValidatorFacts DEF Inv
  <2>2. \A i \in 1..(position - 1) :
          /\ IdOf[invocation.suite[i]] \in Ids
          /\ IdOf[invocation.suite[i]] # IdOf[Manifest]
    <3> SUFFICES ASSUME NEW i \in 1..(position - 1)
                 PROVE  /\ IdOf[invocation.suite[i]] \in Ids
                        /\ IdOf[invocation.suite[i]] # IdOf[Manifest]
      OBVIOUS
    <3>1. i \in 1..Len(invocation.suite)
      BY <1>1, <2>1
    <3>2. invocation.suite[i] \in Manifests
      BY <1>1, <3>1
    <3>3. IdOf[invocation.suite[i]] \in SeenIds
      BY DEF SeenIds
    <3> QED
      BY <2>1, <3>2, <3>3, IdOfAssumption
  <2>3. CASE output' = output /\ reproduced' = reproduced /\ StaysOrFails
    BY <1>1, <2>1, <2>3 DEF StaysOrFails, CollectedInv, AggregatedIsOnDisk
  <2>4. ASSUME NEW content \in Contents,
               Written(content), content.run = runs,
               StaysOrFails \/ Advances(content)
        PROVE  CollectedInv'
    <3>1. CASE pass = "baseline"
      <4>1. /\ Len(collected) = position - 1
            /\ output'.cases[IdOf[Manifest]] = content
        BY <1>1, <2>1, <2>4, <3>1 DEF PassInv, Written
      <4>2. \A i \in 1..Len(collected) :
              /\ collected[i].summary = "final" /\ collected[i].passed
              /\ output'.cases[IdOf[invocation.suite[i]]] = collected[i]
              /\ collected[i].run = runs /\ collected[i].fails \cap ReadChecks = {}
        BY <1>1, <2>2, <2>4, <4>1 DEF CollectedInv, AggregatedIsOnDisk, Written
      <4>3. CASE StaysOrFails
        BY <2>1, <3>1, <4>2, <4>3 DEF StaysOrFails, CollectedInv, AggregatedIsOnDisk
      <4>4. CASE Advances(content)
        <5>1. /\ collected' = Append(collected, content)
              /\ content.summary = "final" /\ content.passed
              /\ content.fails \cap ReadChecks = {}
          BY <3>1, <4>4 DEF Advances
        <5>2. output'.cases[IdOf[invocation.suite[position]]] = content
          BY <4>1 DEF Manifest
        <5>3. \A i \in 1..Len(collected') :
                \/ i \in 1..Len(collected) /\ collected'[i] = collected[i]
                \/ i = position /\ collected'[i] = content
          BY <1>1, <4>1, <5>1
        <5>4. \A i \in 1..Len(collected') :
                /\ collected'[i].summary = "final" /\ collected'[i].passed
                /\ output'.cases[IdOf[invocation.suite[i]]] = collected'[i]
                /\ collected'[i].run = runs
                /\ collected'[i].fails \cap ReadChecks = {}
          BY <2>4, <4>2, <5>1, <5>2, <5>3
        <5> QED
          BY <2>1, <3>1, <5>4 DEF CollectedInv, AggregatedIsOnDisk
      <4> QED
        BY <2>4, <4>3, <4>4
    <3>2. CASE pass = "reproduced"
      <4>1. /\ output' = output /\ collected' = collected
            /\ reproduced'[IdOf[Manifest]] = content
            /\ position' \in {position, position + 1}
        BY <2>4, <3>2 DEF Written, StaysOrFails, Advances
      <4>2. AggregatedIsOnDisk'
        BY <1>1, <2>1, <4>1 DEF CollectedInv, AggregatedIsOnDisk
      <4>3. \A i \in 1..(position - 1) :
              reproduced'[IdOf[invocation.suite[i]]].run = runs
        BY <1>1, <2>2, <2>4, <3>2 DEF CollectedInv, Written
      <4>4. reproduced'[IdOf[invocation.suite[position]]].run = runs
        BY <2>4, <4>1 DEF Manifest
      <4>5. \A i \in 1..(position' - 1) : i \in 1..(position - 1) \/ i = position
        <5>1. CASE position' = position
          BY <5>1
        <5>2. CASE position' = position + 1
          BY <1>1, <5>2
        <5> QED
          BY <4>1, <5>1, <5>2
      <4>6. \A i \in 1..(position' - 1) :
              reproduced'[IdOf[invocation.suite[i]]].run = runs
        BY <4>3, <4>4, <4>5
      <4> QED
        BY <1>1, <2>1, <4>1, <4>2, <4>6 DEF CollectedInv
    <3> QED
      BY <1>1, <3>1, <3>2
  <2> QED
    BY <1>7, <2>3, <2>4, ValidatorFacts DEF Inv
<1> QED
  BY <1>2, <1>3, <1>4, <1>5, <1>6, <1>7 DEF Next, Step, ValidatorStep, RootStep

-----------------------------------------------------------------------------
(* What the directory holds                                                *)

LEMMA FreshStep ==
  ASSUME Inv, [Next]_vars
  PROVE  FreshInv'
<1> USE DEF Preparing, Closing, Concluded
<1>1. /\ TypeOK /\ FreshInv /\ runs \in Nat
      /\ output.summary.run \in Nat /\ NoSummary.run = 0
  BY Defaults DEF Inv, TypeOK, Outputs
<1>2. CASE UNCHANGED vars
  BY <1>1, <1>2 DEF vars, FreshInv, SuiteIds
<1>3. CASE Invoke
  BY <1>1, <1>3 DEF Invoke, FreshInv
<1>4. CASE Kill
  BY <1>1, <1>4 DEF Kill, FreshInv
<1>5. CASE RemoveEntry
  <2>1. /\ phase' \in Preparing /\ runs' = runs
        /\ output'.summary.run \in {0, output.summary.run}
    BY <1>1, <1>5 DEF RemoveEntry, TypeOK, Outputs
  <2> QED
    BY <1>1, <1>5, <2>1 DEF FreshInv, RemoveEntry
<1>6. CASE RunRegressionTests
  BY <1>1, <1>6 DEF RunRegressionTests, Exit, FreshInv
<1>7. CASE LoadSuite
  BY <1>1, <1>7 DEF LoadSuite, Exit, FreshInv
<1>8. CASE OutputCleared
  <2>1. /\ \A id \in Ids : output.cases[id] = NoCase
        /\ output.summary = NoSummary /\ output.schemas = "none"
    BY <1>8, Defaults DEF OutputCleared, NoCases
  <2> QED
    BY <1>1, <1>8, <2>1 DEF OutputCleared, FreshInv
<1>9. CASE StartCase
  BY <1>1, <1>9 DEF StartCase, Exit, FreshInv, SuiteIds
<1>10. CASE ValidatorStep
  <2>1. /\ phase = "cases" /\ IdOf[Manifest] \in SuiteIds
        /\ invocation' = invocation /\ runs' = runs
        /\ phase' = phase \/ (phase' = "exited" /\ exitCode' = "2")
    BY <1>10, ValidatorFacts DEF Inv, StaysOrFails, Advances
  <2>2. /\ output'.summary = output.summary /\ output'.schemas = output.schemas
        /\ \A id \in Ids : \/ output'.cases[id] = output.cases[id]
                           \/ id = IdOf[Manifest] /\ output'.cases[id].run = runs
    <3>1. CASE output' = output
      BY <3>1
    <3>2. CASE \E content \in Contents : Written(content) /\ content.run = runs
      <4>1. PICK content \in Contents : Written(content) /\ content.run = runs
        BY <3>2
      <4>2. CASE pass = "baseline"
        BY <4>1, <4>2 DEF Written
      <4>3. CASE pass # "baseline"
        BY <4>1, <4>3 DEF Written
      <4> QED
        BY <4>2, <4>3
    <3> QED
      BY <1>10, <3>1, <3>2, ValidatorFacts DEF Inv
  <2>3. SuiteIds' = SuiteIds
    BY <2>1 DEF SuiteIds
  <2> QED
    BY <1>1, <2>1, <2>2, <2>3 DEF FreshInv
<1>11. CASE EndPass
  BY <1>1, <1>11 DEF EndPass, FreshInv, SuiteIds
<1>12. CASE WriteReproducibility
  <2>1. /\ output'.cases = output.cases /\ output'.summary = output.summary
        /\ phase' = "summarizing"
    <3>1. \E verdict : output' = [output EXCEPT !.reproducibility = verdict]
      BY <1>12, Zenon DEF WriteReproducibility
    <3> QED
      BY <1>1, <1>12, <3>1 DEF WriteReproducibility, TypeOK, Outputs
  <2> QED
    BY <1>1, <1>12, <2>1 DEF WriteReproducibility, FreshInv, SuiteIds
<1>13. CASE WriteSummary
  <2>1. /\ output'.cases = output.cases /\ output'.summary.run = runs
        /\ phase' = "validating"
    BY <1>1, <1>13 DEF WriteSummary, TypeOK, Outputs
  <2> QED
    BY <1>1, <1>13, <2>1 DEF WriteSummary, FreshInv, SuiteIds
<1>14. CASE ValidateRoot
  <2>1. /\ output'.cases = output.cases /\ output'.summary = output.summary
        /\ phase' = "revising"
    BY <1>1, <1>14 DEF ValidateRoot, TypeOK, Outputs
  <2> QED
    BY <1>1, <1>14, <2>1 DEF ValidateRoot, FreshInv, SuiteIds
<1>15. CASE ReviseSummary
  <2>1. /\ output'.cases = output.cases
        /\ output'.summary.run = output.summary.run /\ phase' = "exited"
    <3>1. \E passed : output' = [output EXCEPT !.summary.passed = passed]
      BY <1>15, Zenon DEF ReviseSummary
    <3> QED
      BY <1>1, <1>15, <3>1 DEF ReviseSummary, Exit, TypeOK, Outputs
  <2> QED
    BY <1>1, <1>15, <2>1 DEF ReviseSummary, FreshInv, SuiteIds
<1> QED
  BY <1>2, <1>3, <1>4, <1>5, <1>6, <1>7, <1>8, <1>9, <1>10, <1>11, <1>12,
     <1>13, <1>14, <1>15 DEF Next, Step, ValidatorStep

-----------------------------------------------------------------------------
(* The verdicts                                                            *)

LEMMA VerdictStep ==
  ASSUME Inv, [Next]_vars
  PROVE  VerdictInv'
<1> USE DEF Preparing, Closing, Concluded
<1>1. /\ TypeOK /\ VerdictInv /\ FreshInv /\ runs \in Nat
      /\ output.summary.run \in Nat
      /\ NoSummary.run = 0 /\ NoSummary.passed = FALSE
  BY Defaults DEF Inv, TypeOK, Outputs
<1>2. CASE UNCHANGED vars
  BY <1>1, <1>2 DEF vars, VerdictInv, ExitCodeMatchesEvidence, Reproduced
<1>3. CASE phase' # "exited" /\ phase' \notin Closing
  BY <1>3 DEF VerdictInv, ExitCodeMatchesEvidence
<1>4. CASE Invoke \/ Kill \/ RemoveEntry \/ OutputCleared
  BY <1>3, <1>4 DEF Invoke, Kill, RemoveEntry, OutputCleared
<1>5. ASSUME phase' = "exited", exitCode' \in {"1", "2"},
             output'.summary.run # runs' \/ ~output'.summary.passed
      PROVE  VerdictInv'
  BY <1>5 DEF VerdictInv, ExitCodeMatchesEvidence
<1>6. CASE RunRegressionTests
  BY <1>1, <1>3, <1>5, <1>6 DEF RunRegressionTests, Exit, FreshInv
<1>7. CASE LoadSuite
  BY <1>1, <1>3, <1>5, <1>7 DEF LoadSuite, Exit, FreshInv
<1>8. CASE StartCase
  BY <1>1, <1>3, <1>5, <1>8 DEF StartCase, Exit, FreshInv
<1>9. CASE ValidatorStep
  <2>1. /\ phase = "cases" /\ runs' = runs
        /\ phase' = phase \/ (phase' = "exited" /\ exitCode' = "2")
    BY <1>9, ValidatorFacts DEF Inv, StaysOrFails, Advances
  <2>2. output'.summary = output.summary
    BY <1>9, ValidatorFacts DEF Inv, Written
  <2> QED
    BY <1>1, <1>3, <1>5, <2>1, <2>2 DEF FreshInv
<1>10. CASE EndPass
  BY <1>3, <1>10 DEF EndPass, VerdictInv, ExitCodeMatchesEvidence
<1>11. CASE WriteReproducibility
  <2>1. /\ phase' = "summarizing"
        /\ output'.reproducibility = "identical" => Reproduced
    <3>1. \E verdict : /\ output' = [output EXCEPT !.reproducibility = verdict]
                       /\ verdict = "identical" => Reproduced
      <4>1. CASE invocation.check /\ Reproduced
        BY <1>11, <4>1, Zenon DEF WriteReproducibility
      <4>2. CASE ~invocation.check
        <5>1. output' = [output EXCEPT !.reproducibility = "disabled"]
          BY <1>11, <4>2, Zenon DEF WriteReproducibility
        <5> QED
          BY <5>1
      <4>3. CASE invocation.check /\ ~Reproduced
        <5>1. output' = [output EXCEPT !.reproducibility = "different"]
          BY <1>11, <4>3, Zenon DEF WriteReproducibility
        <5> QED
          BY <5>1
      <4> QED
        BY <4>1, <4>2, <4>3
    <3> QED
      BY <1>1, <1>11, <3>1 DEF WriteReproducibility, TypeOK, Outputs
  <2>2. Reproduced' <=> Reproduced
    BY <1>1, <1>11, RootFacts DEF RootStep, CasesStay, Reproduced
  <2> QED
    BY <2>1, <2>2 DEF VerdictInv, ExitCodeMatchesEvidence
<1>12. CASE WriteSummary
  <2>1. /\ phase' = "validating" /\ phase = "summarizing"
        /\ invocation' = invocation /\ runs' = runs
    BY <1>12 DEF WriteSummary
  <2>2. /\ output'.reproducibility = output.reproducibility
        /\ output'.summary.run = runs
        /\ output'.summary.authoritative <=> invocation.compile /\ invocation.check
    <3> DEFINE authoritative == invocation.compile /\ invocation.check
    <3>1. \E passed :
            output' = [output EXCEPT !.summary =
                         [run |-> runs, passed |-> passed,
                          authoritative |-> authoritative]]
      BY <1>12, Zenon DEF WriteSummary
    <3> HIDE DEF authoritative
    <3>2. /\ output'.reproducibility = output.reproducibility
          /\ output'.summary.run = runs
          /\ output'.summary.authoritative = authoritative
      BY <1>1, <3>1 DEF TypeOK, Outputs
    <3> QED
      BY <3>2 DEF authoritative
  <2>3. Reproduced' <=> Reproduced
    BY <1>1, <1>12, RootFacts DEF RootStep, CasesStay, Reproduced
  <2> QED
    BY <1>1, <2>1, <2>2, <2>3 DEF VerdictInv, ExitCodeMatchesEvidence
<1>13. CASE ValidateRoot
  <2>1. /\ phase' = "revising" /\ phase = "validating"
        /\ invocation' = invocation /\ runs' = runs
        /\ output'.reproducibility = output.reproducibility
        /\ output'.summary = output.summary
    BY <1>1, <1>13 DEF ValidateRoot, TypeOK, Outputs
  <2>2. Reproduced' <=> Reproduced
    BY <1>1, <1>13, RootFacts DEF RootStep, CasesStay, Reproduced
  <2> QED
    BY <1>1, <2>1, <2>2 DEF VerdictInv, ExitCodeMatchesEvidence
<1>14. CASE ReviseSummary
  <2> DEFINE accepted == output.summary.passed /\ output.schemas = "valid"
  <2>1. /\ phase' = "exited" /\ phase = "revising"
        /\ invocation' = invocation /\ runs' = runs
        /\ exitCode' = IF accepted THEN "0" ELSE "3"
    BY <1>14 DEF ReviseSummary, Exit
  <2>2. /\ output'.reproducibility = output.reproducibility
        /\ output'.schemas = output.schemas
        /\ output'.summary.run = output.summary.run
        /\ output'.summary.authoritative <=> output.summary.authoritative
        /\ output'.summary.passed <=> accepted
    <3>1. output' = [output EXCEPT !.summary.passed = accepted]
      BY <1>14, Zenon DEF ReviseSummary
    <3> HIDE DEF accepted
    <3> QED
      BY <1>1, <3>1 DEF TypeOK, Outputs
  <2>3. Reproduced' <=> Reproduced
    BY <1>1, <1>14, RootFacts DEF RootStep, CasesStay, Reproduced
  <2>4. /\ output.reproducibility = "identical" => Reproduced
        /\ output.summary.run = runs
        /\ output.summary.authoritative <=> invocation.compile /\ invocation.check
    BY <1>1, <2>1 DEF VerdictInv
  <2>5. ExitCodeMatchesEvidence'
    BY <2>1, <2>2, <2>4 DEF ExitCodeMatchesEvidence
  <2> QED
    BY <2>1, <2>2, <2>3, <2>4, <2>5 DEF VerdictInv
<1> QED
  BY <1>2, <1>4, <1>6, <1>7, <1>8, <1>9, <1>10, <1>11, <1>12, <1>13,
     <1>14 DEF Next, Step, ValidatorStep

-----------------------------------------------------------------------------
(* The theorems                                                            *)

LEMMA InvStep ==
  ASSUME Inv, [Next]_vars
  PROVE  Inv'
<1>1. TypeOK'
  BY NextType DEF Inv
<1>2. ProcessInv' /\ TreeInv'
  BY ProcessStep DEF Inv
<1>3. PassInv'
  BY PassStep
<1>4. CollectedInv'
  BY CollectedStep
<1>5. FreshInv'
  BY FreshStep
<1>6. VerdictInv'
  BY VerdictStep
<1> QED
  BY <1>1, <1>2, <1>3, <1>4, <1>5, <1>6 DEF Inv

LEMMA Invariance == Spec => []Inv
<1>1. Inv /\ [Next]_vars => Inv'
  BY InvStep
<1> QED
  BY InitInv, <1>1, PTL DEF Spec

(* Of an accepted evaluation both passes are complete.                     *)
LEMMA AcceptedComplete ==
  ASSUME Inv, Accepted
  PROVE  /\ invocation.compile /\ invocation.check
         /\ output.summary.run = runs
         /\ Reproduced
         /\ pass = "reproduced"
         /\ position = Len(invocation.suite) + 1
         /\ Len(collected) = Len(invocation.suite)
         /\ Len(invocation.suite) \in Nat
<1>1. Concluded /\ output.summary.authoritative
      /\ output.reproducibility = "identical"
  BY DEF Accepted, Concluded
<1>2. Len(invocation.suite) \in Nat
  BY SuitesAssumption DEF Inv, TypeOK, Invocations
<1>3. /\ output.summary.run = runs /\ Reproduced
      /\ invocation.compile /\ invocation.check
  BY <1>1 DEF Inv, VerdictInv
<1> QED
  BY <1>1, <1>2, <1>3 DEF Inv, PassInv

(* A gated check that fails in a collected case stops the acceptance.      *)
LEMMA CollectedChecks ==
  ASSUME Inv, AggregateComplete, invocation.compile,
         NEW i \in 1..Len(collected)
  PROVE  collected[i].fails \subseteq UnreadChecks
<1>1. collected[i] \in Contents
  BY DEF Inv, TypeOK
<1>2. collected[i].fails \in SUBSET Checks
  BY <1>1 DEF Contents
<1>3. collected[i].fails \cap ReadChecks = {}
  BY DEF Inv, CollectedInv
<1>4. collected[i].fails \cap GeneratedChecks = {}
  BY DEF AggregateComplete, Short, GeneratedChecks
<1> QED
  BY <1>2, <1>3, <1>4 DEF Checks, ReadChecks

LEMMA AcceptedSound == Inv => AcceptedIsSound
<1> SUFFICES ASSUME Inv, Accepted
             PROVE  /\ output.summary.run = runs
                    /\ \A id \in SuiteIds :
                         /\ output.cases[id].run = runs /\ reproduced[id].run = runs
                         /\ output.cases[id].summary = "final"
                         /\ output.cases[id].fails \subseteq UnreadChecks
                         /\ SameFiles(output.cases[id], reproduced[id])
                    /\ \A id \in Ids \ SuiteIds : output.cases[id] = NoCase
  BY DEF AcceptedIsSound
<1>1. ASSUME NEW id \in SuiteIds
      PROVE  /\ output.cases[id].run = runs /\ reproduced[id].run = runs
             /\ output.cases[id].summary = "final"
             /\ output.cases[id].fails \subseteq UnreadChecks
             /\ SameFiles(output.cases[id], reproduced[id])
  <2>1. PICK i \in 1..Len(invocation.suite) : id = IdOf[invocation.suite[i]]
    BY DEF SuiteIds
  <2>2. i \in 1..Len(collected) /\ i \in 1..(position - 1)
    BY AcceptedComplete
  <2>3. /\ output.cases[id] = collected[i] /\ collected[i].summary = "final"
        /\ collected[i].run = runs
    BY <2>1, <2>2 DEF Inv, CollectedInv, AggregatedIsOnDisk
  <2>4. reproduced[id].run = runs
    BY <2>1, <2>2, AcceptedComplete DEF Inv, CollectedInv
  <2>5. collected[i].fails \subseteq UnreadChecks
    BY <2>2, AcceptedComplete, CollectedChecks DEF Accepted
  <2>6. id \in Ids
    <3>1. invocation.suite \in Seq(Manifests)
      BY SuitesAssumption DEF Inv, TypeOK, Invocations
    <3>2. invocation.suite[i] \in Manifests
      BY <3>1
    <3> QED
      BY <2>1, <3>2, IdOfAssumption
  <2>7. SameFiles(output.cases[id], reproduced[id])
    BY <2>6, AcceptedComplete, Zenon DEF Reproduced
  <2> QED
    BY <2>3, <2>4, <2>5, <2>7
<1>2. ASSUME NEW id \in Ids \ SuiteIds
      PROVE  output.cases[id] = NoCase
  BY DEF Inv, FreshInv, Concluded, Accepted
<1> QED
  BY <1>1, <1>2, AcceptedComplete

(* Types are preserved by every invocation, step and kill.                 *)
THEOREM TypeCorrect == Spec => []TypeOK
<1>1. Inv => TypeOK
  BY DEF Inv
<1> QED
  BY <1>1, Invariance, PTL

(* What the launch script of run-evaluation.ps1 announces as a pass is     *)
(* true of the evidence it points to, whatever earlier invocations left    *)
(* and wherever they were killed: every case directory is of this          *)
(* invocation, final, free of gated failures and reproduced.               *)
THEOREM AcceptanceSound == Spec => []AcceptedIsSound
BY AcceptedSound, Invariance, PTL

(* The summaries run_multi_case_pipeline aggregates are final, passed, and *)
(* what the directory of their application still holds.                    *)
THEOREM AggregateOnDisk == Spec => []AggregatedIsOnDisk
<1>1. Inv => AggregatedIsOnDisk
  BY DEF Inv, CollectedInv
<1> QED
  BY <1>1, Invariance, PTL

(* Once an invocation writes cases, no file of an earlier one is left in   *)
(* the output directory.                                                   *)
THEOREM NoEarlierEvidence == Spec => []NoEvidenceOfAnEarlierRun
<1>1. Inv => NoEvidenceOfAnEarlierRun
  <2> SUFFICES ASSUME Inv, phase \in {"cases"} \cup Closing
               PROVE  /\ \A id \in Ids : \/ output.cases[id] = NoCase
                                         \/ output.cases[id].run = runs
                      /\ output.summary.run \in {0, runs}
                      /\ phase = "cases" => /\ output.summary = NoSummary
                                            /\ output.schemas = "none"
    BY DEF NoEvidenceOfAnEarlierRun, Closing
  <2>1. \A id \in Ids : output.cases[id] = NoCase \/ output.cases[id].run = runs
    BY DEF Inv, FreshInv
  <2>2. output.summary.run \in {0, runs}
    BY Defaults DEF Inv, FreshInv, VerdictInv, Closing
  <2> QED
    BY <2>1, <2>2 DEF Inv, FreshInv
<1> QED
  BY <1>1, Invariance, PTL

(* The exit code of the pipeline, its summary and its schema report agree  *)
(* whenever the process ends by itself.                                    *)
THEOREM ExitCodeAgrees == Spec => []ExitCodeMatchesEvidence
<1>1. Inv => ExitCodeMatchesEvidence
  BY DEF Inv, VerdictInv
<1> QED
  BY <1>1, Invariance, PTL
=============================================================================
