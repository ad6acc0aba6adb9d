# Verification of AEROST

AEROST is a deterministic supervisory-control framework for UAV avionics: a
restricted language (ASCP), an executable intermediate representation (AIR),
two controlled applications written in the language, and Python tooling that
executes them along three paths, derives assurance obligations from them,
synthesizes and reduces test suites, and assembles evidence. This directory
holds TLA+ modules that model that system, TLC configurations that check the
models on small instances, and theorems that TLAPS checks for every value of
the constants.

## 1. Inventory

Paths are relative to `src/`. "State" is what a component keeps between its
operations.

| Component | Where | State | Operations | Correct when |
|---|---|---|---|---|
| Electrical-power supervisor | `examples/power-supervisor/` | `State` (7 modes), `BlockingFaultLatched` | one logical cycle: transition stage, output stage, runtime-fault policy | outputs are conservative and coherent in every cycle; a failure is left by a staged, authorized recovery only; no mode is a trap |
| Communication-link supervisor | `examples/communication-link-supervisor/` | `State` (6 modes), `LinkFaultLatched` | the same | commands only over an authenticated available link; one link selected; loss latched and acted on in the same cycle |
| Logical cycle, scenario runner | `tools/aerost_tool.py` 1102-1396 | retained state between cycles of a scenario | `execute_cycle_air`, `run_reference_scenarios` | the cycle is atomic, the fault policy overrides what it names, the committed state is the next resident one |
| Independent oracle | `tools/aerost_tool.py` 1884-2067 | its own retained state | `oracle_step`, `scenario_definitions` | agrees with the program along every scenario |
| External AIR executor; generated Rust crate and its protocol | `tools/external_air_executor.py`; `aerost_tool.py` 1398-1880, 2194-2295 | as the cycle | `execute_cycle`; generate, compile, run, parse | equal to the reference, cycle by cycle |
| Differential, three-way, coverage, MC/DC reports | `aerost_tool.py` 2088-2190, 2298-2560 | none | one report each | no vacuous pass; nothing lost between traces and report |
| Assurance obligations | `tools/assurance_obligations.py` | none | `extract_obligations` | one obligation per statement, outcome, arm, pair, policy and requirement |
| Input-domain validator | `tools/input_domain_validator.py` | none | `validate_domain`, `enumerate_input_vectors` | accepts only a domain that the search can evaluate |
| Bounded synthesizer | `tools/assurance_test_synthesizer.py` | queue, seen states, witnesses, counters, limit flags | `synthesize`, a breadth-first search | witnesses replay and are shortest; nothing cut by a bound is called unreachable |
| Obligation suite reducer | `tools/assurance_suite_reducer.py` | coverage counts, remaining, selected | `reduce_suite`, greedy | keeps every required witness, deterministically, and ends |
| Mutation-aware reducer | `tools/mutation_aware_suite_reducer.py` | the same and the killed mutants | `reduce_suite` | also keeps the detection of every mutant |
| Mutations, mutation report | `tools/application_mutations.py`, `aerost_tool.py` 2573-2735 | none | `apply_mutation`, `mutation_report` | a mutant differs from its original; killed means observed |
| Suite comparison | `tools/compare_assurance_suites.py` | none | `compare_suites` | acceptance criteria follow from the measured suites |
| Evidence pipeline | `aerost_tool.py` 3235-3833 | a directory of artifacts | `build_core_bundle`, `run_assurance_evidence_pipeline`, `reproducibility_check`, `run_pipeline` | a PASS implies every gate, whatever stopped or failed before |
| Case validator, multi-case pipeline | `tools/application_case_validator.py`, `tools/multi_case_assurance_pipeline.py` | a directory per application and an aggregate | `validate_application_case`, `run_multi_case_pipeline` | the aggregate says what the cases say |
| Front end: lexer, parser, semantic analyzer, contract validation, lowering | `aerost_tool.py` 105-1040 | none | pure functions | accepts the profile, rejects the rest |
| Schemas, conformance corpus, manifests, traceability, timing, command line | `schemas/`, `conformance/`, `aerost_tool.py` | none | pure functions, input and output | - |

How they interact. Everything is called in one process, except that the
multi-case pipeline runs the case validator, and the core bundle runs the Rust
crate and the external executor, as subprocesses over files. The front end
yields AIR; the three execution paths consume the same AIR and the same
scenarios; the oracle supplies the expected results that the scenarios carry;
obligations come from AIR; the synthesizer runs the external executor as its
transition function; the reducers consume the synthesizer's scenarios, the
mutation-aware one running the reference interpreter on mutated AIR; the
comparison runs all suites on the external executor; the pipelines run all of it in
order, with a gate after each part. Nothing but these gates makes sure that the
parts, written separately, mean the same by a cycle, a pair or a killed mutant.

What is hard in this code. There are no threads. The difficulties are sequences of
legal cycles (a fault now, a return many cycles later), overriding layers of
outputs within a cycle, state carried separately by two parties that must agree
(program and oracle), three executions of one program with different arithmetic,
defaults and checks, two accounts of coverage and of detection, searches cut by one
of three bounds, greedy loops with
multiplicities, and pipelines that fail half-way and leave artifacts. `hazards`
in PROJECT.json lists them, each at its line.

## 2. Modules

    AirExecutionCycle        the logical cycle, program as a parameter
      PowerSupervisor          INSTANCE AirExecutionCycle
        PowerOracle              the oracle in lockstep with the program
        PowerRequirements        requirements that the program does not meet
        PowerSupervisor_proofs   the program's theorems, then the oracle's
      CommunicationLinkSupervisor   INSTANCE AirExecutionCycle
        LinkRequirements
        CommunicationLinkSupervisor_proofs
    RecoveryContract         abstract: what both supervisors promise
    WitnessMulticover        abstract: what both reducers promise
      SuiteReducer, SuiteReducer_proofs
      MutationAwareReducer, MutationAwareReducer_proofs
    BoundedSynthesis         the synthesizer's search
      BoundedSynthesis_proofs
    FaultPolicy              the runtime-fault policy of a contract
      AscpFrontEnd             analysis, contract validation, lowering to AIR
        ReferenceInterpreter, ExternalExecutor, GeneratedBackend
                                 the three executions of AIR
        InputDomain              the domain validator
        AirMutations             mutants of AIR
          SuiteExecution           suites and mutants on the external executor
      AssuranceObligations     obligations, and the hits of a cycle
        SuiteComparison          suites compared, the acceptance of a case
    AirNodes                 the nodes of lowered AIR
    StructuralCoverage       the coverage and the MC/DC report
    TraceReports             the differential and the three-way report
    CaseVerdicts             BoundedSynthesis, TraceReports and SuiteComparison:
                             what is decided about the executions of a suite
      CaseVerdicts_proofs
      AssuranceCase            all of the above, from the sources of a case
    EvidencePipeline         one application: gates and artifacts
      EvidencePipeline_proofs
    MultiCasePipeline        the authoritative evaluation of all applications
      MultiCasePipeline_proofs
    MC*                      instances for TLC

**AirExecutionCycle** has two variables: `retained`, the state kept between cycles,
and `cycle`, the `CycleResult` in progress or `Idle`. `ExecuteCycle` is one
call of `execute_cycle_air` with any snapshot and fault flag; `CommitCycle` is the
runner's `retained = result.committed_state`; `StartScenario` is the next
scenario's `initial_state`. The split of a cycle in two steps makes the result
observable between them, which the properties and the contract need; nothing in
the code runs in between. The two stages, the policy and the diagnostic flags are
operators that an application supplies.

**PowerSupervisor** and **CommunicationLinkSupervisor** supply them: one operator per
arm of the transition CASE (`FromNormal`, ...), in the order of the ELSIF chain,
the latch statements after it, the output stage with its layers in order
(`StateOutputs`, `InvalidInputOutputs`, `PayloadProtection`), and the policy's
retained and output assignments as the JSON file lists them. A snapshot is a
record of every input; a frame a record of every output.

**RecoveryContract** forgets inputs and outputs: a mode, a latch, and whether the
cycle in progress was granted a reset. It says which moves need the grant. Its constant
`Released` says where a granted reset may lead out of lockout, in which the requirements
differ: `operational` for the power supervisor, only `pending` for the communication-link
supervisor (LINK-HLR-008). The two supervisors implement it under `mode <- ModeOf(retained.State)` and so on;
`ENERGY_CONSERVATION` maps to `operational`, since the program leaves it without
a reset. That choice is visible in the finding about PWR-HLR-010 below.

**PowerOracle** adds `expected`, the oracle's last result with its own carried state,
and takes the oracle's step from the state that the oracle itself committed, never
from the program's. It writes the oracle as one chain of conditions (`OracleChain`)
and sets of raised commands, as `oracle_step` does, and shares no stage with
PowerSupervisor.

**SuiteReducer** and **MutationAwareReducer** first choose a suite and its
coverage (`Init`, any coverage of the obligations), then `Reject` or `Accept` on
the multiplicities, `Select` one scenario per turn of the loop, and `Report`.
`Select` is the whole turn: ranking, the choice, the counts, the removal, the trace.
`WitnessMulticover` is the promise: a refused suite was insufficient, a reported
one sufficient, and the report is a part of what was offered.

**BoundedSynthesis** has the queue, the seen states, the witnesses, the observed
decision outcomes, the counters and the limit flags of `synthesize`. `TakeNode` is the
head of the outer loop with its depth test, `Evaluate` one turn of the inner
loop, `StopAtTransitionLimit` and `Abort` its two early exits, `Report` the
conclusion. The program under test is a transition function that may refuse a cycle,
with the events of each cycle; the last candidate of a state is the faulted cycle
with the first vector, as in the code. `Covered`, `TerminationReason` and `Passed`
are the report's fields. The reference for its properties is the program itself: `Layer`,
the states that sequences of exactly n cycles end in, and `After`, the states along a path.

**AscpFrontEnd** takes a parsed program (expressions and statements as records, types
and declarations as sequences) and an execution contract: `Accepts` is
`semantic_analyze` and `validate_execution_contract`, `LowerToAir` the AIR with the
path of a node in the program as its identity, and with the requirements and tags that
`lower_statements` inherits. A value is a string ("true", "IDLE") or an integer;
`MaxU16` and `MaxI32` stand for the widths.

**ReferenceInterpreter**, **ExternalExecutor** and **GeneratedBackend** are three
definitions of a cycle, translated from three pieces of code and sharing none. The
interpreter never checks a value and lets integers grow. The external executor checks
declarations, inputs, resident and committed states, and refuses a suite as a whole
when it runs as a process (`Refused`). The backend says first whether
the crate compiles (`Builds`: fields and variants distinct, no compared comparisons,
assigned names declared), then what it computes: `Wrapped` negation, the
policy applied to the running structure, the record that the tool parses back. Each yields
the cycles of a suite with inputs, committed state, outputs, diagnostics, and
the trace of statements, decisions and arms.

**FaultPolicy** has the lists of assignments of a policy, what their validation asks of
them, and `apply_assignments` of the external executor: two dictionaries, of which one is
written and the first is read (for the retained assignments they are the same object). The
interpreter and the backend have loops of their own.

**AirNodes**, **TraceReports**, **StructuralCoverage**, **AssuranceObligations**,
**AirMutations**, **SuiteExecution** and **SuiteComparison** are the functions on AIR, cycles
and suites of the tools of those names. Those that walk the trees of AIR (AirNodes,
AirMutations, and SuiteExecution through the executor) do it with RECURSIVE operators, as the
code does; the others read lists of nodes and cycles and declare none, so that they can be
proved about. TraceReports also holds the defects of a backend's output (`Damaged`) that the
reports are confronted with.

**CaseVerdicts** takes the executions of a suite as data, in `traces`, and says what the
reports, the two accounts of coverage, the two judgements of a mutant and the acceptance of
the case make of them. `RunRecorded` says what makes an execution an account of its suite and
of its program: cycles are those of the suite's scenarios, with the expectations of these,
under distinct keys; events carry one value for each condition of a decision of the program;
the obligations are those of its nodes.

**AssuranceCase** composes everything, and fills `traces` of CaseVerdicts by execution. A case of `Sources` is a program with contract, domain,
requirement roots, mutation profile and bounds. `Compiled` makes of an admitted case
a program of BoundedSynthesis: the external executor is the transition function, the
events of a cycle are its obligation hits and observations, and the domain
validator decides on the documents; the program carries its AIR, obligations, input vectors
and mutation profile with it. `Synthesize` is a step of the search. When the search has
reported, `Select` writes the `synthesized` suite and takes it or a part of it as `final` (a
reduction, which may have lost something), and `Run` runs the three executors on that, with
a backend whose output (`Printed`) is sound or has a cycle lost, repeated, altered or
invented, and with a `manual` suite that is empty or as good as the synthesized one. The properties then relate what the parts say. Five definitions name
programs for which the front end promises more than the executors keep, and the
properties except them by name: `InitialOutside` (a state initialized with a value outside
its type), `DefaultOutside` (an output that the reference starts with a value of another
type), `FaultFieldTaken` (an input named as the protocol's fault field), `Outgrown` (a
number that leaves I32), `CopyOverwritten` (a policy that overwrites what it has copied; FaultPolicy).
Where it is known what happens then, the property states it as an equivalence
instead of leaving the case out.

**EvidencePipeline** is `run_pipeline`: one action per stage, in the order of the code,
each writing its group of files and then passing its gate or raising. A file is known
by the invocation that wrote it (0: absent), what an invocation computes by the
checks that `failing` holds for it. `RemoveEntry` and `OutputCleared` are the
`rmtree` of `build_core_bundle`, which a kill may leave half done; `RunTool` is one
process of the assurance chain; `Rebuild` runs bundle and chain again elsewhere;
`listed` is the content of the manifest. `Kill` stops the process anywhere, and
`Invoke` starts the next one over what is there.

**MultiCasePipeline** is `run_multi_case_pipeline` with the validator process that it
starts for each application and the acceptance of `scripts/run-evaluation.ps1`
(`Accepted`), which reads the exit code and then the files. A case is the set of its
failing checks and its bytes. The checks are grouped by who reads them: those that
raise in the bundle (`BundleChecks`) or in a tool (`ToolChecks`), those that the
validator puts in its verdict (`CasePassed`), those that the sums of the aggregate
show (`AggregateComplete`), and `UnreadChecks`, which no one reads on this path: the
conformance corpus and the schemas of the traces and coverage reports, which only
`run_pipeline` gates. The second pass writes to `reproduced`, and
`WriteReproducibility` compares.

The `map` in PROJECT.json gives the lines each definition translates. Definitions
marked "Defect:" are plausible bugs, used only to show that a property notices them
(`mutants` in PROJECT.json); no specification refers to them.

## 3. Runs

| Run | Shows |
|---|---|
| PowerCycle | every cycle, from every retained state, with every one of the 2^14 snapshots and either fault flag: the outputs are safe and coherent, the contract is followed, and the oracle agrees |
| PowerRecovery | under a healthy, stable, authorized environment the power supervisor settles in NORMAL |
| LinkCycle | the same two questions for the link supervisor, over all its snapshots |
| SuiteReduction | all coverages of two obligations and an MC/DC pair by four scenarios of one or two cycles |
| MutationAwareReduction | that a reported suite also keeps the detection of every mutant, and its progress is real, with two mutants and three scenarios |
| SynthesisSearch | every transition function on four states, cycles that the executor refuses included, under seven choices of bounds; and the eighteen cases of MCAssuranceCase from front end to acceptance: an accepted case never fails in the executor, the three executions show one behaviour, the reports decide on it, both accounts of coverage and of mutants agree, an accepted case is a verified one, and the fault policy is always seen |
| EvidenceOfACase | every single failing check, in two invocations of the evidence pipeline each of which may be killed anywhere: nothing exists behind a failed gate, no mixture of invocations, the manifest is accurate, a complete directory is evidence |
| MultiCaseEvaluation | the same for the multi-case pipeline, direct or by the script, two passes that agree or not, three suite files: an accepted evaluation is sound, and exit code, summary and schema report agree |
| PowerMismatchReturn, PowerCriticalBus, LinkSecondary, SynthesisDepth | a sentence of the documentation that the code does not meet (section 6) |

Bounds and why they are enough. The supervisors need none: snapshots, states, frames
are finite and all are enumerated, so those runs are exhaustive, and every state is
reached in three steps because a scenario may start in any retained state (the
coverage-closure scenarios do). PowerRecovery keeps only the inputs that the way back to
NORMAL depends on (`RecoverySnapshots`): the liveness graph has an edge for every
snapshot out of every retained state. For the reducers, four scenarios
and a multiplicity of two are the smallest instance in which a greedy choice can leave
one witness of a pair for later, tie on gain and differ on cycles, and be refused for
a missing second witness; the proofs remove the bound. For the synthesizer,
four states make a search whose shortest and first-found paths can differ, that has an
unreachable state, and that each of the three bounds can cut; `SearchBounds` contains
ample bounds, one choice cut by each bound, and one the validator refuses.

For the cases, each of the eighteen is there for one thing that could go wrong. `latch` is the
whole of it: three modes, an MC/DC decision, a policy, a reset path, requirements, three
mutations, ample bounds and tight ones. `grid` has the tags and outputs of the eight built-in mutations, all of which apply. `swing`,
`edge` and `beyond` have a number that stays in I32, one that reaches its lower bound and is
negated, and one initialized beyond it (a width of four bits is wide enough for a value
to leave it by negation, the only arithmetic of the language). `echo` reads an enumeration output before
it is assigned; `plain` and `relay` have policies whose copies read what other assignments
left, or overwrite it; `twins` has two names with one Rust field, `chained` an
accepted expression that is not Rust; `borrowed` and `strayed` have initializers naming a
variable; `reserved` has the input `BlockingRuntimeFault`; `unknown` and `partial` are refused by
the front end, `chosen` and `swapped` by the domain validator; `adrift` has a mutant that assigns an undeclared name. Two inputs
and a depth of two or three reach every retained state of each of them.
A synthesized suite is run as it is, without any one of its scenarios, and one scenario at a time.

For the pipelines, two invocations (`MaxRuns`) are what it takes for one to find what
another left. A single failing check at a time is enough for a missing gate, since a
check that nothing reads then goes through; the few pairs in `SomeFailures` and
`SingleFailures` are those where the first failure does not stop the invocation. The suite files are a good one, one with a
duplicate manifest and one with two manifests of one identity. A write is atomic, a
removal is one entry of the directory (in EvidencePipeline, the evidence proper is one
entry: its properties are about the files that are there, and removing fewer at a time
only makes fewer complete directories), and a kill takes the child process along. An
exception that no check stands for (a full disk, a mutant's crate that does not build) ends a
step before it writes, as a kill there does.

`CHECK_DEADLOCK FALSE` appears in the runs of the reducers, the synthesizer and the
pipelines only: these are functions, and they return; the pipelines stop for good at
the bound on invocations.

Fairness. `WF` on executing and on committing a cycle: the runner's loops never
stop between two cycles while there are cycles left, and the contract's cycles
are periodic. Nothing is assumed about the environment except in the antecedent
of `RecoversWhenHealthy`. For the reducers and the synthesizer, `WF` on the next step (in CaseSpec, on `Synthesize`: the
search does not depend on what is done with its suite): a
sequential function that has not returned goes on. The pipelines are checked for safety
only: they wait for child processes without a timeout, and nothing in the code makes
a child end. Start of a new scenario is
never fair, and the liveness antecedent asks that the scenario goes on.

## 4. Proofs

Checked by TLAPS for every value of the constants. The supervisors' constants are the
sets of snapshots and scenario states, assumed to be within the declared
types. The reducers' are the sets of scenarios, obligations and mutants, assumed finite
(and scenario identifiers to be integers, so that the tie-break by name is an order).

* Supervisors. `IInv` says that `retained` is in its type and that a recorded cycle is
  *the* result of the cycle function on `retained`, some snapshot and some fault
  flag. The properties speak of one recorded cycle and alone are not inductive for the
  contract: committing needs to know that `cycle` was computed from this
  `retained`. Each property then is a lemma about the cycle function, split by the
  state the cycle ends in and by the layers of the output stage. `RecoveryContractHolds`
  maps Init to Init, `ExecuteCycle` to `Acquire`, `CommitCycle` to `Settle`
  and `StartScenario` to `Restart`.
* Oracle (in PowerSupervisor_proofs). That the two agree on each cycle is not inductive:
  a cycle says nothing of what either carries into the next one. `OracleInv` adds that
  the retained states are equal, and that a recorded cycle and its expectation come from
  one retained state, snapshot and fault flag. The rest compares two functions: the
  chain of conditions with the arms of the CASE, state by state; the two latch rules; and
  the raised sets of commands with the layers of the output frame, a frame being
  the characteristic function of what it raises. `OracleObserves` says that the oracle
  constrains nothing: each behaviour of the pair is one of the program.
* Reducers. The type invariant; `CountsAreWitnesses` (`ProgressIsReal`): each count
  is the number of selected witnesses, capped at the requirement; and `PhaseInv`: what was
  accepted as sufficient is still selected or remaining, so a loop that finds nothing to gain
  has nothing open. The latter is why the `break` on an empty ranking never leaves an
  uncovered obligation, and gives `ReportedSuiteSuffices` and the refinement of
  `WitnessMulticover`. `GainsBound` bounds what is still to be gained by
  the last gain, hence `GainsNeverIncrease`. `ChoiceUnique` follows from the
  ranking being a strict order, and `ChoiceExists`, the head of a ranking that is not
  empty, from its being one on a finite set (`FirstOfRanking`, by the well-foundedness
  of strict inclusion). `WorkDecreases` gives every step a natural number to take from.
  `SuiteSizeBounded` bounds the result by the required witnesses (and mutants), whatever the
  size of the input suite: by `EachFillsASlot`, a selected scenario has filled a slot, since
  what it gains was open, and no slot is ever opened again.

* Synthesizer, for any set of programs, with any states, events and bounds (TLC: four
  states and the cases). The assumptions are those of BoundedSynthesis: bounds are
  positive, MC/DC obligations are not direct ones, and a program is defined wherever a
  search within a declared depth looks it up (`LookedUpAssumption`). `PathsInv` says that
  each node waits with a path that leads to its state, which gives `WitnessesReplay`.
  `CountsInv` ties the counters to the seen states and the candidates left, which gives
  `LimitsAreReal` and `WithinBounds`. `FrontierInv` is the breadth-first argument: an
  untruncated search works at a level, the queue holds nodes of this level before nodes
  of the next, all layers up to it are seen, no state waits with a path longer than it
  needs, and each cycle of a seen state is pending or has its events recorded and its
  final state seen (or left to the depth bound). Shortest witnesses follow, since an
  event new at this level is in no cycle of an earlier one; the verdict follows by
  induction over the layers when nothing waits (`AllSeen`). `Layer` and `After` are
  recursive functions: their equations (`LayerRecursion`, `RunIsAfter`) and the induction
  over their argument are proved from the well-ordering of the naturals (`LeastNatural`,
  `SetInduction`), a formula about a number becoming the set of the numbers that satisfy
  it. `WorkDecreases` says that every step takes from what the bounds leave, so that the
  search ends for every transition function.

* Reports, for traces of any length and content. `DifferentialDecides` and
  `ThreeWayDecides` say what the two reports decide; `ThreeWayIsDifferential`, that the
  second adds to the first the absence of unscheduled cycles and nothing else.
  `DefectsSeen` decides for each defect of a backend's output which report fails. Two lemmas
  carry it: what precedes the last cycle of a key does not matter (`PrefixStands`), and a
  first cycle replaced or missing is missed (`FirstFalls`).

* Case verdicts, for programs, suites and executions of any size (TLC: the eighteen
  cases). Four properties of the run are proved of every state of which `RunRecorded`
  holds: `ReportsConclusive`, `CoverageAccounts`, `VerdictsAgree`, `AcceptanceSound`.
  `RunRecorded` is their only hypothesis. It says nothing about reports or verdicts, and
  SynthesisSearch checks it of what the executors leave, as a part of `AcceptedCasesRun`; that
  it holds for every program would be an induction over trees. The first follows from
  `DefectsSeen`. The second compares obligations with nodes and events kind by kind
  (`ObligationsByKind`, `EventsByKind`), the MC/DC pairs among observations with those among
  evaluations, and needs that an event is one of the program's decisions and that a decision is
  known by its identity. The third looks cycles up both ways: a cycle is
  found by its key in the suite (`KilledDiffers`), and if one differs from its expectation,
  there is a first one that does (`SmallestIndex`). The fourth combines these: criteria
  of the acceptance are about executions of the external executor, which `ProgramAgreed` and
  `MutantsAgreed` carry over to the interpreter and the backend.

* Runtime-fault policy, for lists of assignments of any length. `FaultsAreConservative`:
  whatever the stages left, a faulted cycle hits the obligation of the conservative outputs,
  under any policy that the contract validation accepts and that does not overwrite what it
  has copied. `FaultsOnlyOverride`: what the policy does not name keeps the value of the
  faulted cycle. By induction over the assignments: what each one said so far is still true of
  the memory, since a later one has another target and does not touch its source
  (`AllAssigned`); the equation of the loop is proved as those of `Layer` and `After` are.

* Evidence pipeline, for any number of invocations and any sets of checks failing
  together in one (TLC: two invocations, one failing check or two). The properties speak of
  the directory only and are not inductive. `PhaseInv` adds what the stages have checked
  when a stage is reached (`Passed`) and that from then on no older file is
  left; a stage may write only files whose gates are behind it (`GatesBehind`).
  `ResultInv` adds that a stage finds the files of all the stages before it (`Done`), and no
  manifest before the first one of the invocation: without the latter, an old list beside
  a new summary would not be excluded by the step that writes the summary.

* Multi-case pipeline, for any number of invocations, manifests and identities, any suite
  files and any sets of checks failing together (TLC: two invocations, three manifests,
  two identities). `ProcessInv` and `TreeInv` say that a validator runs only on an identity
  not taken and finds what it wrote itself; `PassInv` relates the position, the pass and the
  number of summaries collected to the phase; `CollectedInv` adds to `AggregatedIsOnDisk`
  that what was collected is of this invocation and free of the checks that someone reads;
  `FreshInv` dates the directory, and `VerdictInv` what the root documents say. Together
  they are inductive (`InvStep`). `AcceptedIsSound` needs all of them: the exit code zero
  dates the summary, `authoritative` that both passes ran, their end that every
  application was collected, and the sums of the aggregate are the only reader of the
  checks of the generated suite.

`theorems` in PROJECT.json lists the main results. What is proved and would add nothing as
a run is not checked again by TLC: the type invariants of the supervisors, the
reducers, the synthesizer and the two pipelines, the counts of the obligation reducer,
the tie-freeness, the existence of a choice and the monotone gains of both reducers, the
work left of all three loops, the size of both reduced suites, and the declared bounds of
the search.

## 5. Checked by TLC only, or not modelled

Checked by TLC only: liveness (`RecoversWhenHealthy`, `Terminates`), which is out of the
prover's reach with fairness and ENABLED. The measure behind `Terminates` is proved all
the same: every step takes from a finite amount of work (`WorkDecreases`), and a reducer
whose loop goes on has a scenario to choose (`ChoiceExists`); what TLC adds is that the
fair step is taken. And three properties of AssuranceCase, about functions that walk
trees of any depth with RECURSIVE operators, which the prover does not expand:
`AcceptedCasesRun` (front end against executor), `PathsAgree` (the three executors against
each other) and `FaultPolicyObserved` (the search over the executor). Of the last one, the
part that is about the policy is proved (`FaultsAreConservative`), and of the first one,
`RunRecorded` is what the theorems about CaseVerdicts start from.

Inputs rather than models: which scenario detects which mutant, in the mutation-aware reducer
(`scenario_detects_mutant`; AssuranceCase has the detection itself, `DetectedByReference`), and what each check
of a pipeline finds.

Left out as detail: digests, timestamps, source spans, the rendering of documents, messages and
Rust text.

Not modelled, with reasons, in `components` of PROJECT.json. In short: the lexer and the parser are
transformations of text, whose result is an input here; traceability, schemas, manifests,
timing and the command line join or check documents and are input and output; the
independence reports compare digests and lists of files.

## 6. Where code and documents disagree

* PWR-HLR-010: in NORMAL, insufficient return energy is tested before a persisted
  contactor mismatch. The latch is set, but the state becomes ENERGY_CONSERVATION,
  and returns to NORMAL without a reset when the energy conditions clear, with
  the latch still set (PowerMismatchReturn).
* PWR-HLR-005: the cycle that leaves INITIALIZING ignores a critical main
  bus (PowerCriticalBus). From every other state the requirement holds
  (`CriticalBusLands`, proved).
* LINK-HLR-003: the first cycle of NOMINAL selects the primary link although only the
  secondary one may be available (LinkSecondary).
* `specs/bounded-input-domain.md` section 8: a search cut by its depth bound reports
  an exhausted frontier, and its uncovered obligations as unreachable
  (SynthesisDepth). Read within the declared bounds, the verdict is right
  (`VerdictIsRight`).

Seen in the code and not run: a dual-source loss in INITIALIZING commits LOCKOUT once
initialization is complete, essential power or not, where PWR-HLR-008 asks for CRITICAL if it
remains (`DualLossCommitted` is about the other states); RECOVERY_PENDING takes no action on insufficient return
energy (PWR-HLR-004); a failed battery is isolated in DEGRADED only (PWR-HLR-006;
where isolation is commanded it is right, `IsolationKeepsASource`, proved); LOST_LINK
under a still persisting loss passes through RECOVERY_PENDING for one cycle, where
LINK-HLR-005 asks for LOST_LINK.

In the tools, each visible as a named exception of a property or a case of MCAssuranceCase:

* The domain validator looks for the values of an enumeration under `members`, which lowered AIR does
  not have, and knows integer types that ASCP does not: a domain with an enumeration or an
  integer input is always refused (`InputDomain`, case `chosen`), although
  `specs/bounded-input-domain.md` describes both. Both controlled programs have BOOL inputs only.
* An initializer is checked for its type and not for its value (`InitialOutside`).
* The reference interpreter starts every enumeration output with the first value of the
  program's first type (`DefaultOutside`); the other two executors do not.
* An input named `BlockingRuntimeFault` is refused by the external executor and takes the fault flag's place
  in the backend (`FaultFieldTaken`).
* The differential report does not look at cycles that only the backend produced, and of two cycles with one
  key the last one stands (`ReportsAreConclusive`).
