----------------------------- MODULE AssuranceCase -----------------------------
(***************************************************************************)
(* From ASCP sources to an accepted case: the front end, the lowered AIR,  *)
(* its obligations, the bounded search over the external executor, the     *)
(* suite it finds, and what is made of a suite: the three executions, the  *)
(* reports over them, and the comparison that accepts a case               *)
(* (src/tools/aerost_tool.py, assurance_test_synthesizer.py and            *)
(* compare_assurance_suites.py).  A case of Sources is a parsed program    *)
(* with its contract, input domain, requirement roots, mutation profile    *)
(* and search bounds.                                                      *)
(***************************************************************************)
EXTENDS CaseVerdicts, SuiteExecution, AirNodes, InputDomain

CONSTANTS
  Sources,        \* the cases by name
  FieldName(_),   \* the Rust field of a variable
  VariantName(_)  \* the Rust variant of an enumeration value

R == INSTANCE ReferenceInterpreter
X == INSTANCE ExternalExecutor
B == INSTANCE GeneratedBackend

(* A function with its values computed.                                    *)
LOCAL Table(f) == f @@ [x \in {} |-> x]

-----------------------------------------------------------------------------
(* The program of a case, with its documents                               *)

(* A candidate is an input vector, or a fault with the first one.          *)
FaultOf(vectors, candidate) == candidate \notin DOMAIN vectors

InputsOf(vectors, candidate) ==
  vectors[IF FaultOf(vectors, candidate) THEN 1 ELSE candidate]

CycleAt(air, vectors, state, candidate) ==
  X!CycleOf(air, state, InputsOf(vectors, candidate), FaultOf(vectors, candidate))

CandidatesOf(vectors) == 1..(Len(vectors) + 1)

(* The states that a search to some depth can expand.                      *)
Within(air, vectors, depth) ==
  LET Successors(states) ==
        {c.committed : c \in
           {c \in {CycleAt(air, vectors, s, i) :
                     s \in states, i \in CandidatesOf(vectors)} : ~c.raised}}
      after[k \in Nat] ==
        IF k = 0 THEN {X!InitialState(air)}
        ELSE after[k - 1] \cup Successors(after[k - 1])
  IN  after[depth]

Deepest(choices) == CHOOSE d \in {b.depth : b \in choices} :
                      \A b \in choices : b.depth <= d

(* The cycles that a search may try, by state and candidate.               *)
CyclesOf(source, air, vectors) ==
  Table([cell \in Within(air, vectors, Deepest(source.bounds) - 1)
                    \X CandidatesOf(vectors) |->
           CycleAt(air, vectors, cell[1], cell[2])])

HitsOf(air, obligations, cycle, fault) ==
  IF cycle.raised THEN {}
  ELSE CycleHits(air.contract, obligations, cycle, fault) \cup Observations(cycle)

(* The program as the search sees it, and the documents it comes from.     *)
Searched(n, source, air, nodes, vectors, obligations, cycles) ==
  [case |-> n, air |-> air, nodes |-> nodes, obligations |-> obligations,
   inputs |-> vectors, profile |-> source.profile, roots |-> source.roots,
   next |-> [cell \in DOMAIN cycles |->
               IF cycles[cell].raised THEN Raised ELSE cycles[cell].committed],
   events |-> [cell \in DOMAIN cycles |->
                 HitsOf(air, obligations, cycles[cell], FaultOf(vectors, cell[2]))],
   initial |-> X!InitialState(air),
   vectors |-> Len(vectors),
   direct |-> Ids(obligations),
   mcdc |-> McdcObligations(nodes),
   pairs |-> [m \in McdcObligations(nodes) |->
                PairsAmong(m, UNION {Observations(cycles[cell]) :
                                       cell \in DOMAIN cycles})],
   documents |-> {DomainAccepted(air, source.domain)},
   bounds |-> source.bounds]

Numbered(n, source, air, nodes, vectors) ==
  Searched(n, source, air, nodes, vectors,
           DirectObligations(nodes, air.contract, source.roots),
           CyclesOf(source, air, vectors))

Compiled(n, source, air, vectors) ==
  Numbered(n, source, air, AllNodes(air), vectors)

Admitted == {n \in DOMAIN Sources : Accepts(Sources[n].program, Sources[n].contract)}

CompiledPrograms ==
  {Compiled(n, Sources[n], LowerToAir(Sources[n].program, Sources[n].contract),
            Vectors(Sources[n].domain)) : n \in Admitted}

-----------------------------------------------------------------------------
(* What is made of a synthesis                                             *)

caseVars == <<vars, suites, executions>>

(* The two scenarios of an MC/DC obligation show one pair.                 *)
PairShown(m) ==
  CHOOSE pair \in program.pairs[m] : pair \subseteq DOMAIN witness

(* The scenarios that synthesize writes, those with one path merged.       *)
Paths ==
  {witness[o] : o \in Covered \cap program.direct}
    \cup UNION {{witness[e] : e \in PairShown(m)} : m \in Covered \cap program.mcdc}

(* One cycle of a scenario, with the expectation that was recorded.        *)
Recorded(path, i) ==
  [inputs |-> InputsOf(program.inputs, path[i]),
   fault |-> FaultOf(program.inputs, path[i]),
   expected |-> Projection(CycleAt(Air, program.inputs, Replay(path)[i - 1], path[i]))]

Scenario(path) ==
  [id |-> path, initial |-> program.initial,
   cycles |-> [i \in DOMAIN path |-> Recorded(path, i)]]

SuiteOf(paths) ==
  FoldSet(LAMBDA path, suite : Append(suite, Scenario(path)), <<>>, paths)

BackendRuns(air, suite) == B!Builds(air) /\ ~B!Panics(air, suite)

BackendTrace(air, suite) ==
  IF BackendRuns(air, suite) THEN B!BackendCycles(air, suite) ELSE <<>>

(* A mutant in the mutation report, and in the gate on the manual suite.   *)
MutantTraces(air, suite, gate) ==
  [builds |-> BackendRuns(air, suite),
   reference |-> R!ReferenceCycles(air, suite),
   backend |-> BackendTrace(air, suite),
   manual |-> R!ReferenceCycles(air, gate)]

TracesOf(mutants, gate) ==
  [reference |-> R!ReferenceCycles(Air, final),
   external |-> IF X!Refused(Air, final) THEN <<>>
                ELSE X!ProtocolCycles(Air, final),
   backend |-> BackendTrace(Air, final),
   mutants |-> [m \in DOMAIN mutants |-> MutantTraces(mutants[m], final, gate)],
   final |-> Execution(Air, mutants, final),
   synthesized |-> Execution(Air, mutants, synthesized),
   manual |-> Execution(Air, mutants, gate),
   fitting |-> MutationsApply(Air, Profile)]

Synthesize ==
  /\ Next
  /\ UNCHANGED <<suites, executions>>

(* The synthesized suite, or what a reduction might leave of it.           *)
Select ==
  /\ phase = "reported" /\ IsCase /\ final = <<>>
  /\ \E suite \in {SuiteOf(Paths)} :
       /\ synthesized' = suite
       /\ final' \in {suite} \cup {Remove(suite, s) : s \in ToSet(suite)}
                    \cup {<<s>> : s \in ToSet(suite)}
  /\ final' # <<>>
  /\ UNCHANGED <<vars, executions>>

Run ==
  /\ final # <<>> /\ traces = <<>>
  /\ damage' \in IF final = synthesized /\ BackendRuns(Air, final) THEN Damages
                 ELSE {"none"}
  /\ manual' \in IF damage' = "none" THEN {<<>>, synthesized} ELSE {<<>>}
  /\ traces' = TracesOf(Mutants(Air, Profile), manual')
  /\ UNCHANGED <<vars, suites>>

CaseInit ==
  /\ Init
  /\ synthesized = <<>> /\ final = <<>> /\ manual = <<>>
  /\ damage = "none" /\ traces = <<>>

CaseNext == Synthesize \/ Select \/ Run

(* synthesize is a sequential function: it runs until it returns.          *)
CaseSpec == CaseInit /\ [][CaseNext]_caseVars /\ WF_caseVars(Synthesize)

-----------------------------------------------------------------------------
(* Where the front end promises more than the executors keep               *)

(* A state initialized with a value outside its type: the name of another  *)
(* variable of the type, or a literal that is too large.                   *)
InitialOutside(air) ==
  \E d \in ToSet(air.states) : d.init \notin ValuesOf(air, d.type)

(* An enumeration output that the reference starts with a value of the     *)
(* first type, although it has another.                                    *)
DefaultOutside(air) == R!DefaultOutputs(air) # X!DefaultOutputs(air)

FaultFieldTaken(air) == B!Captured(air)

(* A number of a cycle that no I32 holds.                                  *)
Outgrown(air, cycles) ==
  \E i \in DOMAIN cycles, d \in ToSet(air.states \o air.outputs) :
    /\ d.type \in Numbers
    /\ (cycles[i].committed @@ cycles[i].outputs)[d.name] \notin Interval("I32")

-----------------------------------------------------------------------------
(* Properties                                                              *)

(* A case that passes the semantic analysis, the contract validation and   *)
(* the domain validation never ends the synthesis with an executor error,  *)
(* and the protocol run of its suite is not refused, but for an            *)
(* initializer outside its type and an input named as the fault field.     *)
(* What the executors leave is an account of the suites they were given,   *)
(* and the synthesized one covers, run again, what its report counts.      *)
AcceptedCasesRun ==
  IsCase =>
    /\ phase = "failed" => ~wellFormed \/ ~BoundsAccepted \/ InitialOutside(Air)
    /\ Ran => (traces.external = <<>> <=>
                 InitialOutside(Air) \/ FaultFieldTaken(Air))
    /\ RunRecorded
    /\ Ran /\ final = synthesized =>
         Covered \subseteq
           CoveredBy(Nodes, Air.contract, Direct, traces.final.cycles)

(* The executors agree on a mutant as far as the external one runs it, and *)
(* in the backend where it builds and no number leaves I32.                *)
MutantAgreed(m, air) ==
  LET mutant == traces.mutants[m]
      cycles == traces.final.mutants[m]
  IN  /\ Follows(cycles, mutant.reference)
      /\ Follows(traces.manual.mutants[m], mutant.manual)
      /\ mutant.builds =>
           /\ Completed(cycles) /\ SameRun(mutant.reference, cycles)
           /\ ~Outgrown(air, mutant.reference) => SameRun(mutant.backend, cycles)

(* The interpreter, the external executor, in its protocol and called      *)
(* directly, and the generated backend show one behaviour, cycle by cycle, *)
(* their traces included, wherever they run and no output starts outside   *)
(* its type, on the program and on its mutants.  The backend departs from  *)
(* it where its fault field is taken for an input, and where a number      *)
(* leaves I32, which Python lets grow and Rust wraps.                      *)
PathsAgree ==
  Ran /\ ~DefaultOutside(Air) =>
    /\ traces.external # <<>> =>
         /\ SameRun(traces.reference, traces.external)
         /\ ProgramAgreed
    /\ traces.backend # <<>> /\ ~FaultFieldTaken(Air) =>
         (SameRun(traces.reference, traces.backend)
            <=> ~Outgrown(Air, traces.reference))
    /\ traces.external # <<>> =>
         \A m \in DOMAIN traces.mutants : MutantAgreed(m, Mutants(Air, Profile)[m])

(* A search that its evaluations suffice for sees the fault policy act:    *)
(* the diagnostic, the inhibited commit and the conservative outputs,      *)
(* unless the policy itself overwrites what it copied.                     *)
FaultPolicyObserved ==
  IsCase /\ phase = "reported" /\ ~transitionLimit =>
    {o \in Ids(PolicyObligations(Air.contract)) :
       o # <<"conservative">> \/ ~CopyOverwritten(Air.contract.retained)} \subseteq Covered
=============================================================================
