--------------------------- MODULE ExternalExecutor ---------------------------
(***************************************************************************)
(* The external AIR executor (src/tools/external_air_executor.py): the     *)
(* cycle that the synthesizer and the reduction call directly, and the     *)
(* protocol run of the separate process.  Where the reference interpreter  *)
(* carries on, this executor raises: on an unknown name or target, on      *)
(* inputs or states other than the declared ones, on a value outside its   *)
(* type and on a protocol without cycles.                                  *)
(***************************************************************************)
EXTENDS AscpFrontEnd

DeclarationsValid(air) ==
  /\ Distinct(Declared(air))
  /\ \A d \in ToSet(Declared(air)) :
       d.type \in {"BOOL", "U16", "I32"} \cup NamesOf(air.types)

(* parse_typed_value, of the text that a value was formatted to.           *)
Parses(air, type, value) == value \in ValuesOf(air, type)

InitialState(air) ==
  [n \in NamesOf(air.states) |-> Declaration(air, n).init]

DefaultOutputs(air) ==
  [n \in NamesOf(air.outputs) |->
     LET type == Declaration(air, n).type
     IN  CASE type = "BOOL" -> "false"
           [] type \in Numbers -> 0
           [] OTHER ->
                SelectSeq(air.types, LAMBDA t : t.name = type)[1].values[1]]

-----------------------------------------------------------------------------
(* Expressions and statements                                              *)

RECURSIVE NamesIn(_)
NamesIn(e) ==
  CASE e.k \in {"bool", "int"} -> {}
    [] e.k = "name" -> {e.v}
    [] e.k = "unary" -> NamesIn(e.arg)
    [] e.k = "binary" -> NamesIn(e.left) \cup NamesIn(e.right)

RECURSIVE Evaluate(_, _)
Evaluate(e, env) ==
  CASE e.k \in {"bool", "int"} -> e.v
    [] e.k = "name" -> IF e.v \in DOMAIN env THEN env[e.v] ELSE e.v
    [] e.k = "unary" ->
         LET value == Evaluate(e.arg, env)
         IN  CASE e.op = "NOT" -> IF value = "false" THEN "true" ELSE "false"
               [] e.op = "MINUS" -> -value
               [] OTHER -> value
    [] e.k = "binary" ->
         LET l == Evaluate(e.left, env)
             r == Evaluate(e.right, env)
             holds == CASE e.op = "AND" -> l # "false" /\ r # "false"
                        [] e.op = "OR" -> l # "false" \/ r # "false"
                        [] e.op = "EQ" -> l = r
                        [] e.op = "NE" -> l # r
                        [] e.op = "LT" -> l < r
                        [] e.op = "LE" -> l <= r
                        [] e.op = "GT" -> l > r
                        [] e.op = "GE" -> l >= r
         IN  IF holds THEN "true" ELSE "false"

(* A name must be a variable or an enumeration literal.                    *)
Resolve(names, run) == names \subseteq run.known

Raise(run) == [run EXCEPT !.raised = TRUE]

Positive(e, run) == Evaluate(e, run.env) # "false"

NamesDecided(b) ==
  NamesIn(b.expr)
    \cup UNION {NamesIn(b.conditions[j].expr) : j \in DOMAIN b.conditions}

EventOf(b, run) ==
  [decision |-> b.decision, result |-> Positive(b.expr, run),
   conditions |-> [j \in DOMAIN b.conditions |->
                     Positive(b.conditions[j].expr, run)]]

RECURSIVE Execute(_, _), Decide(_, _, _)

ExecuteAll(statements, run) ==
  FoldLeft(LAMBDA r, s : IF r.raised THEN r ELSE Execute(s, r),
           run, statements)

(* The branch that was decided last.                                       *)
Follow(branches, else, run) ==
  IF Last(run.decisions).result THEN ExecuteAll(Head(branches).body, run)
  ELSE Decide(Tail(branches), else, run)

Decide(branches, else, run) ==
  IF branches = <<>> THEN ExecuteAll(else, run)
  ELSE IF ~Resolve(NamesDecided(Head(branches)), run) THEN Raise(run)
  ELSE Follow(branches, else,
         [run EXCEPT !.decisions = Append(@, EventOf(Head(branches), run))])

(* The arms for the value of the selector.                                 *)
FollowArm(s, taken, value, run) ==
  IF taken = <<>> THEN Raise(run)
  ELSE ExecuteAll(taken[1].body,
                  [run EXCEPT !.arms = Append(@, <<s.id, value>>)])

Execute(s, before) ==
  LET run == [before EXCEPT !.statements = Append(@, s.id)]
  IN  CASE s.kind = "assign" ->
             IF s.target \notin DOMAIN run.env \/ ~Resolve(NamesIn(s.expr), run)
             THEN Raise(run)
             ELSE [run EXCEPT !.env[s.target] = Evaluate(s.expr, run.env)]
        [] s.kind = "if" -> Decide(s.branches, s.else, run)
        [] s.kind = "case" ->
             IF ~Resolve(NamesIn(s.selector), run) THEN Raise(run)
             ELSE LET value == Evaluate(s.selector, run.env)
                  IN  FollowArm(s,
                        SelectSeq(s.arms, LAMBDA a : a.value = value), value, run)

-----------------------------------------------------------------------------
(* A cycle                                                                 *)

RECURSIVE Reported(_, _)
Reported(flags, committed) ==
  IF flags = <<>> THEN <<>>
  ELSE (IF committed[flags[1].state] = flags[1].active
        THEN <<flags[1].state>> ELSE <<>>)
       \o Reported(Tail(flags), committed)

(* The environment of a cycle, and the run that starts in it.              *)
Start(air, env, inputs) ==
  [env |-> env, known |-> DOMAIN env \cup Literals(air),
   statements |-> <<>>, decisions |-> <<>>, arms |-> <<>>,
   raised |-> DOMAIN inputs # NamesOf(air.inputs)]

(* What the two stages leave, the first in the retained state and the      *)
(* second in the outputs.                                                  *)
Memory(air, resident, first, run) ==
  [retained |-> [n \in DOMAIN resident |-> first.env[n]],
   outputs |-> [n \in NamesOf(air.outputs) |-> run.env[n]]]

ResultOf(air, resident, fault, run, memory) ==
  [raised |-> run.raised, resident |-> resident,
   committed |-> memory.retained, outputs |-> memory.outputs,
   inhibited |-> fault /\ air.contract.inhibited,
   statements |-> run.statements, decisions |-> run.decisions,
   arms |-> run.arms,
   diagnostics |->
     (IF fault THEN <<"fault">> ELSE <<>>)
     \o (IF resident # memory.retained THEN <<"transition">> ELSE <<>>)
     \o Reported(air.contract.flags, memory.retained)]

Settled(air, resident, fault, run, memory) ==
  ResultOf(air, resident, fault, run,
           IF fault THEN UnderPolicy(air.contract, memory) ELSE memory)

Closed(air, resident, fault, first, run) ==
  Settled(air, resident, fault, run, Memory(air, resident, first, run))

OutputStage(air, resident, fault, first) ==
  Closed(air, resident, fault, first, ExecuteAll(air.output, first))

CycleOf(air, resident, inputs, fault) ==
  OutputStage(air, resident, fault,
    ExecuteAll(air.transition,
      Start(air, inputs @@ resident @@ DefaultOutputs(air), inputs)))

-----------------------------------------------------------------------------
(* The protocol.  A scenario record carries the state, a cycle record the  *)
(* inputs and the fault in a field of its own, which no input may use.     *)

FaultField == "BlockingRuntimeFault"

StateAccepted(air, state) ==
  \A d \in ToSet(air.states) : Parses(air, d.type, state[d.name])

InputsAccepted(air, inputs) ==
  /\ FaultField \notin DOMAIN inputs
  /\ \A d \in ToSet(air.inputs) : Parses(air, d.type, inputs[d.name])

ScenarioRun(air, scenario) ==
  FoldLeft(
    LAMBDA done, c :
      IF done # <<>> /\ Last(done).raised THEN done
      ELSE IF ~InputsAccepted(air, c.inputs)
              \/ ~StateAccepted(air, scenario.initial)
        THEN Append(done, [raised |-> TRUE])
        ELSE Append(done,
               [scenario |-> scenario.id, cycle |-> Len(done)]
               @@ CycleOf(air,
                          IF done = <<>> THEN scenario.initial
                          ELSE Last(done).committed,
                          c.inputs, c.fault)),
    <<>>, scenario.cycles)

(* run_protocol raises on the first thing it refuses; the process then     *)
(* writes no document.                                                     *)
Refused(air, scenarios) ==
  \/ ~DeclarationsValid(air)
  \/ \A s \in ToSet(scenarios) : s.cycles = <<>>
  \/ \E s \in ToSet(scenarios) :
       \/ ~StateAccepted(air, s.initial)
       \/ \E c \in ToSet(ScenarioRun(air, s)) : c.raised

ProtocolCycles(air, scenarios) ==
  FoldLeft(LAMBDA done, s : done \o ScenarioRun(air, s), <<>>, scenarios)
=============================================================================
