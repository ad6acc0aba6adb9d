------------------------ MODULE ReferenceInterpreter ------------------------
(***************************************************************************)
(* The reference interpreter of AIR (src/tools/aerost_tool.py): one cycle  *)
(* over one environment of inputs, retained state and outputs, with the    *)
(* trace of statements, decisions and case arms that the reports read, and *)
(* the scenario loop over it.                                              *)
(***************************************************************************)
EXTENDS AscpFrontEnd

Bit(b) == IF b THEN "true" ELSE "false"

(* bool: every string but the false value counts as true.                  *)
Truth(value) == value # "false"

Operation(op, l, r) ==
  CASE op = "AND" -> Bit(Truth(l) /\ Truth(r))
    [] op = "OR" -> Bit(Truth(l) \/ Truth(r))
    [] op = "EQ" -> Bit(l = r)
    [] op = "NE" -> Bit(l # r)
    [] op = "LT" -> Bit(l < r)
    [] op = "LE" -> Bit(l <= r)
    [] op = "GT" -> Bit(l > r)
    [] op = "GE" -> Bit(l >= r)

(* A name that is not in the environment stands for itself.                *)
RECURSIVE Eval(_, _)
Eval(e, env) ==
  CASE e.k \in {"bool", "int"} -> e.v
    [] e.k = "name" -> IF e.v \in DOMAIN env THEN env[e.v] ELSE e.v
    [] e.k = "unary" ->
         LET value == Eval(e.arg, env)
         IN  (CASE e.op = "NOT" -> Bit(~Truth(value))
                [] e.op = "MINUS" -> -value
                [] e.op = "PLUS" -> value)
    [] e.k = "binary" -> Operation(e.op, Eval(e.left, env), Eval(e.right, env))

(* The run of a body: the environment, the events, and whether a CASE      *)
(* found no arm.                                                           *)
Start(env) == [env |-> env, statements |-> <<>>, decisions |-> <<>>,
               arms |-> <<>>, stuck |-> FALSE]

EventOf(b, env) ==
  [decision |-> b.decision, result |-> Truth(Eval(b.expr, env)),
   conditions |-> [j \in DOMAIN b.conditions |->
                     Truth(Eval(b.conditions[j].expr, env))]]

RECURSIVE Statement(_, _), Branches(_, _, _), Chosen(_, _, _)

Body(statements, run) ==
  FoldLeft(LAMBDA r, s : IF r.stuck THEN r ELSE Statement(s, r),
           run, statements)

Branches(branches, else, run) ==
  IF branches = <<>> THEN Body(else, run)
  ELSE Chosen(branches, else,
         [run EXCEPT !.decisions = Append(@, EventOf(Head(branches), run.env))])

Chosen(branches, else, run) ==
  IF Last(run.decisions).result THEN Body(Head(branches).body, run)
  ELSE Branches(Tail(branches), else, run)

(* The first arm for the value of the selector.                            *)
Arm(s, value, run) ==
  LET taken == SelectSeq(s.arms, LAMBDA a : a.value = value)
  IN  IF taken = <<>> THEN [run EXCEPT !.stuck = TRUE]
      ELSE Body(taken[1].body, [run EXCEPT !.arms = Append(@, <<s.id, value>>)])

Statement(s, run) ==
  LET reached == [run EXCEPT !.statements = Append(@, s.id)]
  IN  CASE s.kind = "assign" ->
             [reached EXCEPT !.env = (s.target :> Eval(s.expr, @)) @@ @]
        [] s.kind = "if" -> Branches(s.branches, s.else, reached)
        [] s.kind = "case" -> Arm(s, Eval(s.selector, run.env), reached)

InitialState(air) ==
  [n \in NamesOf(air.states) |-> Declaration(air, n).init]

(* An enum output starts with the first value of the first type.           *)
DefaultOutputs(air) ==
  [n \in NamesOf(air.outputs) |->
     LET type == Declaration(air, n).type
     IN  CASE type = "BOOL" -> "false"
           [] type \in Numbers -> 0
           [] OTHER -> air.types[1].values[1]]

(* An assignment of the policy, reading the state as it is by then.        *)
Assign(fields, a, state) ==
  [fields EXCEPT ![a.target] =
     IF "from" \in DOMAIN a THEN state[a.from] ELSE a.value]

(* Diagnostics, in the order they are appended; a latched flag is named by *)
(* its state.                                                              *)
Diagnostics(contract, fault, resident, committed) ==
  LET raised == SelectSeq(contract.flags,
                          LAMBDA f : committed[f.state] = f.active)
  IN  (IF fault THEN <<"fault">> ELSE <<>>)
      \o (IF resident # committed THEN <<"transition">> ELSE <<>>)
      \o [i \in DOMAIN raised |-> raised[i].state]

Restricted(env, names) == [n \in names |-> env[n]]

CommittedState(policy, fault, working) ==
  IF fault
  THEN FoldLeft(LAMBDA s, a : Assign(s, a, s), working, policy.retained)
  ELSE working

Outputs(policy, fault, normal, committed) ==
  IF fault
  THEN FoldLeft(LAMBDA o, a : Assign(o, a, committed), normal, policy.output)
  ELSE normal

ResultOf(air, resident, fault, run, committed) ==
  [stuck |-> run.stuck, committed |-> committed,
   outputs |-> Outputs(air.contract, fault,
                       Restricted(run.env, NamesOf(air.outputs)), committed),
   inhibited |-> fault /\ air.contract.inhibited,
   statements |-> run.statements, decisions |-> run.decisions,
   arms |-> run.arms,
   diagnostics |-> Diagnostics(air.contract, fault, resident, committed)]

OutputStage(air, resident, fault, first) ==
  ResultOf(air, resident, fault,
           IF first.stuck THEN first ELSE Body(air.output, first),
           CommittedState(air.contract, fault,
                          Restricted(first.env, DOMAIN resident)))

CycleOf(air, resident, inputs, fault) ==
  OutputStage(air, resident, fault,
    Body(air.transition, Start(DefaultOutputs(air) @@ resident @@ inputs)))

(* The scenario loop: each cycle with its key, its resident state and its  *)
(* observables.                                                            *)
ScenarioCycles(air, scenario) ==
  FoldLeft(
    LAMBDA done, c :
      Append(done, [scenario |-> scenario.id, cycle |-> Len(done)]
                   @@ CycleOf(air,
                              IF done = <<>> THEN scenario.initial
                              ELSE Last(done).committed,
                              c.inputs, c.fault)),
    <<>>, scenario.cycles)

ReferenceCycles(air, scenarios) ==
  FoldLeft(LAMBDA done, s : done \o ScenarioCycles(air, s), <<>>, scenarios)
=============================================================================
