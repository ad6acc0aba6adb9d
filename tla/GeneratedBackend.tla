--------------------------- MODULE GeneratedBackend ---------------------------
(***************************************************************************)
(* The Rust crate generated from AIR (generate_rust_crate and              *)
(* generate_rust_runner of src/tools/aerost_tool.py): what rustc accepts   *)
(* of it, the step function over an Inputs, an Outputs and a Retained      *)
(* structure, and the runner that reads the protocol and prints a record   *)
(* for each cycle, which the tool parses back.  The release build wraps    *)
(* on overflow.                                                            *)
(***************************************************************************)
EXTENDS AscpFrontEnd

CONSTANTS
  FieldName(_),   \* snake: the field of a variable
  VariantName(_)  \* pascal: the variant of an enumeration value

(* variable_sections, and the field of its structure.                      *)
Place(air, name) ==
  <<CASE name \in NamesOf(air.inputs) -> "inputs"
      [] name \in NamesOf(air.outputs) -> "outputs"
      [] name \in NamesOf(air.states) -> "state",
    FieldName(name)>>

IsVariable(air, name) == name \in NamesOf(Declared(air))

-----------------------------------------------------------------------------
(* What rustc accepts                                                      *)

NamesBuild(air) ==
  /\ \A t \in ToSet(air.types) : \A x, y \in ToSet(t.values) :
       VariantName(x) = VariantName(y) => x = y
  /\ \A section \in {air.inputs, air.outputs, air.states} :
       \A x, y \in NamesOf(section) : FieldName(x) = FieldName(y) => x = y

Comparisons == {"EQ", "NE", "LT", "LE", "GT", "GE"}

IsComparison(e) == e.k = "binary" /\ e.op \in Comparisons

RECURSIVE Rendered(_, _)
Rendered(air, e) ==
  CASE e.k \in {"bool", "int"} -> TRUE
    [] e.k = "name" -> IsVariable(air, e.v) \/ e.v \in Literals(air)
    [] e.k = "unary" -> Rendered(air, e.arg)
    [] e.k = "binary" -> Rendered(air, e.left) /\ Rendered(air, e.right)

(* e compiles as a value of a type.  Literals are range-checked, U16 has   *)
(* no negation, there is no unary plus, operands have one type, and the    *)
(* rendering puts no parentheses around a comparison that is compared.     *)
RECURSIVE Compiles(_, _, _)
Compiles(air, e, type) ==
  CASE e.k = "bool" -> type = "BOOL"
    [] e.k = "int" -> type \in Numbers /\ e.v \in Interval(type)
    [] e.k = "name" -> type = NameType(air, e.v)
    [] e.k = "unary" ->
         \/ e.op = "NOT" /\ type = "BOOL" /\ Compiles(air, e.arg, "BOOL")
         \/ e.op = "MINUS" /\ type = "I32"
            /\ \/ e.arg.k = "int" /\ -e.arg.v \in Interval("I32")
               \/ Compiles(air, e.arg, "I32")
    [] IsComparison(e) ->
         /\ type = "BOOL"
         /\ ~IsComparison(e.left) /\ ~IsComparison(e.right)
         /\ \E t \in Numbers \cup (IF e.op \in {"EQ", "NE"}
                                   THEN NamesOf(air.types) \cup {"BOOL"}
                                   ELSE {"BOOL"}) :
              Compiles(air, e.left, t) /\ Compiles(air, e.right, t)
    [] OTHER ->
         /\ type = "BOOL"
         /\ Compiles(air, e.left, "BOOL") /\ Compiles(air, e.right, "BOOL")

RECURSIVE BodyBuilds(_, _)
BodyBuilds(air, body) ==
  LET Builds(e, type) == Rendered(air, e) /\ Compiles(air, e, type)
  IN  \A i \in DOMAIN body :
        LET s == body[i]
        IN  CASE s.kind = "assign" ->
                   /\ s.target \in NamesOf(air.outputs \o air.states)
                   /\ Builds(s.expr, Declaration(air, s.target).type)
              [] s.kind = "if" ->
                   /\ \A j \in DOMAIN s.branches :
                        LET b == s.branches[j]
                        IN  /\ Builds(b.expr, "BOOL")
                            /\ \A c \in DOMAIN b.conditions :
                                 Builds(b.conditions[c].expr, "BOOL")
                            /\ BodyBuilds(air, b.body)
                   /\ BodyBuilds(air, s.else)
              [] s.kind = "case" ->
                   /\ \E t \in ToSet(air.types) :
                        /\ Builds(s.selector, t.name)
                        /\ {s.arms[j].value : j \in DOMAIN s.arms}
                             = ToSet(t.values)
                   /\ \A j \in DOMAIN s.arms : BodyBuilds(air, s.arms[j].body)

(* The literal of a BOOL state builds whatever its initializer is.         *)
InitializersBuild(air) ==
  \A d \in ToSet(air.states) :
    d.type # "BOOL" => d.init \in ValuesOf(air, d.type)

Builds(air) ==
  /\ NamesBuild(air)
  /\ InitializersBuild(air)
  /\ BodyBuilds(air, air.transition) /\ BodyBuilds(air, air.output)

-----------------------------------------------------------------------------
(* step: an environment maps places to values, an enumeration value being  *)
(* its variant.                                                            *)

Wrapped(n) == IF n = MaxI32 + 1 THEN -n ELSE n

Encoded(air, name, value) ==
  IF Declaration(air, name).type \in NamesOf(air.types)
  THEN VariantName(value) ELSE value

RECURSIVE Value(_, _, _)
Value(air, e, env) ==
  LET Of(x) == Value(air, x, env)
      Holds(x) == Of(x) = "true"
      Bool(b) == IF b THEN "true" ELSE "false"
  IN  CASE e.k \in {"bool", "int"} -> e.v
        [] e.k = "name" -> IF IsVariable(air, e.v) THEN env[Place(air, e.v)]
                           ELSE VariantName(e.v)
        [] e.k = "unary" /\ e.op = "NOT" -> Bool(~Holds(e.arg))
        [] e.k = "unary" /\ e.op = "MINUS" -> Wrapped(-Of(e.arg))
        [] e.k = "binary" ->
             Bool(CASE e.op = "AND" -> Holds(e.left) /\ Holds(e.right)
                    [] e.op = "OR" -> Holds(e.left) \/ Holds(e.right)
                    [] e.op = "EQ" -> Of(e.left) = Of(e.right)
                    [] e.op = "NE" -> Of(e.left) # Of(e.right)
                    [] e.op = "LT" -> Of(e.left) < Of(e.right)
                    [] e.op = "LE" -> Of(e.left) <= Of(e.right)
                    [] e.op = "GT" -> Of(e.left) > Of(e.right)
                    [] e.op = "GE" -> Of(e.left) >= Of(e.right))

Pushed(air, b, env) ==
  [decision |-> b.decision, result |-> Value(air, b.expr, env) = "true",
   conditions |-> [j \in DOMAIN b.conditions |->
                     Value(air, b.conditions[j].expr, env) = "true"]]

RECURSIVE Run(_, _, _), IfChain(_, _, _, _)

IfBlock(air, branches, else, run) ==
  IF Last(run.decisions).result THEN Run(air, branches[1].body, run)
  ELSE IfChain(air, Tail(branches), else, run)

(* Each further branch stands in the else block of the one before it.      *)
IfChain(air, branches, else, run) ==
  IF branches = <<>> THEN Run(air, else, run)
  ELSE IfBlock(air, branches, else,
         [run EXCEPT !.decisions = Append(@, Pushed(air, branches[1], run.env))])

MatchArm(air, s, value, run) ==
  LET arm == SelectSeq(s.arms, LAMBDA a : VariantName(a.value) = value)[1]
  IN  Run(air, arm.body, [run EXCEPT !.arms = Append(@, <<s.id, arm.value>>)])

Line(air, s, run) ==
  CASE s.kind = "assign" ->
         [run EXCEPT !.env[Place(air, s.target)] = Value(air, s.expr, run.env)]
    [] s.kind = "if" -> IfChain(air, s.branches, s.else, run)
    [] s.kind = "case" ->
         MatchArm(air, s, Value(air, s.selector, run.env), run)

Run(air, body, run) ==
  FoldLeft(LAMBDA r, s : Line(air, s, [r EXCEPT !.statements = Append(@, s.id)]),
           run, body)

(* The text printed for a place, parsed back by the tool.                  *)
Printed(air, env, name) ==
  LET value == env[Place(air, name)]
      type == Declaration(air, name).type
  IN  IF type \in NamesOf(air.types)
      THEN CHOOSE v \in EnumValues(air, type) : VariantName(v) = value
      ELSE value

DefaultOf(air, name) ==
  LET type == Declaration(air, name).type
  IN  CASE type = "BOOL" -> "false"
        [] type \in Numbers -> 0
        [] OTHER -> SelectSeq(air.types,
                              LAMBDA t : t.name = type)[1].values[1]

(* The structures of a cycle, by place.                                    *)
Structures(air, state, inputs) ==
  LET Of(name) == CASE name \in DOMAIN inputs -> inputs[name]
                    [] name \in DOMAIN state -> state[name]
                    [] OTHER -> DefaultOf(air, name)
      names == NamesOf(Declared(air))
  IN  [place \in {Place(air, n) : n \in names} |->
         LET name == CHOOSE n \in names : Place(air, n) = place
         IN  Encoded(air, name, Of(name))]

(* Defect: every assignment of the policy reads what the program left.     *)
PolicyEnvAtOnce(air, env, assignments) ==
  FoldLeft(LAMBDA e, a :
             [e EXCEPT ![Place(air, a.target)] =
                IF Copies(a) THEN env[Place(air, a.from)]
                ELSE Encoded(air, a.target, a.value)],
           env, assignments)

PolicyEnv(air, env, assignments) ==
  FoldLeft(LAMBDA e, a :
             [e EXCEPT ![Place(air, a.target)] =
                IF Copies(a) THEN e[Place(air, a.from)]
                ELSE Encoded(air, a.target, a.value)],
           env, assignments)

(* The policy acts on the structures that the stages left.                 *)
AfterPolicy(air, fault, env) ==
  IF fault THEN PolicyEnv(air, env, air.contract.retained \o air.contract.output)
  ELSE env

FlagsShown(air, env) ==
  LET shown == SelectSeq(air.contract.flags, LAMBDA f :
                 env[Place(air, f.state)] = Encoded(air, f.state, f.active))
  IN  [i \in DOMAIN shown |-> shown[i].state]

ResultOf(air, state, fault, start, run, env) ==
  [committed |-> [n \in DOMAIN state |-> Printed(air, env, n)],
   outputs |-> [n \in NamesOf(air.outputs) |-> Printed(air, env, n)],
   inhibited |-> fault /\ air.contract.inhibited,
   statements |-> run.statements, decisions |-> run.decisions,
   arms |-> run.arms,
   diagnostics |->
     (IF fault THEN <<"fault">> ELSE <<>>)
     \o (IF \E n \in DOMAIN state : env[Place(air, n)] # start[Place(air, n)]
         THEN <<"transition">> ELSE <<>>)
     \o FlagsShown(air, env)]

Finished(air, state, fault, start, run) ==
  ResultOf(air, state, fault, start, run, AfterPolicy(air, fault, run.env))

Stages(air, start) ==
  Run(air, air.output,
      Run(air, air.transition,
          [env |-> start, statements |-> <<>>, decisions |-> <<>>,
           arms |-> <<>>]))

Started(air, state, fault, start) ==
  Finished(air, state, fault, start, Stages(air, start))

Step(air, state, inputs, fault) ==
  Started(air, state, fault, Structures(air, state, inputs))

-----------------------------------------------------------------------------
(* The runner                                                              *)

(* The fault field of a cycle record sets the input of the same name, if   *)
(* the program has one: its arm comes first.                               *)
FaultField == "BlockingRuntimeFault"

Captured(air) == FaultField \in NamesOf(air.inputs)

InputsRead(air, c) ==
  [n \in DOMAIN c.inputs |->
     IF n = FaultField THEN IF c.fault THEN "true" ELSE "false"
     ELSE c.inputs[n]]

FaultRead(air, c) == c.fault /\ ~Captured(air)

(* A value outside its type ends the process.                              *)
Parsed(air, fields) ==
  \A n \in DOMAIN fields : fields[n] \in ValuesOf(air, Declaration(air, n).type)

Panics(air, scenarios) ==
  \E s \in ToSet(scenarios) :
    \/ ~Parsed(air, s.initial)
    \/ \E c \in ToSet(s.cycles) : ~Parsed(air, InputsRead(air, c))

ScenarioOutput(air, s) ==
  FoldLeft(
    LAMBDA done, c :
      Append(done,
        [scenario |-> s.id, cycle |-> Len(done)]
        @@ Step(air, IF done = <<>> THEN s.initial ELSE Last(done).committed,
                InputsRead(air, c), FaultRead(air, c))),
    <<>>, s.cycles)

(* The records of a run, as parse_backend_output returns them.             *)
BackendCycles(air, scenarios) ==
  FoldLeft(LAMBDA done, s : done \o ScenarioOutput(air, s), <<>>, scenarios)
=============================================================================
