---------------------------- MODULE AscpFrontEnd ----------------------------
(***************************************************************************)
(* From a parsed ASCP program to AIR (src/tools/aerost_tool.py): the       *)
(* semantic analysis, the validation of the execution contract, and the    *)
(* lowering that gives every statement, decision and condition an          *)
(* identity of its own.  The parser's result is data:                      *)
(*   expression  [k |-> "bool", v], [k |-> "int", v], [k |-> "name", v],   *)
(*               [k |-> "unary", op, arg], [k |-> "binary", op, left,      *)
(*               right]                                                    *)
(*   statement   [k |-> "assign", target, expr],                           *)
(*               [k |-> "if", branches, else], [k |-> "case", sel, arms]   *)
(*   declaration [name, type, init]; type [name, values]                   *)
(* The values of BOOL are the strings "true" and "false".                  *)
(***************************************************************************)
EXTENDS FaultPolicy, FiniteSets, SequencesExt

CONSTANTS
  MaxU16,  \* the largest value of U16
  MaxI32   \* the largest value of I32, -MaxI32 - 1 being the smallest

ASSUME WidthsAssumption == MaxU16 \in Nat \ {0} /\ MaxI32 \in Nat \ {0}

NamesOf(records) == {r.name : r \in ToSet(records)}

Distinct(records) == Cardinality(NamesOf(records)) = Len(records)

-----------------------------------------------------------------------------
(* Symbols                                                                 *)

Declared(p) == p.inputs \o p.outputs \o p.states

Declaration(p, name) == SelectSeq(Declared(p), LAMBDA d : d.name = name)[1]

EnumValues(p, type) ==
  UNION {ToSet(t.values) : t \in {t \in ToSet(p.types) : t.name = type}}

Literals(p) == UNION {ToSet(t.values) : t \in ToSet(p.types)}

Numbers == {"U16", "I32"}
Integral == Numbers \cup {"INT_LITERAL"}

Interval(type) ==
  IF type = "U16" THEN 0..MaxU16 ELSE (-MaxI32 - 1)..MaxI32

(* The values of a declared type.                                          *)
ValuesOf(p, type) ==
  CASE type = "BOOL" -> {"true", "false"}
    [] type \in Numbers -> Interval(type)
    [] OTHER -> EnumValues(p, type)

DeclarationsOK(p) ==
  /\ Distinct(p.types)
  /\ \A t \in ToSet(p.types) : Cardinality(ToSet(t.values)) = Len(t.values)
  /\ \A t, u \in ToSet(p.types) :
       t # u => ToSet(t.values) \cap ToSet(u.values) = {}
  /\ Distinct(Declared(p))
  /\ NamesOf(Declared(p)) \cap Literals(p) = {}
  /\ \A d \in ToSet(Declared(p)) :
       d.type \in {"BOOL"} \cup Numbers \cup NamesOf(p.types)

-----------------------------------------------------------------------------
(* Types of expressions: infer                                             *)

NameType(p, name) ==
  IF name \in NamesOf(Declared(p)) THEN Declaration(p, name).type
  ELSE IF name \in Literals(p)
    THEN (CHOOSE t \in ToSet(p.types) : name \in ToSet(t.values)).name
    ELSE "ERROR"

RECURSIVE TypeOf(_, _)
TypeOf(p, e) ==
  CASE e.k = "bool" -> "BOOL"
    [] e.k = "int" -> "INT_LITERAL"
    [] e.k = "name" -> NameType(p, e.v)
    [] e.k = "unary" -> IF e.op = "NOT" THEN "BOOL" ELSE TypeOf(p, e.arg)
    [] e.k = "binary" -> "BOOL"

OperandsOK(op, l, r) ==
  CASE op \in {"AND", "OR"} -> l = "BOOL" /\ r = "BOOL"
    [] op \in {"EQ", "NE"} -> l = r \/ {l, r} \subseteq Integral
    [] OTHER -> {l, r} \subseteq Integral

RECURSIVE ExpressionOK(_, _)
ExpressionOK(p, e) ==
  CASE e.k \in {"bool", "int"} -> TRUE
    [] e.k = "name" -> NameType(p, e.v) # "ERROR"
    [] e.k = "unary" ->
         /\ ExpressionOK(p, e.arg)
         /\ TypeOf(p, e.arg) \in IF e.op = "NOT" THEN {"BOOL"} ELSE Integral
    [] e.k = "binary" ->
         /\ ExpressionOK(p, e.left) /\ ExpressionOK(p, e.right)
         /\ OperandsOK(e.op, TypeOf(p, e.left), TypeOf(p, e.right))

-----------------------------------------------------------------------------
(* Statements: check_assignment and check_statements                       *)

WritableIn(p, stage) == NamesOf(IF stage = "transition" THEN p.states ELSE p.outputs)

(* A signed literal ends the analysis with an exception: its operator is   *)
(* converted to an integer.                                                *)
LiteralFits(e, type) == e.k = "int" /\ e.v \in Interval(type)

AssignmentOK(p, s, stage) ==
  /\ s.target \in WritableIn(p, stage)
  /\ ExpressionOK(p, s.expr)
  /\ LET source == TypeOf(p, s.expr)
         type == Declaration(p, s.target).type
     IN  IF source = "INT_LITERAL" /\ type \in Numbers
         THEN LiteralFits(s.expr, type)
         ELSE source = type

(* Defect: a CASE accepted without an arm for each value.                  *)
ArmsDistinct(p, s) ==
  LET type == TypeOf(p, s.sel)
      values == [i \in DOMAIN s.arms |-> s.arms[i].value]
  IN  /\ ExpressionOK(p, s.sel)
      /\ type \in NamesOf(p.types)
      /\ Cardinality(ToSet(values)) = Len(values)
      /\ ToSet(values) \subseteq EnumValues(p, type)

ArmsOK(p, s) ==
  LET type == TypeOf(p, s.sel)
      values == [i \in DOMAIN s.arms |-> s.arms[i].value]
  IN  /\ ExpressionOK(p, s.sel)
      /\ type \in NamesOf(p.types)
      /\ Cardinality(ToSet(values)) = Len(values)
      /\ ToSet(values) = EnumValues(p, type)

RECURSIVE StatementOK(_, _, _)
StatementOK(p, s, stage) ==
  LET BodyOK(body) == \A c \in ToSet(body) : StatementOK(p, c, stage)
  IN  CASE s.k = "assign" -> AssignmentOK(p, s, stage)
        [] s.k = "if" ->
             /\ \A b \in ToSet(s.branches) :
                  /\ ExpressionOK(p, b.cond)
                  /\ TypeOf(p, b.cond) = "BOOL"
                  /\ BodyOK(b.body)
             /\ BodyOK(s.else)
        [] s.k = "case" ->
             ArmsOK(p, s) /\ \A a \in ToSet(s.arms) : BodyOK(a.body)

(* The value that lowering records: a name stands for itself.              *)
InitialValue(e) == IF e.k = "unary" THEN -e.arg.v ELSE e.v

IsLiteral(e) ==
  \/ e.k \in {"bool", "int", "name"}
  \/ e.k = "unary" /\ e.op = "MINUS" /\ e.arg.k = "int"

InitializerOK(p, d) ==
  /\ ExpressionOK(p, d.init)
  /\ \/ TypeOf(p, d.init) = d.type
     \/ TypeOf(p, d.init) = "INT_LITERAL" /\ d.type \in Numbers
  /\ IsLiteral(d.init)

(* The assignments before the first control statement of the output stage. *)
Defaulted(p) ==
  {p.output[i].target : i \in
     {i \in DOMAIN p.output : \A j \in 1..i : p.output[j].k = "assign"}}

SemanticsOK(p) ==
  /\ DeclarationsOK(p)
  /\ \A d \in ToSet(p.states) : InitializerOK(p, d)
  /\ \A s \in ToSet(p.transition) : StatementOK(p, s, "transition")
  /\ \A s \in ToSet(p.output) : StatementOK(p, s, "output")
  /\ NamesOf(p.outputs) \subseteq Defaulted(p)

-----------------------------------------------------------------------------
(* The execution contract.                                                 *)

PolicyAssignmentOK(p, a, targets) ==
  /\ a.target \in NamesOf(targets)
  /\ LET type == Declaration(p, a.target).type
     IN  IF Copies(a)
         THEN /\ a.from \in NamesOf(p.states)
              /\ Declaration(p, a.from).type = type
         ELSE a.value \in ValuesOf(p, type)

PathOK(p, path) ==
  /\ path.state \in NamesOf(p.states)
  /\ LET values == ValuesOf(p, Declaration(p, path.state).type)
     IN  path.from # {} /\ path.from \subseteq values /\ path.to \in values
  /\ \A a \in ToSet(path.retained) : PolicyAssignmentOK(p, a, p.states)

ContractOK(p, c) ==
  /\ c.program = p.name
  /\ \A a \in ToSet(c.retained) : PolicyAssignmentOK(p, a, p.states)
  /\ \A a \in ToSet(c.output) : PolicyAssignmentOK(p, a, p.outputs)
  /\ TargetsDistinct(c.retained) /\ TargetsDistinct(c.output)
  /\ \A f \in ToSet(c.flags) :
       /\ f.state \in NamesOf(p.states)
       /\ f.active \in ValuesOf(p, Declaration(p, f.state).type)
  /\ \A path \in ToSet(c.reset) \cup ToSet(c.recovery) : PathOK(p, path)
  /\ \A i, j \in DOMAIN c.reset : c.reset[i].id = c.reset[j].id => i = j
  /\ \A i, j \in DOMAIN c.recovery :
       c.recovery[i].id = c.recovery[j].id => i = j

Accepts(p, c) == SemanticsOK(p) /\ ContractOK(p, c)

-----------------------------------------------------------------------------
(* Lowering.  The digests that identify a node never coincide (occurrences *)
(* are counted): an identity is the position of the node.                  *)

RECURSIVE Atoms(_)
Atoms(e) ==
  IF e.k = "binary" /\ e.op \in {"AND", "OR"}
  THEN Atoms(e.left) \o Atoms(e.right)
  ELSE <<e>>

(* Requirements are inherited, the selection for MC/DC and the mutation    *)
(* tags are not.                                                           *)
Inherited(requirements, parent) ==
  IF requirements = {} THEN parent ELSE requirements

RECURSIVE Lower(_, _, _, _)
Lower(body, stage, at, inherited) ==
  [n \in DOMAIN body |->
    LET s == body[n]
        id == Append(at, n)
        requirements == Inherited(s.requirements, inherited)
        node == [kind |-> s.k, id |-> id, stage |-> stage, tags |-> s.tags,
                 requirements |-> requirements]
    IN  CASE s.k = "assign" ->
               node @@ [target |-> s.target, expr |-> s.expr]
          [] s.k = "if" ->
               node @@
               [branches |->
                  [i \in DOMAIN s.branches |->
                    LET b == s.branches[i]
                        own == Inherited(b.requirements, requirements)
                    IN  [decision |-> Append(id, i), expr |-> b.cond,
                         mcdc |-> b.mcdc, tags |-> b.tags,
                         requirements |-> own,
                         conditions |->
                           [j \in DOMAIN Atoms(b.cond) |->
                              [id |-> id \o <<i, j>>, expr |-> Atoms(b.cond)[j]]],
                         body |-> Lower(b.body, stage, id \o <<i, 0>>, own)]],
                else |-> Lower(s.else, stage, Append(id, 0), requirements)]
          [] s.k = "case" ->
               node @@
               [selector |-> s.sel,
                arms |->
                  [i \in DOMAIN s.arms |->
                    LET a == s.arms[i]
                        own == Inherited(a.requirements, requirements)
                    IN  [value |-> a.value, requirements |-> own,
                         body |-> Lower(a.body, stage, id \o <<i, 0>>, own)]]]]

LoweredStates(p) ==
  [i \in DOMAIN p.states |->
     [name |-> p.states[i].name, type |-> p.states[i].type,
      init |-> InitialValue(p.states[i].init)]]

LowerToAir(p, c) ==
  [name |-> p.name, types |-> p.types, inputs |-> p.inputs,
   outputs |-> p.outputs, states |-> LoweredStates(p),
   transition |-> Lower(p.transition, "transition", <<1>>, {}),
   output |-> Lower(p.output, "output", <<2>>, {}),
   contract |-> c]
=============================================================================
