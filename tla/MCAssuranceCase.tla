-------------------------- MODULE MCAssuranceCase --------------------------
(* Cases of AssuranceCase for TLC, beside the programs of the bounded      *)
(* search.                                                                 *)
EXTENDS AssuranceCase, MCBoundedSynthesis

(* The parser's result.                                                    *)
Bool(b) == [k |-> "bool", v |-> b]
Number(i) == [k |-> "int", v |-> i]
Name(n) == [k |-> "name", v |-> n]
Unary(op, e) == [k |-> "unary", op |-> op, arg |-> e]
Binary(l, op, r) == [k |-> "binary", op |-> op, left |-> l, right |-> r]
Not(e) == Unary("NOT", e)
Is(n, v) == Binary(Name(n), "EQ", Name(v))

Assign(target, e) ==
  [k |-> "assign", target |-> target, expr |-> e, requirements |-> {},
   tags |-> {}]

Branch(cond, mcdc, tags, requirements, body) ==
  [cond |-> cond, mcdc |-> mcdc, tags |-> tags, requirements |-> requirements,
   body |-> body]

IfElse(branches, else) ==
  [k |-> "if", branches |-> branches, else |-> else, requirements |-> {},
   tags |-> {}]

When(cond, body) == IfElse(<<Branch(cond, FALSE, {}, {}, body)>>, <<>>)

Arm(value, body) == [value |-> value, body |-> body, requirements |-> {}]

CaseOf(name, arms) ==
  [k |-> "case", sel |-> Name(name), arms |-> arms, requirements |-> {},
   tags |-> {}]

Variable(name, type) == [name |-> name, type |-> type]
Retained(name, type, init) == [name |-> name, type |-> type, init |-> init]
Type(name, values) == [name |-> name, values |-> values]

Switches(names) == [i \in DOMAIN names |-> Variable(names[i], "BOOL")]

EitherWay(names) ==
  [inputs |-> [i \in DOMAIN names |->
                 [name |-> names[i], type |-> "BOOL",
                  values |-> <<"false", "true">>]],
   maximum |-> 8]

Put(target, value) == [target |-> target, value |-> value]
Copy(target, state) == [target |-> target, from |-> state]

Contract(name, retained, output) ==
  [program |-> name, inhibited |-> TRUE, retained |-> retained,
   output |-> output, flags |-> <<>>, reset |-> <<>>, recovery |-> <<>>]

(* A case with one set of bounds, without requirements and mutations.      *)
Source(parsed, contract, domain) ==
  [program |-> parsed, contract |-> contract, domain |-> domain,
   roots |-> {}, profile |-> [mutations |-> <<>>, gate |-> FALSE],
   bounds |-> {[depth |-> 2, states |-> 4, transitions |-> 20]}]

-----------------------------------------------------------------------------
(* A latch with three modes, a decision selected for MC/DC, a policy, a    *)
(* reset path and a mutation profile.                                      *)
Latch ==
  [name |-> "Latch",
   types |-> <<Type("MODE_T", <<"IDLE", "RUN", "SAFE">>)>>,
   inputs |-> Switches(<<"GO", "FIT">>),
   outputs |-> <<Variable("ALARM", "BOOL")>>,
   states |-> <<Retained("MODE", "MODE_T", Name("IDLE"))>>,
   transition |->
     <<CaseOf("MODE", <<
         Arm("IDLE", <<
           IfElse(<<Branch(Binary(Name("GO"), "AND", Name("FIT")), TRUE,
                           {"start"}, {"R-1"},
                           <<Assign("MODE", Name("RUN"))>>)>>, <<>>)>>),
         Arm("RUN", <<
           IfElse(<<Branch(Not(Name("FIT")), FALSE, {}, {},
                           <<Assign("MODE", Name("SAFE"))>>),
                    Branch(Not(Name("GO")), FALSE, {}, {},
                           <<Assign("MODE", Name("IDLE"))>>)>>, <<>>)>>),
         Arm("SAFE", <<When(Name("FIT"), <<Assign("MODE", Name("IDLE"))>>)>>)>>)>>,
   output |->
     <<Assign("ALARM", Bool("false")),
       When(Is("MODE", "SAFE"), <<Assign("ALARM", Bool("true"))>>)>>]

LatchContract ==
  [Contract("Latch", <<Put("MODE", "SAFE")>>, <<Put("ALARM", "true")>>)
     EXCEPT !.flags = <<[state |-> "MODE", active |-> "SAFE"]>>,
            !.reset = <<[id |-> "RP", state |-> "MODE", from |-> {"SAFE"},
                         to |-> "IDLE", retained |-> <<>>,
                         requirements |-> {"R-2"}]>>]

LatchMutations ==
  <<[id |-> "M1", match |-> "exactly-one", kind |-> "replace-operator",
     selector |-> [tag |-> "start"], from |-> "AND", to |-> "OR"],
    [id |-> "M2", match |-> "exactly-one", kind |-> "retarget",
     selector |-> [tag |-> "start"], target |-> "MODE",
     from |-> "RUN", to |-> "SAFE"],
    [id |-> "M3", match |-> "at-least-one", kind |-> "set-assignment",
     selector |-> [stage |-> "output", k |-> "bool", v |-> "true"],
     value |-> "false"]>>

LatchCase ==
  [Source(Latch, LatchContract, EitherWay(<<"GO", "FIT">>))
     EXCEPT !.roots = {"R-1", "R-2"},
            !.profile = [mutations |-> LatchMutations, gate |-> TRUE],
            !.bounds = {[depth |-> 3, states |-> 4, transitions |-> 20],
                        [depth |-> 3, states |-> 1, transitions |-> 4]}]

Simple(name) == EitherWay(<<name>>)

(* A level that changes its sign; from the smallest value of I32 the       *)
(* negation leaves the type.                                               *)
Swing(name, init) ==
  [name |-> name, types |-> <<>>,
   inputs |-> Switches(<<"UP">>),
   outputs |-> <<Variable("LOW", "BOOL")>>,
   states |-> <<Retained("LEVEL", "I32", init)>>,
   transition |->
     <<When(Name("UP"), <<Assign("LEVEL", Unary("MINUS", Name("LEVEL")))>>)>>,
   output |->
     <<Assign("LOW", Bool("false")),
       When(Binary(Name("LEVEL"), "LT", Number(0)),
            <<Assign("LOW", Bool("true"))>>)>>]

SwingCase == Source(Swing("Swing", Number(1)),
                    Contract("Swing", <<Put("LEVEL", 0)>>, <<>>), Simple("UP"))

EdgeCase == Source(Swing("Edge", Unary("MINUS", Number(MaxI32 + 1))),
                   Contract("Edge", <<>>, <<>>), Simple("UP"))

BeyondCase == Source(Swing("Beyond", Number(MaxI32 + 1)),
                     Contract("Beyond", <<>>, <<>>), Simple("UP"))

(* An output of the second enumeration is read before it is assigned.      *)
Echo ==
  [name |-> "Echo",
   types |-> <<Type("COLOR", <<"RED", "BLUE">>), Type("SIZE", <<"BIG", "TINY">>)>>,
   inputs |-> Switches(<<"UP">>),
   outputs |-> <<Variable("SHOWN", "SIZE")>>,
   states |-> <<Retained("LAST", "SIZE", Name("TINY"))>>,
   transition |->
     <<When(Binary(Name("UP"), "AND", Is("SHOWN", "BIG")),
            <<Assign("LAST", Name("BIG"))>>)>>,
   output |-> <<Assign("SHOWN", Name("LAST"))>>]

EchoCase == Source(Echo, Contract("Echo", <<>>, <<>>), Simple("UP"))

(* Two BOOL states, of which the second follows the first.                 *)
Pair(name, first, firstInit, cond) ==
  [name |-> name, types |-> <<>>,
   inputs |-> Switches(<<"UP">>),
   outputs |-> <<Variable("LAMP", "BOOL")>>,
   states |-> <<Retained(first, "BOOL", firstInit),
                Retained("L_A_M_P", "BOOL", Bool("false"))>>,
   transition |-> <<Assign("L_A_M_P", Name(first)), When(cond, <<Assign(first, Name("UP"))>>)>>,
   output |-> <<Assign("LAMP", Name("L_A_M_P"))>>]

PlainCase == Source(Pair("Plain", "FLAG", Bool("false"), Not(Name("UP"))),
                    Contract("Plain", <<Copy("L_A_M_P", "FLAG"), Put("FLAG", "true")>>,
                             <<Copy("LAMP", "L_A_M_P")>>), Simple("UP"))

(* A policy whose assignments read what the ones before them left.         *)
RelayCase == Source(Pair("Relay", "FLAG", Bool("false"), Name("UP")),
                    Contract("Relay", <<Put("FLAG", "true"), Copy("L_A_M_P", "FLAG")>>,
                             <<Copy("LAMP", "L_A_M_P")>>), Simple("UP"))

(* The two states have one field name.                                     *)
TwinsCase == Source(Pair("Twins", "LAMP2", Bool("false"), Name("UP")),
                    Contract("Twins", <<>>, <<>>), Simple("UP"))

(* Compared comparisons are accepted, but no Rust.                         *)
ChainedCase ==
  Source(Pair("Chained", "FLAG", Bool("false"),
              Binary(Binary(Name("UP"), "EQ", Name("FLAG")), "EQ", Bool("true"))),
         Contract("Chained", <<>>, <<>>), Simple("UP"))

(* A state initialized with the name of an input.                          *)
BorrowedCase == Source(Pair("Borrowed", "FLAG", Name("UP"), Name("UP")),
                       Contract("Borrowed", <<>>, <<>>), Simple("UP"))

(* An undeclared name, which the front end refuses.                        *)
UnknownCase == Source(Pair("Unknown", "FLAG", Bool("false"), Name("DOWN")),
                      Contract("Unknown", <<>>, <<>>), Simple("UP"))

(* An input with the name of the protocol's fault field.                   *)
Reserved ==
  [Latch EXCEPT !.name = "Reserved", !.types = <<>>,
                !.inputs = Switches(<<"BlockingRuntimeFault">>),
                !.states = <<Retained("HELD", "BOOL", Bool("false"))>>,
                !.transition = <<Assign("HELD", Name("BlockingRuntimeFault"))>>,
                !.output = <<Assign("ALARM", Name("HELD"))>>]

ReservedCase == Source(Reserved, Contract("Reserved", <<>>, <<>>),
                       Simple("BlockingRuntimeFault"))

(* A state initialized with the name of another state of its type: no arm  *)
(* is found.                                                               *)
StrayedCase ==
  Source([Latch EXCEPT !.name = "Strayed",
                       !.states = <<Retained("MODE", "MODE_T", Name("OLD")),
                                    Retained("OLD", "MODE_T", Name("IDLE"))>>],
         Contract("Strayed", <<>>, <<>>), EitherWay(<<"GO", "FIT">>))

(* A mutant that assigns a name nobody declared.                           *)
AdriftCase ==
  [LatchCase EXCEPT
     !.program.name = "Adrift", !.contract.program = "Adrift",
     !.profile = [mutations |-> <<[LatchMutations[2] EXCEPT !.to = "GONE"]>>,
                  gate |-> FALSE],
     !.bounds = {[depth |-> 2, states |-> 4, transitions |-> 20]}]

(* A supervisor for the eight built-in mutations.                          *)
Grid ==
  [name |-> "Grid",
   types |-> <<Type("GRID_T", <<"NORMAL", "CRITICAL">>)>>,
   inputs |-> Switches(<<"Loss", "ResetAuthorized">>),
   outputs |-> Switches(<<"ShedNonessentialLoads", "ImmediateLandingRequest",
                          "IsolateBatteryA", "IsolateBatteryB">>),
   states |-> <<Retained("State", "GRID_T", Name("NORMAL"))>>,
   transition |->
     <<CaseOf("State", <<
         Arm("NORMAL", <<
           IfElse(<<Branch(Binary(Name("Loss"), "AND", Not(Name("ResetAuthorized"))),
                           FALSE,
                           {"dual-source-operator", "critical-condition",
                            "critical-target"}, {},
                           <<Assign("State", Name("CRITICAL"))>>)>>, <<>>)>>),
         Arm("CRITICAL", <<
           IfElse(<<Branch(Binary(Name("ResetAuthorized"), "AND", Not(Name("Loss"))),
                           FALSE, {"weaken-recovery"}, {},
                           <<Assign("State", Name("NORMAL"))>>)>>, <<>>)>>)>>)>>,
   output |->
     <<Assign("ShedNonessentialLoads", Is("State", "CRITICAL")),
       Assign("ImmediateLandingRequest", Bool("false")),
       Assign("IsolateBatteryA", Name("Loss")),
       Assign("IsolateBatteryB", Name("ResetAuthorized")),
       IfElse(<<Branch(Is("State", "CRITICAL"), FALSE, {"invalid-output-guard"},
                       {}, <<Assign("ImmediateLandingRequest", Bool("true"))>>)>>,
              <<>>)>>]

GridCase ==
  [program |-> Grid,
   contract |-> Contract("Grid", <<Put("State", "CRITICAL")>>,
                         <<Put("ImmediateLandingRequest", "true")>>),
   domain |-> EitherWay(<<"Loss", "ResetAuthorized">>),
   roots |-> {}, profile |-> [x \in {} |-> x],
   bounds |-> {[depth |-> 3, states |-> 4, transitions |-> 40]}]

(* A CASE without an arm for SAFE, which the front end refuses.            *)
PartialCase ==
  Source([Latch EXCEPT !.name = "Partial", !.transition[1].arms = SubSeq(@, 1, 2)],
         [LatchContract EXCEPT !.program = "Partial"], EitherWay(<<"GO", "FIT">>))

(* Domains that the validator refuses: an enumeration, a swapped order.    *)
ChosenCase ==
  Source([Echo EXCEPT !.name = "Chosen", !.inputs = <<Variable("UP", "BOOL"), Variable("HUE", "COLOR")>>],
         Contract("Chosen", <<>>, <<>>),
         [Simple("UP") EXCEPT !.inputs = Append(@, [name |-> "HUE", type |-> "COLOR",
                                                    values |-> <<"RED">>])])

SwappedCase ==
  [SwingCase EXCEPT !.program.name = "Swapped", !.contract.program = "Swapped",
                    !.domain.inputs[1].values = <<"true", "false">>]

Cases ==
  [latch |-> LatchCase, swing |-> SwingCase, edge |-> EdgeCase,
   beyond |-> BeyondCase, echo |-> EchoCase, plain |-> PlainCase,
   relay |-> RelayCase, twins |-> TwinsCase, chained |-> ChainedCase, borrowed |-> BorrowedCase,
   unknown |-> UnknownCase, reserved |-> ReservedCase, partial |-> PartialCase,
   chosen |-> ChosenCase, swapped |-> SwappedCase, strayed |-> StrayedCase,
   adrift |-> AdriftCase, grid |-> GridCase]

Fields(name) == IF name \in {"LAMP", "LAMP2", "L_A_M_P"} THEN "l_a_m_p" ELSE name
Variants(name) == name

SmallPrograms == CompiledPrograms
EveryProgram == AllPrograms \cup CompiledPrograms
=============================================================================
