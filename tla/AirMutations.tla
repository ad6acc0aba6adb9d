----------------------------- MODULE AirMutations -----------------------------
(***************************************************************************)
(* Mutations of AIR: those of an application profile                       *)
(* (src/tools/application_mutations.py), the eight that are built in, and  *)
(* the mutation report (src/tools/aerost_tool.py).  A selector is a record *)
(* of the fields it restricts; a mutation is a record with its kind, its   *)
(* selector and its parameters.  The conditions of a decision stay as they *)
(* are, whatever becomes of its expression.                                *)
(***************************************************************************)
EXTENDS AscpFrontEnd

-----------------------------------------------------------------------------
(* Contexts and selectors                                                  *)

RECURSIVE ContextsOf(_, _, _)

(* Assignments and decisions in order, each with its stage and the CASE    *)
(* value it is under.                                                      *)
ContextsOf(body, stage, arm) ==
  LET Here(kind, id, n, target) ==
        <<[kind |-> kind, id |-> id, stage |-> stage, arm |-> arm,
           tags |-> n.tags, target |-> target, expr |-> n.expr]>>
      Branch(b) == Here("decision", b.decision, b, "")
                   \o ContextsOf(b.body, stage, arm)
      Below(s) ==
        CASE s.kind = "assign" -> Here("assign", s.id, s, s.target)
          [] s.kind = "if" ->
               FoldLeft(LAMBDA found, b : found \o Branch(b), <<>>, s.branches)
               \o ContextsOf(s.else, stage, arm)
          [] s.kind = "case" ->
               FoldLeft(LAMBDA found, a :
                          found \o ContextsOf(a.body, stage, a.value),
                        <<>>, s.arms)
  IN  FoldLeft(LAMBDA found, s : found \o Below(s), <<>>, body)

(* iter_contexts                                                           *)
Contexts(air) ==
  ContextsOf(air.transition, "transition", "")
  \o ContextsOf(air.output, "output", "")

ExpressionMatches(e, sel) ==
  /\ "k" \in DOMAIN sel => e.k = sel.k
  /\ "computed" \in DOMAIN sel => e.k # "bool"
  /\ "op" \in DOMAIN sel => "op" \in DOMAIN e /\ e.op = sel.op
  /\ "v" \in DOMAIN sel => "v" \in DOMAIN e /\ e.v = sel.v

ContextMatches(c, sel) ==
  /\ "stage" \in DOMAIN sel => c.stage = sel.stage
  /\ "arm" \in DOMAIN sel => c.arm = sel.arm
  /\ "tag" \in DOMAIN sel => sel.tag \in c.tags
  /\ "target" \in DOMAIN sel => c.target = sel.target
  /\ "id" \in DOMAIN sel => c.id = sel.id
  /\ ExpressionMatches(c.expr, sel)

Selected(air, kind, sel) ==
  SelectSeq(Contexts(air),
            LAMBDA c : c.kind = kind /\ ContextMatches(c, sel))

Identities(contexts) == {contexts[i].id : i \in DOMAIN contexts}

(* "exactly-one" is the default expectation.                               *)
CountOK(m, found) ==
  IF m.match = "exactly-one" THEN Len(found) = 1 ELSE found # <<>>

-----------------------------------------------------------------------------
(* The mutated program                                                     *)

Literal(value) == [k |-> "bool", v |-> value]
Negation(e) == [k |-> "unary", op |-> "NOT", arg |-> e]

(* A decision's expression under a mutation that selects it.               *)
NewDecision(m, e) ==
  CASE m.kind = "replace-operator" -> [e EXCEPT !.op = m.to]
    [] m.kind = "replace-decision" -> m.with
    [] m.kind = "negate-decision" -> Negation(e)
    [] OTHER -> e

RECURSIVE Retargeted(_, _)
RetargetedBody(body, m) == [i \in DOMAIN body |-> Retargeted(body[i], m)]

IsRetargeted(s, m) ==
  s.target = m.target /\ s.expr.k = "name" /\ s.expr.v = m.from

(* _change_state_target: every assignment below.                           *)
Retargeted(s, m) ==
  CASE s.kind = "assign" ->
         IF IsRetargeted(s, m) THEN [s EXCEPT !.expr.v = m.to] ELSE s
    [] s.kind = "if" ->
         [s EXCEPT
            !.branches = [j \in DOMAIN s.branches |->
                            [s.branches[j] EXCEPT !.body = RetargetedBody(@, m)]],
            !.else = RetargetedBody(s.else, m)]
    [] s.kind = "case" ->
         [s EXCEPT
            !.arms = [j \in DOMAIN s.arms |->
                        [s.arms[j] EXCEPT !.body = RetargetedBody(@, m)]]]

(* The assignments that stand in the body itself.                          *)
RetargetedChildren(body, m) ==
  [i \in DOMAIN body |-> IF body[i].kind = "assign" THEN Retargeted(body[i], m)
                         ELSE body[i]]

(* new maps the identities of selected assignments to their expressions,   *)
(* picked are the selected decisions.                                      *)
RECURSIVE Rewritten(_, _, _, _)
Rewritten(body, m, picked, new) ==
  [i \in DOMAIN body |->
    LET s == body[i]
        Branch(b) ==
          LET below == Rewritten(b.body, m, picked, new)
          IN  IF b.decision \notin picked THEN [b EXCEPT !.body = below]
              ELSE [b EXCEPT
                      !.expr = NewDecision(m, @),
                      !.body = CASE m.kind = "retarget" ->
                                      RetargetedBody(below, m)
                                 [] m.kind = "retarget-children" ->
                                      RetargetedChildren(below, m)
                                 [] OTHER -> below]
    IN  CASE s.kind = "assign" ->
               IF s.id \in DOMAIN new THEN [s EXCEPT !.expr = new[s.id]] ELSE s
          [] s.kind = "if" ->
               [s EXCEPT
                  !.branches = [j \in DOMAIN s.branches |-> Branch(s.branches[j])],
                  !.else = Rewritten(s.else, m, picked, new)]
          [] s.kind = "case" ->
               [s EXCEPT
                  !.arms = [j \in DOMAIN s.arms |->
                              [s.arms[j] EXCEPT
                                 !.body = Rewritten(@, m, picked, new)]]]]

WithNew(air, m, picked, new) ==
  [air EXCEPT !.transition = Rewritten(@, m, picked, new),
              !.output = Rewritten(@, m, picked, new)]

NoneNew == [id \in {} |-> Literal("false")]

(* The two assignments that exchange their expressions.                    *)
Left(air, m) == Selected(air, "assign", m.left)
Right(air, m) == Selected(air, "assign", m.right)

(* apply_mutation: the mutation fits the program it is declared for.       *)
Applies(air, m) ==
  CASE m.kind = "set-assignment" ->
         CountOK(m, Selected(air, "assign", m.selector))
    [] m.kind = "swap-assignments" ->
         CountOK(m, Left(air, m)) /\ CountOK(m, Right(air, m))
    [] m.kind = "replace-operator" ->
         LET found == Selected(air, "decision", m.selector)
         IN  /\ CountOK(m, found)
             /\ \A i \in DOMAIN found : found[i].expr.k = "binary"
                                       /\ found[i].expr.op = m.from
    [] m.kind \in {"retarget", "retarget-children"} ->
         LET found == Selected(air, "decision", m.selector)
         IN  /\ CountOK(m, found)
             /\ WithNew(air, m, Identities(found), NoneNew) # air
    [] OTHER -> CountOK(m, Selected(air, "decision", m.selector))

Mutated(air, m) ==
  CASE m.kind = "set-assignment" ->
         WithNew(air, m, {},
                 [id \in Identities(Selected(air, "assign", m.selector)) |->
                    Literal(m.value)])
    [] m.kind = "swap-assignments" ->
         LET one == Left(air, m)[1]
             other == Right(air, m)[1]
         IN  WithNew(air, m, {},
                     [id \in {one.id, other.id} |->
                        IF id = one.id THEN other.expr ELSE one.expr])
    [] OTHER ->
         WithNew(air, m, Identities(Selected(air, "decision", m.selector)),
                 NoneNew)

-----------------------------------------------------------------------------
(* The built-in mutations                                                  *)

MutationTags ==
  <<"dual-source-operator", "critical-condition", "critical-target",
    "critical-output-delete", "payload-default", "invalid-output-guard",
    "weaken-recovery", "swap-isolation">>

(* mutate_air, each tag as the mutation it amounts to: every place it fits *)
(* is changed, and one must fit; of the assignments to exchange, the first *)
(* that are not a literal.                                                 *)
BuiltIn(tag) ==
  (CASE tag = "dual-source-operator" ->
          [kind |-> "replace-operator", from |-> "AND", to |-> "OR",
           selector |-> [tag |-> tag, k |-> "binary", op |-> "AND"]]
     [] tag = "critical-condition" -> [kind |-> "negate-decision"]
     [] tag = "weaken-recovery" ->
          [kind |-> "replace-decision",
           with |-> [k |-> "name", v |-> "ResetAuthorized"]]
     [] tag = "invalid-output-guard" ->
          [kind |-> "replace-decision", with |-> Literal("false")]
     [] tag = "critical-target" ->
          [kind |-> "retarget-children", target |-> "State",
           from |-> "CRITICAL", to |-> "NORMAL"]
     [] tag = "payload-default" ->
          [kind |-> "set-assignment", value |-> "false",
           selector |-> [target |-> "ShedNonessentialLoads"]]
     [] tag = "critical-output-delete" ->
          [kind |-> "set-assignment", value |-> "false",
           selector |-> [target |-> "ImmediateLandingRequest", k |-> "bool",
                         v |-> "true"]]
     [] tag = "swap-isolation" ->
          [kind |-> "swap-assignments",
           left |-> [target |-> "IsolateBatteryA", computed |-> TRUE],
           right |-> [target |-> "IsolateBatteryB", computed |-> TRUE]])
  @@ [id |-> tag, match |-> "at-least-one", selector |-> [tag |-> tag]]
=============================================================================
