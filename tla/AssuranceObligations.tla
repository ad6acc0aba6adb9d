------------------------- MODULE AssuranceObligations -------------------------
(***************************************************************************)
(* The assurance obligations of an AIR program (extract_obligations of     *)
(* src/tools/assurance_obligations.py), and those that a cycle hits        *)
(* (src/tools/assurance_test_synthesizer.py).  An obligation record has    *)
(* the requirements of the node; its identity is its kind and subjects.    *)
(***************************************************************************)
EXTENDS StructuralCoverage, FaultPolicy

-----------------------------------------------------------------------------
(* Extraction                                                              *)

Obligation(id, requirements) == [id |-> id, requirements |-> requirements]

StatementObligations(nodes) ==
  {Obligation(<<"statement", s.id>>, s.requirements) : s \in ToSet(nodes.statements)}

DecisionObligations(nodes) ==
  UNION {{Obligation(<<"decision", d.decision, v>>, d.requirements) : v \in BOOLEAN}
         \cup {Obligation(<<"condition", c.id, v>>, d.requirements) :
                 c \in ToSet(d.conditions), v \in BOOLEAN} :
           d \in ToSet(nodes.decisions)}

McdcObligations(nodes) ==
  UNION {{<<"mcdc", d.decision, j>> : j \in DOMAIN d.conditions} :
           d \in {d \in ToSet(nodes.decisions) : d.mcdc}}

ArmObligations(nodes) ==
  UNION {{Obligation(<<"arm", s.id, a.value>>, a.requirements) : a \in ToSet(s.arms)} :
           s \in {s \in ToSet(nodes.statements) : s.kind = "case"}}

PolicyObligations(contract) ==
  {Obligation(<<"fault">>, {})}
  \cup (IF contract.inhibited THEN {Obligation(<<"commit">>, {})} ELSE {})
  \cup (IF contract.output # <<>> THEN {Obligation(<<"conservative">>, {})}
        ELSE {})

PathObligations(contract) ==
  {Obligation(<<"reset", p.id>>, p.requirements) : p \in ToSet(contract.reset)}
  \cup {Obligation(<<"recovery", p.id>>, p.requirements) :
          p \in ToSet(contract.recovery)}

(* The obligations that single cycles hit; roots are the application       *)
(* requirements of the traceability document.                              *)
DirectObligations(nodes, contract, roots) ==
  StatementObligations(nodes) \cup DecisionObligations(nodes)
  \cup ArmObligations(nodes) \cup PolicyObligations(contract)
  \cup PathObligations(contract)
  \cup {Obligation(<<"requirement", r>>, {r}) : r \in roots}

Ids(records) == {r.id : r \in records}

-----------------------------------------------------------------------------
(* What a cycle hits                                                       *)

(* Each value is compared with the final state, whatever it was when the   *)
(* policy copied it.                                                       *)
Matches(fields, committed, a) ==
  fields[a.target] = IF Copies(a) THEN committed[a.from] ELSE a.value
ConservativeOutputMatches(policy, c) ==
  /\ \A a \in ToSet(policy.output) : Matches(c.outputs, c.committed, a)
  /\ \A a \in ToSet(policy.retained) : Matches(c.committed, c.committed, a)

(* An assignment that copies has no value to be compared with.             *)
PathExecuted(path, c) ==
  /\ c.resident[path.state] \in path.from
  /\ c.committed[path.state] = path.to
  /\ \A a \in ToSet(path.retained) :
       ~Copies(a) /\ c.committed[a.target] = a.value

DecisionEvents(c) ==
  UNION {{<<"decision", e.decision, e.result>>}
         \cup {<<"condition", Append(e.decision, j), e.conditions[j]>> :
                 j \in DOMAIN e.conditions} : e \in ToSet(c.decisions)}

FaultEvents(contract, c, fault) ==
  (IF fault /\ "fault" \in ToSet(c.diagnostics) THEN {<<"fault">>} ELSE {})
  \cup (IF fault /\ ConservativeOutputMatches(contract, c)
        THEN {<<"conservative">>} ELSE {})

CycleEvents(contract, c, fault) ==
  {<<"statement", id>> : id \in ToSet(c.statements)}
  \cup DecisionEvents(c)
  \cup {<<"arm", a[1], a[2]>> : a \in ToSet(c.arms)}
  \cup (IF c.inhibited THEN {<<"commit">>} ELSE {})
  \cup FaultEvents(contract, c, fault)
  \cup {<<"reset", p.id>> :
          p \in {p \in ToSet(contract.reset) : PathExecuted(p, c)}}
  \cup {<<"recovery", p.id>> :
          p \in {p \in ToSet(contract.recovery) : PathExecuted(p, c)}}

(* cycle_obligation_hits, with the requirements of what was hit.           *)
CycleHits(contract, direct, c, fault) ==
  LET hit == {r \in direct : r.id \in CycleEvents(contract, c, fault)}
      exercised == UNION {r.requirements : r \in hit}
  IN  Ids(hit) \cup {r.id : r \in {r \in direct :
                       r.id[1] = "requirement" /\ r.id[2] \in exercised}}

(* DecisionObservation                                                     *)
Observations(c) ==
  {<<"observed", e.decision, e.result, e.conditions>> : e \in ToSet(c.decisions)}

(* Defect: the other conditions are not compared.                          *)
IsLoosePair(one, other, j) ==
  /\ one[2] = other[2] /\ one[3] # other[3]
  /\ one[4][j] # other[4][j]

IsMcdcPair(one, other, j) ==
  /\ one[2] = other[2] /\ one[3] # other[3]
  /\ one[4][j] # other[4][j]
  /\ \A k \in DOMAIN one[4] \ {j} : one[4][k] = other[4][k]

(* The pairs of observations that demonstrate an MC/DC obligation.         *)
PairsAmong(obligation, observations) ==
  LET own == {o \in observations : o[2] = obligation[2]}
  IN  {pair \in {{one, other} : one \in own, other \in own} :
         \E one, other \in pair : IsMcdcPair(one, other, obligation[3])}
=============================================================================
