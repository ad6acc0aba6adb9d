-------------------------- MODULE StructuralCoverage --------------------------
(***************************************************************************)
(* The structural coverage and MC/DC reports of the tool                   *)
(* (src/tools/aerost_tool.py) over the nodes of lowered AIR and the cycles *)
(* of the reference interpreter.  A decision has its evaluations wherever  *)
(* in the cycles they are: the reports ask which there are, not in which   *)
(* order.                                                                  *)
(***************************************************************************)
EXTENDS Integers, Sequences, FiniteSets, SequencesExt

(* The decision events of the cycles.                                      *)
Evaluations(cycles, decision) ==
  {e \in UNION {ToSet(cycles[i].decisions) : i \in DOMAIN cycles} :
     e.decision = decision}

ReachedStatements(cycles) ==
  UNION {ToSet(cycles[i].statements) : i \in DOMAIN cycles}

Outcomes(events) == {e.result : e \in events}

ValuesOfCondition(events, j) == {e.conditions[j] : e \in events}

UncoveredStatements(nodes, cycles) ==
  {<<"statement", s.id>> :
     s \in {s \in ToSet(nodes.statements) : s.id \notin ReachedStatements(cycles)}}

UncoveredDecisions(nodes, cycles) ==
  {<<"decision", d.decision>> :
     d \in {d \in ToSet(nodes.decisions) :
              Outcomes(Evaluations(cycles, d.decision)) # BOOLEAN}}

UncoveredConditions(nodes, cycles) ==
  UNION {{<<"condition", d.conditions[j].id>> :
            j \in {j \in DOMAIN d.conditions :
                     ValuesOfCondition(Evaluations(cycles, d.decision), j)
                       # BOOLEAN}} :
           d \in ToSet(nodes.decisions)}

(* coverage_report["uncovered_items"]                                      *)
Uncovered(nodes, cycles) ==
  UncoveredStatements(nodes, cycles) \cup UncoveredDecisions(nodes, cycles)
    \cup UncoveredConditions(nodes, cycles)

CoverageComplete(nodes, cycles) == Uncovered(nodes, cycles) = {}

(* Two evaluations that differ in condition j alone, and in the result.    *)
Independent(one, other, j) ==
  /\ one.result # other.result
  /\ one.conditions[j] # other.conditions[j]
  /\ \A k \in DOMAIN one.conditions \ {j} :
       one.conditions[k] = other.conditions[k]

Demonstrated(events, j) == \E one, other \in events : Independent(one, other, j)

(* mcdc_report["complete"]                                                 *)
McdcComplete(nodes, cycles) ==
  \A d \in ToSet(nodes.decisions) :
    d.mcdc => \A j \in DOMAIN d.conditions :
                Demonstrated(Evaluations(cycles, d.decision), j)
=============================================================================
