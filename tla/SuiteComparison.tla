---------------------------- MODULE SuiteComparison ----------------------------
(***************************************************************************)
(* What the comparison of manual and synthesized suites makes of their     *)
(* executions, and on which a case is accepted                             *)
(* (src/tools/compare_assurance_suites.py).  A suite is a sequence of      *)
(* scenarios [id, initial, cycles], and a cycle of it has inputs, fault    *)
(* and expected; an execution has the cycles of a suite on the program and *)
(* on each mutant, up to one that raises.                                  *)
(***************************************************************************)
EXTENDS AssuranceObligations

Projection(c) ==
  [committed |-> c.committed, outputs |-> c.outputs, inhibited |-> c.inhibited]

Mismatch(c) == Projection(c) # c.expected

(* The first cycle that raises or differs decides on a mutant.             *)
FirstOf(cycles) == SelectInSeq(cycles, LAMBDA c : c.raised \/ Mismatch(c))

Decision(cycles, first) ==
  CASE first = 0 -> "survives"
    [] first # 0 /\ cycles[first].raised -> "raises"
    [] OTHER -> "killed"

(* Defect: a mutant counts as killed when its program merely differs.      *)
VerdictByChange(cycles) == "killed"

Verdict(cycles) == Decision(cycles, FirstOf(cycles))

(* Every scenario runs, and as it was recorded.                            *)
Replays(suite, cycles) ==
  /\ \A i \in DOMAIN suite : suite[i].cycles # <<>>
  /\ \A i \in DOMAIN cycles : ~cycles[i].raised /\ ~Mismatch(cycles[i])

UniqueIds(suite) ==
  \A i, j \in DOMAIN suite : suite[i].id = suite[j].id => i = j

ObservationsOf(cycles) == UNION {Observations(cycles[i]) : i \in DOMAIN cycles}

CoveredBy(nodes, contract, direct, cycles) ==
  (UNION {CycleHits(contract, direct, cycles[i], cycles[i].fault) :
            i \in DOMAIN cycles})
  \cup {m \in McdcObligations(nodes) : PairsAmong(m, ObservationsOf(cycles)) # {}}

ProfileOK(profile) ==
  "mutations" \in DOMAIN profile =>
    profile.mutations # <<>> /\ UniqueIds(profile.mutations)

(* What becomes of a suite.                                                *)
Judgement(nodes, contract, direct, suite, execution) ==
  [unique |-> UniqueIds(suite), replays |-> Replays(suite, execution.cycles),
   covered |-> CoveredBy(nodes, contract, direct, execution.cycles),
   verdicts |-> {Verdict(execution.mutants[i]) : i \in DOMAIN execution.mutants}]

(* What ends the comparison with an error: a document that is no suite, a  *)
(* mutation that fits nothing, a run that raises.                          *)
SuiteFails(judged) ==
  ~judged.unique \/ ~judged.replays \/ "raises" \in judged.verdicts

ComparisonFails(profile, fitting, judgements) ==
  ~ProfileOK(profile) \/ ~fitting \/ \E j \in judgements : SuiteFails(j)

AllKilled(judged) == judged.verdicts \subseteq {"killed"}

(* Defect: the final suite may leave obligations open.                     *)
MutantsOnly(nodes, direct, judged) == AllKilled(judged)

FinalComplete(nodes, direct, judged) ==
  /\ judged.covered = Ids(direct) \cup McdcObligations(nodes)
  /\ AllKilled(judged)

(* The gate on the manual suite may be off; without a profile it is on.    *)
ManualGatePassed(profile, judged) ==
  ("gate" \in DOMAIN profile => profile.gate) => AllKilled(judged)

(* compare_suites["acceptance_passed"]; the documents judged are the       *)
(* manual requirements suite, it with the closure supplement, and the      *)
(* automatic suites, the last one final.                                   *)
AcceptancePassed(nodes, direct, profile, fitting, judged) ==
  /\ ~ComparisonFails(profile, fitting,
                      {judged.manual, judged.synthesized, judged.final})
  /\ FinalComplete(nodes, direct, judged.final)
  /\ ManualGatePassed(profile, judged.manual)
=============================================================================
