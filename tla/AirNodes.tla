------------------------------- MODULE AirNodes -------------------------------
(***************************************************************************)
(* The nodes of lowered AIR (all_air_nodes of src/tools/aerost_tool.py,    *)
(* and the collect_ functions of src/tools/assurance_obligations.py): the  *)
(* lists that the coverage reports and the obligations are made from.      *)
(***************************************************************************)
EXTENDS Integers, Sequences, FiniteSets, SequencesExt

RECURSIVE Walk(_)

Concatenated(bodies) == FoldLeft(LAMBDA all, b : all \o Walk(b), <<>>, bodies)

(* walk_air_statements: the statements of a body and of all below it.      *)
Walk(body) ==
  FoldLeft(
    LAMBDA found, s :
      Append(found, s)
      \o CASE s.kind = "assign" -> <<>>
           [] s.kind = "if" ->
                Concatenated([i \in DOMAIN s.branches |-> s.branches[i].body])
                \o Walk(s.else)
           [] s.kind = "case" ->
                Concatenated([i \in DOMAIN s.arms |-> s.arms[i].body]),
    <<>>, body)

BranchesOf(statements) ==
  FoldLeft(LAMBDA found, s : IF s.kind = "if" THEN found \o s.branches ELSE found,
           <<>>, statements)

NodesAmong(statements) ==
  [statements |-> statements, decisions |-> BranchesOf(statements)]

(* all_air_nodes, with a decision for each branch.                         *)
AllNodes(air) == NodesAmong(Walk(air.transition) \o Walk(air.output))
=============================================================================
