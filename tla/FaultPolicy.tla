----------------------------- MODULE FaultPolicy -----------------------------
(***************************************************************************)
(* The runtime-fault policy of an execution contract: what its validation  *)
(* asks of a list of assignments (src/tools/aerost_tool.py), and the       *)
(* policy as the external executor applies it                              *)
(* (src/tools/external_air_executor.py).  An assignment is [target, value] *)
(* or [target, from].                                                      *)
(***************************************************************************)
EXTENDS Integers, Sequences

Copies(a) == "from" \in DOMAIN a

TargetsDistinct(assignments) ==
  \A i, j \in DOMAIN assignments :
    assignments[i].target = assignments[j].target => i = j

(* A copy whose source a later assignment overwrites.                      *)
CopyOverwritten(assignments) ==
  \E i, j \in DOMAIN assignments :
    /\ i < j
    /\ Copies(assignments[i])
    /\ assignments[j].target = assignments[i].from

-----------------------------------------------------------------------------
(* The two dictionaries of a cycle, memory.retained and memory.outputs.    *)
(* An assignment writes into one of them and copies from the first, which  *)
(* for the retained assignments are the same.                              *)

AssignIn(memory, place, a) ==
  [memory EXCEPT ![place] =
     [@ EXCEPT ![a.target] =
        IF Copies(a) THEN memory.retained[a.from] ELSE a.value]]

(* The memory after each number of the assignments.                        *)
Memories(memory, place, assignments) ==
  LET after[n \in Nat] ==
        IF n = 0 THEN memory ELSE AssignIn(after[n - 1], place, assignments[n])
  IN  after

(* apply_assignments                                                       *)
Applied(memory, place, assignments) ==
  Memories(memory, place, assignments)[Len(assignments)]

UnderPolicy(policy, memory) ==
  Applied(Applied(memory, "retained", policy.retained), "outputs", policy.output)
=============================================================================
