---------------------------- MODULE SuiteExecution ----------------------------
(***************************************************************************)
(* The executions that suites are compared by                              *)
(* (src/tools/compare_assurance_suites.py): a suite on a program or on its *)
(* mutants, cycle by cycle on the external executor and without the        *)
(* protocol.                                                               *)
(***************************************************************************)
EXTENDS AirMutations

LOCAL X == INSTANCE ExternalExecutor

(* execute_suite on one scenario, up to a cycle that raises.               *)
Executed(air, s) ==
  FoldLeft(
    LAMBDA done, c :
      LET resident == IF done = <<>> THEN s.initial ELSE Last(done).committed
      IN  IF done # <<>> /\ Last(done).raised THEN done
          ELSE Append(done, [scenario |-> s.id, cycle |-> Len(done)]
                            @@ X!CycleOf(air, resident, c.inputs, c.fault)
                            @@ [fault |-> c.fault, expected |-> c.expected]),
    <<>>, s.cycles)

ExecutedSuite(air, suite) ==
  FoldLeft(LAMBDA done, s : done \o Executed(air, s), <<>>, suite)

(* load_mutation_profile; without a profile the built-in mutations run.    *)
Mutations(profile) ==
  IF "mutations" \in DOMAIN profile THEN profile.mutations
  ELSE [i \in DOMAIN MutationTags |-> BuiltIn(MutationTags[i])]

(* The mutated programs.                                                   *)
Mutants(air, profile) ==
  FoldLeft(LAMBDA done, m : Append(done, Mutated(air, m)), <<>>,
           Mutations(profile))

(* Every mutation finds what it changes.                                   *)
MutationsApply(air, profile) ==
  \A m \in ToSet(Mutations(profile)) : Applies(air, m)

(* A suite on the program and on each mutant.                              *)
Execution(air, mutants, suite) ==
  [cycles |-> ExecutedSuite(air, suite),
   mutants |-> [i \in DOMAIN mutants |-> ExecutedSuite(mutants[i], suite)]]
=============================================================================
