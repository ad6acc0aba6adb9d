----------------------------- MODULE TraceReports -----------------------------
(***************************************************************************)
(* The comparison of the traces of several executors                       *)
(* (src/tools/aerost_tool.py): the differential report of the reference    *)
(* interpreter against the backend, and the three-way report.  A trace is  *)
(* a sequence of cycles; a cycle is found by its scenario and index.       *)
(***************************************************************************)
EXTENDS Integers, Sequences, FiniteSets, SequencesExt

KeyOf(cycle) == <<cycle.scenario, cycle.cycle>>

Keys(cycles) == {KeyOf(cycles[i]) : i \in DOMAIN cycles}

(* Defect: a key missing among those compared.                             *)
ObservableWithoutInhibition(cycle) ==
  [committed |-> cycle.committed, outputs |-> cycle.outputs,
   statements |-> cycle.statements, decisions |-> cycle.decisions,
   arms |-> cycle.arms, diagnostics |-> cycle.diagnostics]

(* TRACE_OBSERVABLE_KEYS                                                   *)
Observable(cycle) ==
  [committed |-> cycle.committed, outputs |-> cycle.outputs,
   inhibited |-> cycle.inhibited, statements |-> cycle.statements,
   decisions |-> cycle.decisions, arms |-> cycle.arms,
   diagnostics |-> cycle.diagnostics]

(* The dictionary of a trace: the last cycle of a key stands for it.       *)
RecordAt(cycles, key) ==
  Observable(cycles[SelectLastInSeq(cycles, LAMBDA c : KeyOf(c) = key)])

SameAt(one, other, key) ==
  /\ key \in Keys(one) \cap Keys(other)
  /\ RecordAt(one, key) = RecordAt(other, key)

(* differential_report: each cycle of the reference is looked up.          *)
DifferentialMismatches(reference, backend) ==
  {i \in DOMAIN reference :
     \/ KeyOf(reference[i]) \notin Keys(backend)
     \/ Observable(reference[i]) # RecordAt(backend, KeyOf(reference[i]))}

DifferentialPassed(reference, backend) ==
  DifferentialMismatches(reference, backend) = {}

AllKeys(expected, candidate) == Keys(expected) \cup Keys(candidate)

PairwisePassed(expected, candidate) ==
  \A key \in AllKeys(expected, candidate) : SameAt(expected, candidate, key)

ThreeWayPassed(reference, backend, external) ==
  /\ \A key \in AllKeys(reference, backend) \cup Keys(external) :
       SameAt(reference, backend, key) /\ SameAt(reference, external, key)
  /\ PairwisePassed(reference, backend)
  /\ PairwisePassed(reference, external)
  /\ PairwisePassed(backend, external)

(* Two executors show one behaviour, cycle by cycle.                       *)
SameRun(one, other) ==
  /\ DOMAIN one = DOMAIN other
  /\ \A i \in DOMAIN one : /\ KeyOf(one[i]) = KeyOf(other[i])
                           /\ Observable(one[i]) = Observable(other[i])

-----------------------------------------------------------------------------
(* The output of a backend that is not what its program computed: what the *)
(* reports are there to see.                                               *)

Altered(c) == [c EXCEPT !.inhibited = ~@]

Damages == {"none", "lost", "repeated", "altered", "extra", "overtaken"}

(* The output of a backend that is not what its program computed.          *)
Damaged(cycles, kind) ==
  CASE kind = "none" -> cycles
    [] kind = "lost" -> Tail(cycles)
    [] kind = "repeated" -> <<cycles[1]>> \o cycles
    [] kind = "altered" -> <<Altered(cycles[1])>> \o Tail(cycles)
    [] kind = "extra" -> Append(cycles, [cycles[1] EXCEPT !.cycle = -1])
    [] kind = "overtaken" -> <<Altered(cycles[1])>> \o cycles
=============================================================================
