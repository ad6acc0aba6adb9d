-------------------------- MODULE CaseVerdicts_proofs --------------------------
(***************************************************************************)
(* Proofs about CaseVerdicts, for suites, traces and programs of any size  *)
(* and content: what the differential and the three-way report decide and  *)
(* which defects of a backend's output each of them sees, that the two     *)
(* accounts of coverage and the two judgements of a mutant agree, that an  *)
(* accepted case is a verified one (from RunRecorded, for any state), and  *)
(* what the runtime-fault policy does to a cycle.                          *)
(***************************************************************************)
EXTENDS CaseVerdicts, BoundedSynthesis_proofs, FiniteSetTheorems,
        SequenceTheorems, WellFoundedInduction, TLAPS

-----------------------------------------------------------------------------
(* The last cycle of a key                                                 *)

(* No later cycle of the trace has the key of this one.                    *)
IsLast(cycles, i) ==
  \A j \in DOMAIN cycles : KeyOf(cycles[j]) = KeyOf(cycles[i]) => j <= i

(* The dictionary of a trace holds the last cycle of a key.                *)
LEMMA RecordOfLast ==
  ASSUME NEW C, NEW cycles \in Seq(C), NEW i \in DOMAIN cycles, IsLast(cycles, i)
  PROVE  RecordAt(cycles, KeyOf(cycles[i])) = Observable(cycles[i])
<1> DEFINE I == {j \in 1..Len(cycles) : KeyOf(cycles[j]) = KeyOf(cycles[i])}
<1>1. i \in I /\ \A j \in I : i >= j
  BY DEF IsLast
<1>2. \A m \in I : (\A j \in I : m >= j) => m = i
  BY <1>1
<1>3. Max(I) = i
  BY <1>1, <1>2 DEF Max
<1>4. SelectLastInSeq(cycles, LAMBDA c : KeyOf(c) = KeyOf(cycles[i])) = i
  BY <1>1, <1>3 DEF SelectLastInSeq
<1> QED
  BY <1>4 DEF RecordAt

(* Every key of a trace has a last cycle: of the sets of later indices     *)
(* with this key, take a smallest.                                         *)
LEMMA LastExists ==
  ASSUME NEW C, NEW cycles \in Seq(C), NEW key \in Keys(cycles)
  PROVE  \E i \in DOMAIN cycles : KeyOf(cycles[i]) = key /\ IsLast(cycles, i)
<1> DEFINE I == {j \in DOMAIN cycles : KeyOf(cycles[j]) = key}
           Later(i) == {j \in I : j > i}
           Sets == {Later(i) : i \in I}
           Order == StrictSubsetOrdering(DOMAIN cycles)
<1>1. DOMAIN cycles = 1..Len(cycles) /\ Len(cycles) \in Nat
  OBVIOUS
<1>2. IsFiniteSet(DOMAIN cycles)
  BY <1>1, FS_Interval
<1>3. IsWellFoundedOn(Order, SUBSET (DOMAIN cycles))
  BY <1>2, FS_StrictSubsetOrderingWellFounded, FS_FiniteSubsetsOfFinite
<1>4. Sets \subseteq SUBSET (DOMAIN cycles) /\ Sets # {}
  BY DEF Keys
<1>5. PICK B \in Sets : \A D \in Sets : <<D, B>> \notin Order
  <2> HIDE DEF Order, Sets
  <2> QED
    BY <1>3, <1>4, WFMin
<1>6. PICK i \in I : B = Later(i)
  BY <1>5
<1>7. ASSUME NEW j \in I, j > i PROVE FALSE
  <2>1. Later(j) \subseteq Later(i) /\ j \in Later(i) /\ j \notin Later(j)
    BY <1>1, <1>7
  <2>2. <<Later(j), Later(i)>> \in Order
    BY <2>1 DEF StrictSubsetOrdering
  <2> QED
    BY <1>5, <1>6, <2>2
<1> QED
  BY <1>1, <1>7 DEF IsLast
-----------------------------------------------------------------------------
(* What the reports decide                                                 *)

(* The cycle i of one trace stands in the other: the last cycle there with *)
(* its key shows what it shows.                                            *)
Stands(one, i, other) ==
  \E j \in DOMAIN other :
    /\ KeyOf(other[j]) = KeyOf(one[i])
    /\ IsLast(other, j)
    /\ Observable(other[j]) = Observable(one[i])

(* The dictionary of a trace.                                              *)
Records(cycles) == [key \in Keys(cycles) |-> RecordAt(cycles, key)]

(* differential_report passes exactly when every cycle of the reference    *)
(* stands in the output of the backend; cycles that the reference does not *)
(* have are not looked at.                                                 *)
THEOREM DifferentialDecides ==
  ASSUME NEW C, NEW reference \in Seq(C), NEW D, NEW backend \in Seq(D)
  PROVE  DifferentialPassed(reference, backend) <=>
           \A i \in DOMAIN reference : Stands(reference, i, backend)
<1>1. ASSUME DifferentialPassed(reference, backend), NEW i \in DOMAIN reference
      PROVE  Stands(reference, i, backend)
  <2>1. /\ KeyOf(reference[i]) \in Keys(backend)
        /\ Observable(reference[i]) = RecordAt(backend, KeyOf(reference[i]))
    BY <1>1 DEF DifferentialPassed, DifferentialMismatches
  <2>2. PICK j \in DOMAIN backend :
          KeyOf(backend[j]) = KeyOf(reference[i]) /\ IsLast(backend, j)
    BY <2>1, LastExists
  <2>3. RecordAt(backend, KeyOf(backend[j])) = Observable(backend[j])
    BY <2>2, RecordOfLast
  <2> QED
    BY <2>1, <2>2, <2>3 DEF Stands
<1>2. ASSUME NEW i \in DOMAIN reference, Stands(reference, i, backend)
      PROVE  i \notin DifferentialMismatches(reference, backend)
  <2>1. PICK j \in DOMAIN backend :
          /\ KeyOf(backend[j]) = KeyOf(reference[i]) /\ IsLast(backend, j)
          /\ Observable(backend[j]) = Observable(reference[i])
    BY <1>2 DEF Stands
  <2>2. RecordAt(backend, KeyOf(backend[j])) = Observable(backend[j])
    BY <2>1, RecordOfLast
  <2>3. KeyOf(reference[i]) \in Keys(backend)
    BY <2>1 DEF Keys
  <2> QED
    BY <2>1, <2>2, <2>3 DEF DifferentialMismatches
<1>3. DifferentialMismatches(reference, backend) \subseteq DOMAIN reference
  BY DEF DifferentialMismatches
<1> QED
  BY <1>1, <1>2, <1>3 DEF DifferentialPassed

(* The pairwise report compares the dictionaries.                          *)
LEMMA PairwiseDecides ==
  ASSUME NEW one, NEW other
  PROVE  PairwisePassed(one, other) <=> Records(one) = Records(other)
<1>1. ASSUME PairwisePassed(one, other) PROVE Records(one) = Records(other)
  <2>1. Keys(one) = Keys(other)
    BY <1>1 DEF PairwisePassed, AllKeys, SameAt
  <2>2. \A key \in Keys(one) : RecordAt(one, key) = RecordAt(other, key)
    BY <1>1 DEF PairwisePassed, AllKeys, SameAt
  <2> QED
    BY <2>1, <2>2 DEF Records
<1>2. ASSUME Records(one) = Records(other) PROVE PairwisePassed(one, other)
  <2>1. Keys(one) = DOMAIN Records(one) /\ Keys(other) = DOMAIN Records(other)
    BY DEF Records
  <2>2. Keys(one) = Keys(other)
    BY <1>2, <2>1
  <2>3. ASSUME NEW key \in Keys(one) PROVE RecordAt(one, key) = RecordAt(other, key)
    <3>1. Records(one)[key] = RecordAt(one, key)
      BY DEF Records
    <3>2. Records(other)[key] = RecordAt(other, key)
      BY <2>2 DEF Records
    <3> QED
      BY <1>2, <3>1, <3>2
  <2> QED
    BY <2>2, <2>3 DEF PairwisePassed, AllKeys, SameAt
<1> QED
  BY <1>1, <1>2

(* three_way_differential_report passes exactly when the three traces are  *)
(* one dictionary: its comparison of all the keys adds nothing to the      *)
(* three pairwise reports, nor the third of these to the other two.        *)
THEOREM ThreeWayDecides ==
  ASSUME NEW reference, NEW backend, NEW external
  PROVE  ThreeWayPassed(reference, backend, external) <=>
           /\ Records(reference) = Records(backend)
           /\ Records(reference) = Records(external)
<1>1. ASSUME PairwisePassed(reference, backend), PairwisePassed(reference, external)
      PROVE  \A key \in AllKeys(reference, backend) \cup Keys(external) :
               SameAt(reference, backend, key) /\ SameAt(reference, external, key)
  BY <1>1 DEF PairwisePassed, AllKeys, SameAt
<1>2. /\ PairwisePassed(reference, backend) <=> Records(reference) = Records(backend)
      /\ PairwisePassed(reference, external) <=> Records(reference) = Records(external)
      /\ PairwisePassed(backend, external) <=> Records(backend) = Records(external)
  BY PairwiseDecides
<1> QED
  BY <1>1, <1>2 DEF ThreeWayPassed

(* For a reference with one cycle for each key, the dictionaries agree     *)
(* when the differential report passes and nothing unscheduled is there.   *)
LEMMA SameRecords ==
  ASSUME NEW C, NEW reference \in Seq(C), NEW D, NEW other \in Seq(D),
         KeysDistinct(reference)
  PROVE  Records(reference) = Records(other) <=>
           /\ DifferentialPassed(reference, other)
           /\ Keys(other) \subseteq Keys(reference)
<1>1. ASSUME NEW i \in DOMAIN reference
      PROVE  /\ KeyOf(reference[i]) \in Keys(reference)
             /\ RecordAt(reference, KeyOf(reference[i])) = Observable(reference[i])
  <2>1. IsLast(reference, i)
    BY DEF IsLast, KeysDistinct
  <2> QED
    BY <2>1, RecordOfLast DEF Keys
<1>2. PairwisePassed(reference, other) <=>
        /\ DifferentialPassed(reference, other)
        /\ Keys(other) \subseteq Keys(reference)
  <2>1. ASSUME PairwisePassed(reference, other)
        PROVE  /\ DifferentialPassed(reference, other)
               /\ Keys(other) \subseteq Keys(reference)
    BY <1>1, <2>1 DEF PairwisePassed, AllKeys, SameAt, DifferentialPassed,
                      DifferentialMismatches
  <2>2. ASSUME DifferentialPassed(reference, other),
               Keys(other) \subseteq Keys(reference),
               NEW key \in AllKeys(reference, other)
        PROVE  SameAt(reference, other, key)
    <3>1. PICK i \in DOMAIN reference : key = KeyOf(reference[i])
      BY <2>2 DEF AllKeys, Keys
    <3>2. /\ key \in Keys(other)
          /\ Observable(reference[i]) = RecordAt(other, key)
      BY <2>2, <3>1 DEF DifferentialPassed, DifferentialMismatches
    <3> QED
      BY <1>1, <3>1, <3>2 DEF SameAt
  <2> QED
    BY <2>1, <2>2 DEF PairwisePassed
<1> QED
  BY <1>2, PairwiseDecides

(* What the three-way report adds to the differential reports of the two   *)
(* other executors against the reference interpreter is that neither shows *)
(* an unscheduled cycle.                                                   *)
THEOREM ThreeWayIsDifferential ==
  ASSUME NEW C, NEW reference \in Seq(C), NEW D, NEW backend \in Seq(D),
         NEW E, NEW external \in Seq(E), KeysDistinct(reference)
  PROVE  ThreeWayPassed(reference, backend, external) <=>
           /\ DifferentialPassed(reference, backend)
           /\ DifferentialPassed(reference, external)
           /\ Keys(backend) \cup Keys(external) \subseteq Keys(reference)
<1>1. Records(reference) = Records(backend) <=>
        DifferentialPassed(reference, backend) /\ Keys(backend) \subseteq Keys(reference)
  BY SameRecords
<1>2. Records(reference) = Records(external) <=>
        DifferentialPassed(reference, external) /\ Keys(external) \subseteq Keys(reference)
  BY SameRecords
<1> QED
  BY <1>1, <1>2, ThreeWayDecides
-----------------------------------------------------------------------------
(* Which defects of the backend's output are seen                          *)

(* The records of a backend's output, with values from V.                  *)
OutputRecords(V) ==
  [scenario : V, cycle : Nat, committed : V, outputs : V, inhibited : BOOLEAN,
   statements : V, decisions : V, arms : V, diagnostics : V]

LEMMA SameRunStands ==
  ASSUME NEW C, NEW one \in Seq(C), NEW D, NEW other \in Seq(D),
         SameRun(one, other), KeysDistinct(one)
  PROVE  /\ KeysDistinct(other) /\ Keys(other) = Keys(one)
         /\ \A i \in DOMAIN one : Stands(one, i, other)
<1>1. KeysDistinct(other)
  BY DEF SameRun, KeysDistinct
<1>2. Keys(other) = Keys(one)
  BY DEF SameRun, Keys
<1>3. \A i \in DOMAIN other : i \in Int /\ IsLast(other, i)
  BY <1>1 DEF KeysDistinct, IsLast
<1>4. ASSUME NEW i \in DOMAIN one PROVE Stands(one, i, other)
  <2>1. i \in DOMAIN other /\ IsLast(other, i)
    BY <1>3 DEF SameRun
  <2> QED
    BY <2>1 DEF Stands, SameRun
<1> QED
  BY <1>1, <1>2, <1>4

(* A cycle written before the others, with the key of one of them, leaves  *)
(* everything standing.                                                    *)
LEMMA PrefixStands ==
  ASSUME NEW D, NEW cycles \in Seq(D), cycles # <<>>, KeysDistinct(cycles),
         NEW first \in D, KeyOf(first) = KeyOf(cycles[1]),
         NEW one, SameRun(one, cycles)
  PROVE  /\ <<first>> \o cycles \in Seq(D)
         /\ Keys(<<first>> \o cycles) = Keys(cycles)
         /\ \A i \in DOMAIN one : Stands(one, i, <<first>> \o cycles)
<1> DEFINE whole == <<first>> \o cycles
<1>1. /\ whole \in Seq(D) /\ Len(whole) = Len(cycles) + 1
      /\ DOMAIN cycles = 1..Len(cycles) /\ DOMAIN whole = 1..(Len(cycles) + 1)
      /\ Len(cycles) \in Nat /\ 1 \in DOMAIN cycles
      /\ whole[1] = first
      /\ \A i \in DOMAIN cycles : i + 1 \in DOMAIN whole /\ whole[i + 1] = cycles[i]
  OBVIOUS
<1>2. ASSUME NEW j \in DOMAIN whole
      PROVE  j = 1 \/ (j - 1 \in DOMAIN cycles /\ whole[j] = cycles[j - 1])
  BY <1>1
<1> HIDE DEF whole
<1>3. Keys(whole) \subseteq Keys(cycles)
  <2> SUFFICES ASSUME NEW j \in DOMAIN whole
               PROVE  KeyOf(whole[j]) \in Keys(cycles)
    BY DEF Keys
  <2> QED
    BY <1>1, <1>2 DEF Keys
<1>4. Keys(cycles) \subseteq Keys(whole)
  <2> SUFFICES ASSUME NEW i \in DOMAIN cycles
               PROVE  KeyOf(cycles[i]) \in Keys(whole)
    BY DEF Keys
  <2> QED
    BY <1>1 DEF Keys
<1>5. ASSUME NEW i \in DOMAIN cycles PROVE IsLast(whole, i + 1)
  <2> SUFFICES ASSUME NEW j \in DOMAIN whole, KeyOf(whole[j]) = KeyOf(whole[i + 1])
               PROVE  j <= i + 1
    BY DEF IsLast
  <2>1. CASE j = 1
    BY <1>1, <2>1
  <2>2. CASE j # 1
    <3>1. j - 1 \in DOMAIN cycles /\ KeyOf(cycles[j - 1]) = KeyOf(cycles[i])
      BY <1>1, <1>2, <2>2
    <3>2. j - 1 = i
      BY <3>1 DEF KeysDistinct
    <3> QED
      BY <1>1, <3>2
  <2> QED
    BY <2>1, <2>2
<1>6. ASSUME NEW i \in DOMAIN one PROVE Stands(one, i, whole)
  <2>1. /\ i \in DOMAIN cycles /\ KeyOf(cycles[i]) = KeyOf(one[i])
        /\ Observable(cycles[i]) = Observable(one[i])
    BY DEF SameRun
  <2>2. /\ i + 1 \in DOMAIN whole /\ whole[i + 1] = cycles[i]
        /\ IsLast(whole, i + 1)
    BY <1>1, <1>5, <2>1
  <2> QED
    BY <2>1, <2>2 DEF Stands
<1>7. /\ whole \in Seq(D)
      /\ Keys(whole) = Keys(cycles)
      /\ \A i \in DOMAIN one : Stands(one, i, whole)
  BY <1>1, <1>3, <1>4, <1>6
<1> QED
  BY <1>7 DEF whole

(* A cycle of a key that nothing else has, written at the end, leaves      *)
(* everything standing.                                                    *)
LEMMA ExtraStands ==
  ASSUME NEW D, NEW cycles \in Seq(D), NEW last, KeysDistinct(cycles),
         KeyOf(last) \notin Keys(cycles), NEW one, SameRun(one, cycles)
  PROVE  /\ KeyOf(last) \in Keys(Append(cycles, last))
         /\ \A i \in DOMAIN one : Stands(one, i, Append(cycles, last))
<1> DEFINE whole == Append(cycles, last)
<1>1. /\ Len(cycles) \in Nat /\ DOMAIN cycles = 1..Len(cycles)
      /\ DOMAIN whole = 1..(Len(cycles) + 1)
      /\ whole[Len(cycles) + 1] = last
      /\ \A i \in DOMAIN cycles : i \in DOMAIN whole /\ whole[i] = cycles[i]
  OBVIOUS
<1> HIDE DEF whole
<1>2. KeyOf(last) \in Keys(whole)
  BY <1>1 DEF Keys
<1>3. ASSUME NEW i \in DOMAIN cycles PROVE IsLast(whole, i)
  <2> SUFFICES ASSUME NEW j \in DOMAIN whole, KeyOf(whole[j]) = KeyOf(whole[i])
               PROVE  j <= i
    BY DEF IsLast
  <2>1. KeyOf(whole[i]) \in Keys(cycles)
    BY <1>1 DEF Keys
  <2>2. j \in DOMAIN cycles
    BY <1>1, <2>1
  <2>3. j = i
    BY <1>1, <2>2 DEF KeysDistinct
  <2> QED
    BY <1>1, <2>3
<1>4. ASSUME NEW i \in DOMAIN one PROVE Stands(one, i, whole)
  <2>1. /\ i \in DOMAIN cycles /\ KeyOf(cycles[i]) = KeyOf(one[i])
        /\ Observable(cycles[i]) = Observable(one[i])
    BY DEF SameRun
  <2>2. i \in DOMAIN whole /\ whole[i] = cycles[i] /\ IsLast(whole, i)
    BY <1>1, <1>3, <2>1
  <2> QED
    BY <2>1, <2>2 DEF Stands
<1>5. KeyOf(last) \in Keys(whole) /\ \A i \in DOMAIN one : Stands(one, i, whole)
  BY <1>2, <1>4
<1> QED
  BY <1>5 DEF whole

(* With another cycle in place of the first, or none, the first does not   *)
(* stand.                                                                  *)
LEMMA FirstFalls ==
  ASSUME NEW D, NEW cycles \in Seq(D), cycles # <<>>, KeysDistinct(cycles),
         NEW one, SameRun(one, cycles)
  PROVE  /\ 1 \in DOMAIN one
         /\ ~Stands(one, 1, Tail(cycles))
         /\ \A c \in D : Observable(c) # Observable(cycles[1]) =>
              ~Stands(one, 1, <<c>> \o Tail(cycles))
<1>1. /\ Len(cycles) \in Nat \ {0} /\ DOMAIN cycles = 1..Len(cycles)
      /\ DOMAIN Tail(cycles) = 1..(Len(cycles) - 1)
      /\ \A j \in DOMAIN Tail(cycles) :
           j + 1 \in DOMAIN cycles /\ Tail(cycles)[j] = cycles[j + 1]
  OBVIOUS
<1>2. /\ 1 \in DOMAIN one /\ KeyOf(one[1]) = KeyOf(cycles[1])
      /\ Observable(one[1]) = Observable(cycles[1])
  BY <1>1 DEF SameRun
<1>3. ASSUME NEW j \in DOMAIN Tail(cycles)
      PROVE  KeyOf(Tail(cycles)[j]) # KeyOf(one[1])
  BY <1>1, <1>2 DEF KeysDistinct
<1>4. ~Stands(one, 1, Tail(cycles))
  BY <1>3 DEF Stands
<1>5. ASSUME NEW c \in D, Observable(c) # Observable(cycles[1]),
             Stands(one, 1, <<c>> \o Tail(cycles))
      PROVE  FALSE
  <2> DEFINE whole == <<c>> \o Tail(cycles)
  <2>1. PICK j \in DOMAIN whole : KeyOf(whole[j]) = KeyOf(one[1])
                                  /\ Observable(whole[j]) = Observable(one[1])
    BY <1>5 DEF Stands
  <2>2. whole[1] = c
    OBVIOUS
  <2>3. j # 1
    BY <1>2, <1>5, <2>1, <2>2
  <2>4. j - 1 \in DOMAIN Tail(cycles) /\ whole[j] = Tail(cycles)[j - 1]
    BY <1>1, <2>3
  <2> QED
    BY <1>3, <2>1, <2>4
<1> QED
  BY <1>2, <1>4, <1>5

(* ReportsAreConclusive for traces of any length and content: of an output *)
(* that is not what the backend computed, a lost or an altered cycle fails *)
(* both reports, an unscheduled one only the three-way report, and a cycle *)
(* that the right one of its key follows neither.                          *)
THEOREM DefectsSeen ==
  ASSUME NEW C, NEW reference \in Seq(C), reference # <<>>,
         KeysDistinct(reference),
         NEW V, NEW backend \in Seq(OutputRecords(V)), SameRun(reference, backend),
         NEW E, NEW external \in Seq(E), SameRun(reference, external),
         NEW kind \in Damages
  PROVE  /\ DifferentialPassed(reference, Damaged(backend, kind)) <=>
              kind \in {"none", "repeated", "overtaken", "extra"}
         /\ ThreeWayPassed(reference, Damaged(backend, kind), external) <=>
              kind \in {"none", "repeated", "overtaken"}
<1> DEFINE first == backend[1]
           wrong == Altered(first)
           extra == [first EXCEPT !.cycle = -1]
           Rows == OutputRecords(V) \cup {extra}
           Decided(output, differential, complete) ==
             /\ DifferentialPassed(reference, output) <=> differential
             /\ ThreeWayPassed(reference, output, external) <=> complete
<1>1. /\ KeysDistinct(backend) /\ Keys(backend) = Keys(reference)
      /\ \A i \in DOMAIN reference : Stands(reference, i, backend)
  BY SameRunStands
<1>2. backend # <<>> /\ first \in OutputRecords(V)
  <2>1. 1 \in DOMAIN reference
    OBVIOUS
  <2>2. 1 \in DOMAIN backend
    BY <2>1 DEF SameRun
  <2>3. backend # <<>>
    BY <2>2
  <2>4. backend[1] \in OutputRecords(V)
    BY <2>2
  <2> QED
    BY <2>3, <2>4
<1>3. Keys(external) = Keys(reference) /\ DifferentialPassed(reference, external)
  BY SameRunStands, DifferentialDecides
<1>4. ASSUME NEW output \in Seq(Rows)
      PROVE  /\ DifferentialPassed(reference, output) <=>
                  \A i \in DOMAIN reference : Stands(reference, i, output)
             /\ ThreeWayPassed(reference, output, external) <=>
                  /\ DifferentialPassed(reference, output)
                  /\ Keys(output) \subseteq Keys(reference)
  <2>1. DifferentialPassed(reference, output) <=>
          \A i \in DOMAIN reference : Stands(reference, i, output)
    BY DifferentialDecides
  <2>2. ThreeWayPassed(reference, output, external) <=>
          /\ DifferentialPassed(reference, output)
          /\ DifferentialPassed(reference, external)
          /\ Keys(output) \cup Keys(external) \subseteq Keys(reference)
    <3> HIDE DEF Rows
    <3> QED
      BY ThreeWayIsDifferential
  <2> QED
    BY <1>3, <2>1, <2>2
<1>5. /\ wrong \in OutputRecords(V) /\ KeyOf(wrong) = KeyOf(first)
      /\ Observable(wrong) # Observable(first)
  <2>1. wrong \in OutputRecords(V) /\ wrong.inhibited = ~first.inhibited
        /\ wrong.scenario = first.scenario /\ wrong.cycle = first.cycle
    BY <1>2 DEF Altered, OutputRecords
  <2>2. first.inhibited \in BOOLEAN
    BY <1>2 DEF OutputRecords
  <2>3. Observable(wrong).inhibited # Observable(first).inhibited
    BY <2>1, <2>2 DEF Observable
  <2> QED
    BY <2>1, <2>3 DEF KeyOf
<1>6. KeyOf(extra) \notin Keys(backend)
  <2>1. KeyOf(extra)[2] = -1
    BY <1>2 DEF KeyOf, OutputRecords
  <2>2. ASSUME NEW i \in DOMAIN backend PROVE KeyOf(backend[i])[2] \in Nat
    <3>1. backend[i] \in OutputRecords(V)
      OBVIOUS
    <3>2. backend[i].cycle \in Nat
      BY <3>1 DEF OutputRecords
    <3> QED
      BY <3>2 DEF KeyOf
  <2>3. \A i \in DOMAIN backend : KeyOf(backend[i]) # KeyOf(extra)
    BY <2>1, <2>2
  <2> QED
    BY <2>3 DEF Keys
<1>7. /\ backend \in Seq(Rows) /\ Tail(backend) \in Seq(Rows)
      /\ <<first>> \o backend \in Seq(Rows) /\ <<wrong>> \o backend \in Seq(Rows)
      /\ <<wrong>> \o Tail(backend) \in Seq(Rows)
      /\ Append(backend, extra) \in Seq(Rows)
  <2> HIDE DEF wrong, extra, first
  <2> QED
    BY <1>2, <1>5
<1> HIDE DEF wrong, extra, first, Rows
<1>8. CASE kind = "none"
  <2>1. Decided(backend, TRUE, TRUE)
    BY <1>1, <1>4, <1>7
  <2> QED
    BY <1>8, <2>1 DEF Damaged
<1>9. CASE kind = "lost"
  <2>1. ~Stands(reference, 1, Tail(backend)) /\ 1 \in DOMAIN reference
    BY <1>1, <1>2, FirstFalls
  <2>2. Decided(Tail(backend), FALSE, FALSE)
    BY <1>4, <1>7, <2>1
  <2> QED
    BY <1>9, <2>2 DEF Damaged
<1>10. CASE kind = "repeated"
  <2>1. /\ Keys(<<first>> \o backend) = Keys(reference)
        /\ \A i \in DOMAIN reference : Stands(reference, i, <<first>> \o backend)
    BY <1>1, <1>2, PrefixStands DEF first
  <2>2. Decided(<<first>> \o backend, TRUE, TRUE)
    BY <1>4, <1>7, <2>1
  <2> QED
    BY <1>10, <2>2 DEF Damaged, first
<1>11. CASE kind = "altered"
  <2>1. ~Stands(reference, 1, <<wrong>> \o Tail(backend)) /\ 1 \in DOMAIN reference
    BY <1>1, <1>2, <1>5, FirstFalls DEF first
  <2>2. Decided(<<wrong>> \o Tail(backend), FALSE, FALSE)
    BY <1>4, <1>7, <2>1
  <2> QED
    BY <1>11, <2>2 DEF Damaged, wrong, first
<1>12. CASE kind = "extra"
  <2>1. /\ KeyOf(extra) \in Keys(Append(backend, extra))
        /\ \A i \in DOMAIN reference : Stands(reference, i, Append(backend, extra))
    BY <1>1, <1>6, ExtraStands
  <2>2. Decided(Append(backend, extra), TRUE, FALSE)
    BY <1>1, <1>4, <1>6, <1>7, <2>1
  <2> QED
    BY <1>12, <2>2 DEF Damaged, extra, first
<1>13. CASE kind = "overtaken"
  <2>1. /\ Keys(<<wrong>> \o backend) = Keys(reference)
        /\ \A i \in DOMAIN reference : Stands(reference, i, <<wrong>> \o backend)
    BY <1>1, <1>2, <1>5, PrefixStands DEF first
  <2>2. Decided(<<wrong>> \o backend, TRUE, TRUE)
    BY <1>4, <1>7, <2>1
  <2> QED
    BY <1>13, <2>2 DEF Damaged, wrong, first
<1> QED
  BY <1>8, <1>9, <1>10, <1>11, <1>12, <1>13 DEF Damages

(* ReportsAreConclusive follows from what is recorded: the three traces    *)
(* have cycles of their own keys, and the backend's are of the form that   *)
(* DefectsSeen asks for, over the values that are in them.                 *)
THEOREM ReportsConclusive == RunRecorded => ReportsAreConclusive
<1> SUFFICES ASSUME RunRecorded, Ran,
                    SameRun(traces.reference, traces.external),
                    SameRun(traces.reference, traces.backend)
             PROVE  /\ ThreeWayPassed(traces.reference, Printed, traces.external)
                         <=> damage \in {"none", "repeated", "overtaken"}
                    /\ DifferentialPassed(traces.reference, Printed)
                         <=> damage \in {"none", "repeated", "overtaken", "extra"}
  BY DEF ReportsAreConclusive
<1> DEFINE rows == ToSet(traces.backend)
           V == UNION {{c.scenario, c.committed, c.outputs, c.statements,
                        c.decisions, c.arms, c.diagnostics} : c \in rows}
<1>1. TracesRecorded
  BY DEF RunRecorded
<1>2. /\ traces.reference # <<>> /\ KeysDistinct(traces.reference)
      /\ traces.reference \in Seq(ToSet(traces.reference))
      /\ traces.external \in Seq(ToSet(traces.external))
      /\ traces.backend \in Seq(rows)
      /\ damage \in Damages
  BY <1>1 DEF TracesRecorded, IsTrace
<1>3. ASSUME NEW c \in rows PROVE c \in OutputRecords(V)
  <2>1. IsPrinted(c)
    BY <1>1, <1>3 DEF TracesRecorded, ToSet
  <2>2. {c.scenario, c.committed, c.outputs, c.statements, c.decisions, c.arms,
         c.diagnostics} \subseteq V
    BY <1>3
  <2> HIDE DEF V, rows
  <2> QED
    BY <2>1, <2>2 DEF IsPrinted, OutputRecords
<1> HIDE DEF V, rows
<1>4. traces.backend \in Seq(OutputRecords(V))
  BY <1>2, <1>3
<1> QED
  BY <1>2, <1>4, DefectsSeen DEF Printed

-----------------------------------------------------------------------------
(* The first cycle that decides on a mutant                                *)

(* The smallest index of a set of indices.                                 *)
LEMMA SmallestIndex ==
  ASSUME NEW I \in SUBSET Nat, I # {}
  PROVE  Min(I) \in I /\ \A i \in I : Min(I) <= i
<1> DEFINE Order == OpToRel(<, Nat)
<1>1. IsWellFoundedOn(Order, Nat)
  BY NatLessThanWellFounded
<1>2. Order = {pair \in Nat \X Nat : pair[1] < pair[2]}
  BY DEF OpToRel
<1> HIDE DEF Order
<1>3. PICK i \in I : \A j \in I : <<j, i>> \notin Order
  BY <1>1, WFMin
<1>4. ASSUME NEW j \in I PROVE i <= j
  <2>1. <<j, i>> \in Nat \X Nat /\ <<j, i>> \notin Order
    BY <1>3
  <2>2. ~(j < i)
    BY <1>2, <2>1
  <2> QED
    BY <2>2
<1> QED
  BY <1>4 DEF Min

(* A mutant that no cycle of refuses to run is judged killed exactly when  *)
(* a cycle of it differs from what is expected.                            *)
LEMMA VerdictOfCompleted ==
  ASSUME NEW C, NEW cycles \in Seq(C), Completed(cycles)
  PROVE  Verdict(cycles) = "killed" <=> \E i \in DOMAIN cycles : Mismatch(cycles[i])
<1> DEFINE I == {i \in 1..Len(cycles) : cycles[i].raised \/ Mismatch(cycles[i])}
<1>1. FirstOf(cycles) = IF I # {} THEN Min(I) ELSE 0
  BY DEF FirstOf, SelectInSeq
<1>2. CASE I = {}
  BY <1>1, <1>2 DEF Verdict, Decision
<1>3. CASE I # {}
  <2>1. FirstOf(cycles) \in I
    <3>1. I \in SUBSET Nat
      OBVIOUS
    <3> HIDE DEF I
    <3> QED
      BY <1>1, <1>3, <3>1, SmallestIndex
  <2>2. ~cycles[FirstOf(cycles)].raised /\ Mismatch(cycles[FirstOf(cycles)])
    BY <2>1 DEF Completed
  <2> QED
    BY <2>1, <2>2 DEF Verdict, Decision
<1> QED
  BY <1>2, <1>3

(* A mutant that is judged killed differs in a cycle that ran.             *)
LEMMA KilledDiffers ==
  ASSUME NEW C, NEW cycles \in Seq(C), Verdict(cycles) = "killed"
  PROVE  \E i \in DOMAIN cycles : ~cycles[i].raised /\ Mismatch(cycles[i])
<1> DEFINE I == {i \in 1..Len(cycles) : cycles[i].raised \/ Mismatch(cycles[i])}
<1>1. FirstOf(cycles) = IF I # {} THEN Min(I) ELSE 0
  BY DEF FirstOf, SelectInSeq
<1>2. FirstOf(cycles) # 0 /\ ~cycles[FirstOf(cycles)].raised
  BY DEF Verdict, Decision
<1>3. FirstOf(cycles) \in I
  <2>1. I \in SUBSET Nat
    OBVIOUS
  <2> HIDE DEF I
  <2> QED
    BY <1>1, <1>2, <2>1, SmallestIndex
<1> QED
  BY <1>2, <1>3

-----------------------------------------------------------------------------
(* The two judgements of a mutant                                          *)

(* A cycle that ran and differs from what the suite expects is looked up   *)
(* and seen to differ wherever the other execution shows the same result.  *)
LEMMA DetectedByFollowing ==
  ASSUME NEW suite, NEW cycles, NEW others,
         ExecutionRecorded(suite, cycles), Follows(cycles, others),
         NEW i \in DOMAIN cycles, ~cycles[i].raised, Mismatch(cycles[i])
  PROVE  Detected(others, suite)
<1>1. PICK j \in DOMAIN others :
        KeyOf(others[j]) = KeyOf(cycles[i]) /\ Projection(others[j]) = Projection(cycles[i])
  BY DEF Follows
<1>2. PICK s \in ToSet(suite) : s.id = cycles[i].scenario
  BY DEF ExecutionRecorded, Scheduled
<1>3. cycles[i].expected = s.cycles[cycles[i].cycle + 1].expected
  BY <1>2 DEF ExecutionRecorded
<1>4. others[j].scenario = cycles[i].scenario /\ others[j].cycle = cycles[i].cycle
  BY <1>1 DEF KeyOf
<1>5. Projection(others[j]) # s.cycles[others[j].cycle + 1].expected
  BY <1>1, <1>3, <1>4 DEF Mismatch
<1> QED
  BY <1>2, <1>4, <1>5 DEF Detected

(* What one executor shows of a cycle is shown by the other.               *)
LEMMA SameRunProjects ==
  ASSUME NEW one, NEW other, SameRun(one, other), NEW i \in DOMAIN one
  PROVE  /\ one[i].scenario = other[i].scenario /\ one[i].cycle = other[i].cycle
         /\ Projection(one[i]) = Projection(other[i])
<1>1. KeyOf(one[i]) = KeyOf(other[i]) /\ Observable(one[i]) = Observable(other[i])
  BY DEF SameRun
<1>2. /\ Observable(one[i]).committed = Observable(other[i]).committed
      /\ Observable(one[i]).outputs = Observable(other[i]).outputs
      /\ Observable(one[i]).inhibited = Observable(other[i]).inhibited
  BY <1>1
<1>3. /\ one[i].committed = other[i].committed
      /\ one[i].outputs = other[i].outputs
      /\ one[i].inhibited = other[i].inhibited
  BY <1>2 DEF Observable
<1> QED
  BY <1>1, <1>3 DEF KeyOf, Projection

(* Looking the cycles of one executor up in the suite finds a difference   *)
(* exactly when a cycle of the other differs from its expectation.         *)
LEMMA DetectedIsMismatch ==
  ASSUME NEW suite, NEW cycles, NEW others,
         ExecutionRecorded(suite, cycles), SameRun(others, cycles)
  PROVE  Detected(others, suite) <=> \E i \in DOMAIN cycles : Mismatch(cycles[i])
<1>1. DOMAIN others = DOMAIN cycles
  BY DEF SameRun
<1>2. ASSUME NEW i \in DOMAIN cycles, NEW s \in ToSet(suite),
             s.id = cycles[i].scenario
      PROVE  Mismatch(cycles[i]) <=>
               Projection(others[i]) # s.cycles[others[i].cycle + 1].expected
  <2>1. cycles[i].expected = s.cycles[cycles[i].cycle + 1].expected
    BY <1>2 DEF ExecutionRecorded
  <2>2. others[i].cycle = cycles[i].cycle /\ Projection(others[i]) = Projection(cycles[i])
    BY <1>1, SameRunProjects
  <2> QED
    BY <2>1, <2>2 DEF Mismatch
<1>3. \A i \in DOMAIN cycles : others[i].scenario = cycles[i].scenario
  BY <1>1, SameRunProjects
<1>4. ASSUME Detected(others, suite) PROVE \E i \in DOMAIN cycles : Mismatch(cycles[i])
  BY <1>1, <1>2, <1>3, <1>4 DEF Detected
<1>5. ASSUME NEW i \in DOMAIN cycles, Mismatch(cycles[i]) PROVE Detected(others, suite)
  <2>1. PICK s \in ToSet(suite) : s.id = cycles[i].scenario
    BY DEF ExecutionRecorded, Scheduled
  <2> QED
    BY <1>1, <1>2, <1>3, <1>5, <2>1 DEF Detected
<1> QED
  BY <1>4, <1>5

(* MutantVerdictsAgree for suites and executions of any size: looking the  *)
(* cycles of an executor up in the suite and stopping at the first that    *)
(* differs in another one are the same judgement, when all of them ran.    *)
THEOREM VerdictsAgree == RunRecorded => MutantVerdictsAgree
<1> SUFFICES ASSUME RunRecorded, Ran, NEW m \in DOMAIN traces.mutants,
                    Completed(traces.final.mutants[m])
             PROVE  /\ SameRun(traces.mutants[m].reference, traces.final.mutants[m]) =>
                         (DetectedByReference(traces.mutants[m]) <=>
                            Verdict(traces.final.mutants[m]) = "killed")
                    /\ SameRun(traces.mutants[m].backend, traces.final.mutants[m]) =>
                         (DetectedByBackend(traces.mutants[m]) <=>
                            Verdict(traces.final.mutants[m]) = "killed")
  BY DEF MutantVerdictsAgree
<1>1. ExecutionRecorded(final, traces.final.mutants[m])
  BY DEF RunRecorded, MutantsRecorded
<1>2. traces.final.mutants[m] \in Seq(ToSet(traces.final.mutants[m]))
  BY <1>1 DEF ExecutionRecorded, IsTrace
<1>3. Verdict(traces.final.mutants[m]) = "killed" <=>
        \E i \in DOMAIN traces.final.mutants[m] : Mismatch(traces.final.mutants[m][i])
  BY <1>2, VerdictOfCompleted
<1>4. ASSUME NEW others, SameRun(others, traces.final.mutants[m])
      PROVE  Detected(others, final) <=> Verdict(traces.final.mutants[m]) = "killed"
  BY <1>1, <1>3, <1>4, DetectedIsMismatch
<1> QED
  BY <1>4 DEF DetectedByReference, DetectedByBackend

-----------------------------------------------------------------------------
(* The two accounts of coverage                                            *)

(* What a cycle hits of the structural kinds.                              *)
LEMMA EventsByKind ==
  ASSUME NEW contract, NEW c, NEW fault
  PROVE  /\ \A id : <<"statement", id>> \in CycleEvents(contract, c, fault) <=>
                      id \in ToSet(c.statements)
         /\ \A id, v : <<"decision", id, v>> \in CycleEvents(contract, c, fault) <=>
              \E e \in ToSet(c.decisions) :
                <<"decision", id, v>> = <<"decision", e.decision, e.result>>
         /\ \A id, v : <<"condition", id, v>> \in CycleEvents(contract, c, fault) <=>
              \E e \in ToSet(c.decisions) : \E j \in DOMAIN e.conditions :
                <<"condition", id, v>> =
                  <<"condition", Append(e.decision, j), e.conditions[j]>>
<1> DEFINE Others == {"arm", "commit", "fault", "conservative", "reset", "recovery"}
<1>1. \A x \in DecisionEvents(c) :
        \E e \in ToSet(c.decisions) :
          \/ x = <<"decision", e.decision, e.result>>
          \/ \E j \in DOMAIN e.conditions :
               x = <<"condition", Append(e.decision, j), e.conditions[j]>>
  BY DEF DecisionEvents
<1>2. /\ \A id \in ToSet(c.statements) :
           <<"statement", id>> \in CycleEvents(contract, c, fault)
      /\ \A e \in ToSet(c.decisions) :
           /\ <<"decision", e.decision, e.result>> \in CycleEvents(contract, c, fault)
           /\ \A j \in DOMAIN e.conditions :
                <<"condition", Append(e.decision, j), e.conditions[j]>>
                  \in CycleEvents(contract, c, fault)
  <2>1. \A e \in ToSet(c.decisions) :
          /\ <<"decision", e.decision, e.result>> \in DecisionEvents(c)
          /\ \A j \in DOMAIN e.conditions :
               <<"condition", Append(e.decision, j), e.conditions[j]>>
                 \in DecisionEvents(c)
    <3> SUFFICES ASSUME NEW e \in ToSet(c.decisions)
                 PROVE  /\ <<"decision", e.decision, e.result>> \in DecisionEvents(c)
                        /\ \A j \in DOMAIN e.conditions :
                             <<"condition", Append(e.decision, j), e.conditions[j]>>
                               \in DecisionEvents(c)
      OBVIOUS
    <3> DEFINE Conditions == {<<"condition", Append(e.decision, j), e.conditions[j]>> :
                                j \in DOMAIN e.conditions}
               Own == {<<"decision", e.decision, e.result>>} \cup Conditions
    <3>1. Own \subseteq DecisionEvents(c)
      BY DEF DecisionEvents
    <3>2. <<"decision", e.decision, e.result>> \in Own /\ Conditions \subseteq Own
      OBVIOUS
    <3>3. \A j \in DOMAIN e.conditions :
            <<"condition", Append(e.decision, j), e.conditions[j]>> \in Conditions
      OBVIOUS
    <3> HIDE DEF Own, Conditions
    <3> QED
      BY <3>1, <3>2, <3>3
  <2>2. /\ {<<"statement", id>> : id \in ToSet(c.statements)}
             \subseteq CycleEvents(contract, c, fault)
        /\ DecisionEvents(c) \subseteq CycleEvents(contract, c, fault)
    BY DEF CycleEvents
  <2> QED
    BY <2>1, <2>2
<1>3. \A x \in FaultEvents(contract, c, fault) : x[1] \in Others
  BY DEF FaultEvents
<1>4. ASSUME NEW x \in CycleEvents(contract, c, fault)
      PROVE  \/ \E id \in ToSet(c.statements) : x = <<"statement", id>>
             \/ x \in DecisionEvents(c)
             \/ x[1] \in Others
  BY <1>3 DEF CycleEvents
<1>5. /\ \A x \in DecisionEvents(c) : x[1] \in {"decision", "condition"}
      /\ \A id : <<"statement", id>>[1] = "statement"
      /\ \A id, v : <<"decision", id, v>>[1] = "decision"
      /\ \A id, v : <<"condition", id, v>>[1] = "condition"
  BY <1>1
<1>6. ASSUME NEW id, <<"statement", id>> \in CycleEvents(contract, c, fault)
      PROVE  id \in ToSet(c.statements)
  <2>1. PICK s \in ToSet(c.statements) : <<"statement", id>> = <<"statement", s>>
    BY <1>4, <1>5, <1>6
  <2> QED
    BY <2>1
<1>7. ASSUME NEW id, NEW v, <<"decision", id, v>> \in CycleEvents(contract, c, fault)
      PROVE  \E e \in ToSet(c.decisions) :
               <<"decision", id, v>> = <<"decision", e.decision, e.result>>
  <2>1. <<"decision", id, v>> \in DecisionEvents(c)
    BY <1>4, <1>5, <1>7
  <2> QED
    BY <1>1, <1>5, <2>1
<1>8. ASSUME NEW id, NEW v, <<"condition", id, v>> \in CycleEvents(contract, c, fault)
      PROVE  \E e \in ToSet(c.decisions) : \E j \in DOMAIN e.conditions :
               <<"condition", id, v>> =
                 <<"condition", Append(e.decision, j), e.conditions[j]>>
  <2>1. <<"condition", id, v>> \in DecisionEvents(c)
    BY <1>4, <1>5, <1>8
  <2> QED
    BY <1>1, <1>5, <2>1
<1>9. \A id : <<"statement", id>> \in CycleEvents(contract, c, fault) <=>
               id \in ToSet(c.statements)
  BY <1>2, <1>6
<1>10. \A id, v : <<"decision", id, v>> \in CycleEvents(contract, c, fault) <=>
         \E e \in ToSet(c.decisions) :
           <<"decision", id, v>> = <<"decision", e.decision, e.result>>
  <2>1. ASSUME NEW id, NEW v, NEW e \in ToSet(c.decisions),
               <<"decision", id, v>> = <<"decision", e.decision, e.result>>
        PROVE  <<"decision", id, v>> \in CycleEvents(contract, c, fault)
    <3>1. <<"decision", e.decision, e.result>> \in CycleEvents(contract, c, fault)
      BY <1>2
    <3> QED
      BY <2>1, <3>1
  <2>2. ASSUME NEW id, NEW v
        PROVE  <<"decision", id, v>> \in CycleEvents(contract, c, fault) <=>
                 \E e \in ToSet(c.decisions) :
                   <<"decision", id, v>> = <<"decision", e.decision, e.result>>
    <3>1. CASE <<"decision", id, v>> \in CycleEvents(contract, c, fault)
      BY <1>7, <3>1
    <3>2. CASE <<"decision", id, v>> \notin CycleEvents(contract, c, fault)
      BY <2>1, <3>2
    <3> QED
      BY <3>1, <3>2
  <2> QED
    BY <2>2
<1>11. \A id, v : <<"condition", id, v>> \in CycleEvents(contract, c, fault) <=>
         \E e \in ToSet(c.decisions) : \E j \in DOMAIN e.conditions :
           <<"condition", id, v>> =
             <<"condition", Append(e.decision, j), e.conditions[j]>>
  <2>1. ASSUME NEW id, NEW v,
               NEW e \in ToSet(c.decisions), NEW j \in DOMAIN e.conditions,
               <<"condition", id, v>> =
                 <<"condition", Append(e.decision, j), e.conditions[j]>>
        PROVE  <<"condition", id, v>> \in CycleEvents(contract, c, fault)
    <3>1. <<"condition", Append(e.decision, j), e.conditions[j]>>
            \in CycleEvents(contract, c, fault)
      BY <1>2
    <3> QED
      BY <2>1, <3>1
  <2> QED
    BY <1>8, <2>1
<1> QED
  BY <1>9, <1>10, <1>11

(* The structural obligations, and that a pair is no direct obligation.    *)
LEMMA ObligationsByKind ==
  ASSUME NEW nodes, NEW contract, NEW roots
  PROVE  LET direct == DirectObligations(nodes, contract, roots)
         IN  /\ \A id \in Ids(direct) : id[1] # "mcdc"
             /\ \A s \in ToSet(nodes.statements) :
                  <<"statement", s.id>> \in Structural(direct)
             /\ \A d \in ToSet(nodes.decisions), v \in BOOLEAN :
                  /\ <<"decision", d.decision, v>> \in Structural(direct)
                  /\ \A k \in ToSet(d.conditions) :
                       <<"condition", k.id, v>> \in Structural(direct)
             /\ \A id \in Structural(direct) :
                  \/ \E s \in ToSet(nodes.statements) : id = <<"statement", s.id>>
                  \/ \E d \in ToSet(nodes.decisions), v \in BOOLEAN :
                       \/ id = <<"decision", d.decision, v>>
                       \/ \E k \in ToSet(d.conditions) : id = <<"condition", k.id, v>>
<1> DEFINE direct == DirectObligations(nodes, contract, roots)
           Others == {"arm", "fault", "commit", "conservative", "reset",
                      "recovery", "requirement"}
<1>1. /\ \A r \in StatementObligations(nodes) :
           \E s \in ToSet(nodes.statements) : r.id = <<"statement", s.id>>
      /\ \A s \in ToSet(nodes.statements) :
           \E r \in StatementObligations(nodes) : r.id = <<"statement", s.id>>
  <2>1. StatementObligations(nodes) =
          {Obligation(<<"statement", s.id>>, s.requirements) : s \in ToSet(nodes.statements)}
    BY DEF StatementObligations
  <2>2. ASSUME NEW r \in StatementObligations(nodes)
        PROVE  \E s \in ToSet(nodes.statements) : r.id = <<"statement", s.id>>
    <3>1. PICK s \in ToSet(nodes.statements) :
            r = Obligation(<<"statement", s.id>>, s.requirements)
      BY <2>1
    <3> QED
      BY <3>1 DEF Obligation
  <2>3. ASSUME NEW s \in ToSet(nodes.statements)
        PROVE  \E r \in StatementObligations(nodes) : r.id = <<"statement", s.id>>
    <3>1. Obligation(<<"statement", s.id>>, s.requirements) \in StatementObligations(nodes)
      BY <2>1
    <3>2. Obligation(<<"statement", s.id>>, s.requirements).id = <<"statement", s.id>>
      BY DEF Obligation
    <3> QED
      BY <3>1, <3>2
  <2> QED
    BY <2>2, <2>3
<1>2. ASSUME NEW r \in DecisionObligations(nodes)
      PROVE  \E d \in ToSet(nodes.decisions), v \in BOOLEAN :
               \/ r.id = <<"decision", d.decision, v>>
               \/ \E k \in ToSet(d.conditions) : r.id = <<"condition", k.id, v>>
  <2>1. PICK d \in ToSet(nodes.decisions) :
          \/ r \in {Obligation(<<"decision", d.decision, v>>, d.requirements) :
                     v \in BOOLEAN}
          \/ r \in {Obligation(<<"condition", k.id, v>>, d.requirements) :
                     k \in ToSet(d.conditions), v \in BOOLEAN}
    BY DEF DecisionObligations
  <2> QED
    BY <2>1 DEF Obligation
<1>3. ASSUME NEW d \in ToSet(nodes.decisions), NEW v \in BOOLEAN
      PROVE  /\ \E r \in DecisionObligations(nodes) : r.id = <<"decision", d.decision, v>>
             /\ \A k \in ToSet(d.conditions) :
                  \E r \in DecisionObligations(nodes) : r.id = <<"condition", k.id, v>>
  <2> DEFINE Outcome == {Obligation(<<"decision", d.decision, w>>, d.requirements) :
                           w \in BOOLEAN}
             Values == {Obligation(<<"condition", k.id, w>>, d.requirements) :
                          k \in ToSet(d.conditions), w \in BOOLEAN}
  <2>1. Outcome \cup Values \subseteq DecisionObligations(nodes)
    BY DEF DecisionObligations
  <2>2. /\ Obligation(<<"decision", d.decision, v>>, d.requirements) \in Outcome
        /\ \A k \in ToSet(d.conditions) :
             Obligation(<<"condition", k.id, v>>, d.requirements) \in Values
    OBVIOUS
  <2> HIDE DEF Outcome, Values
  <2> QED
    BY <2>1, <2>2 DEF Obligation
<1>4. /\ \A r \in ArmObligations(nodes) : r.id[1] \in Others
      /\ \A r \in PolicyObligations(contract) : r.id[1] \in Others
      /\ \A r \in PathObligations(contract) : r.id[1] \in Others
      /\ \A r \in {Obligation(<<"requirement", q>>, {q}) : q \in roots} :
           r.id[1] \in Others
  <2>1. \A r \in ArmObligations(nodes) : r.id[1] = "arm"
    BY DEF ArmObligations, Obligation
  <2>2. \A r \in PolicyObligations(contract) : r.id[1] \in Others
    BY DEF PolicyObligations, Obligation
  <2>3. \A r \in PathObligations(contract) : r.id[1] \in Others
    BY DEF PathObligations, Obligation
  <2> QED
    BY <2>1, <2>2, <2>3 DEF Obligation
<1>5. /\ \A r \in direct : \/ r \in StatementObligations(nodes)
                           \/ r \in DecisionObligations(nodes)
                           \/ r.id[1] \in Others
      /\ StatementObligations(nodes) \subseteq direct
      /\ DecisionObligations(nodes) \subseteq direct
  BY <1>4 DEF DirectObligations
<1>6. /\ \A id : <<"statement", id>>[1] = "statement"
      /\ \A id, v : <<"decision", id, v>>[1] = "decision"
      /\ \A id, v : <<"condition", id, v>>[1] = "condition"
  OBVIOUS
<1> HIDE DEF direct
<1>7. \A id \in Ids(direct) : id[1] # "mcdc"
  <2> SUFFICES ASSUME NEW r \in direct PROVE r.id[1] # "mcdc"
    BY DEF Ids
  <2> QED
    BY <1>1, <1>2, <1>5, <1>6
<1>8. \A s \in ToSet(nodes.statements) : <<"statement", s.id>> \in Structural(direct)
  <2> SUFFICES ASSUME NEW s \in ToSet(nodes.statements)
               PROVE  <<"statement", s.id>> \in Structural(direct)
    OBVIOUS
  <2>1. PICK r \in direct : r.id = <<"statement", s.id>>
    BY <1>1, <1>5
  <2> QED
    BY <1>6, <2>1 DEF Structural, Ids
<1>9. ASSUME NEW d \in ToSet(nodes.decisions), NEW v \in BOOLEAN
      PROVE  /\ <<"decision", d.decision, v>> \in Structural(direct)
             /\ \A k \in ToSet(d.conditions) :
                  <<"condition", k.id, v>> \in Structural(direct)
  <2>1. PICK r \in direct : r.id = <<"decision", d.decision, v>>
    BY <1>3, <1>5
  <2>2. <<"decision", d.decision, v>> \in Structural(direct)
    BY <1>6, <2>1 DEF Structural, Ids
  <2>3. ASSUME NEW k \in ToSet(d.conditions)
        PROVE  <<"condition", k.id, v>> \in Structural(direct)
    <3>1. PICK q \in direct : q.id = <<"condition", k.id, v>>
      BY <1>3, <1>5
    <3> QED
      BY <1>6, <3>1 DEF Structural, Ids
  <2> QED
    BY <2>2, <2>3
<1>10. ASSUME NEW id \in Structural(direct)
       PROVE  \/ \E s \in ToSet(nodes.statements) : id = <<"statement", s.id>>
              \/ \E d \in ToSet(nodes.decisions), v \in BOOLEAN :
                   \/ id = <<"decision", d.decision, v>>
                   \/ \E k \in ToSet(d.conditions) : id = <<"condition", k.id, v>>
  <2>1. PICK r \in direct : r.id = id
    BY DEF Structural, Ids
  <2>2. r \in StatementObligations(nodes) \/ r \in DecisionObligations(nodes)
    BY <1>5, <2>1 DEF Structural
  <2> QED
    BY <1>1, <1>2, <2>1, <2>2
<1>11. /\ \A id \in Ids(direct) : id[1] # "mcdc"
       /\ \A s \in ToSet(nodes.statements) :
            <<"statement", s.id>> \in Structural(direct)
       /\ \A d \in ToSet(nodes.decisions), v \in BOOLEAN :
            /\ <<"decision", d.decision, v>> \in Structural(direct)
            /\ \A k \in ToSet(d.conditions) :
                 <<"condition", k.id, v>> \in Structural(direct)
       /\ \A id \in Structural(direct) :
            \/ \E s \in ToSet(nodes.statements) : id = <<"statement", s.id>>
            \/ \E d \in ToSet(nodes.decisions), v \in BOOLEAN :
                 \/ id = <<"decision", d.decision, v>>
                 \/ \E k \in ToSet(d.conditions) : id = <<"condition", k.id, v>>
  BY <1>7, <1>8, <1>9, <1>10
<1> QED
  BY <1>11 DEF direct

(* A structural obligation is covered by a cycle that has its event, the   *)
(* pair of an MC/DC obligation by the observations of all the cycles.      *)
LEMMA CoveredByKind ==
  ASSUME NEW nodes, NEW contract, NEW roots, NEW cycles, NEW direct,
         direct = DirectObligations(nodes, contract, roots)
  PROVE  /\ \A id \in Structural(direct) :
              id \in CoveredBy(nodes, contract, direct, cycles) <=>
                \E i \in DOMAIN cycles :
                  id \in CycleEvents(contract, cycles[i], cycles[i].fault)
         /\ \A id \in McdcObligations(nodes) :
              id \in CoveredBy(nodes, contract, direct, cycles) <=>
                PairsAmong(id, ObservationsOf(cycles)) # {}
<1> DEFINE Hits(i) == CycleHits(contract, direct, cycles[i], cycles[i].fault)
           Events(i) == CycleEvents(contract, cycles[i], cycles[i].fault)
           Shown == {m \in McdcObligations(nodes) :
                       PairsAmong(m, ObservationsOf(cycles)) # {}}
<1>1. \A id : id \in CoveredBy(nodes, contract, direct, cycles) <=>
               (\E i \in DOMAIN cycles : id \in Hits(i)) \/ id \in Shown
  <2>1. CoveredBy(nodes, contract, direct, cycles) =
          (UNION {Hits(i) : i \in DOMAIN cycles}) \cup Shown
    BY DEF CoveredBy
  <2> HIDE DEF Shown, Hits
  <2> QED
    BY <2>1
<1>2. \A id \in McdcObligations(nodes) : id[1] = "mcdc"
  BY DEF McdcObligations
<1>3. \A id \in Ids(direct) : id[1] # "mcdc"
  BY ObligationsByKind
<1>4. ASSUME NEW i \in DOMAIN cycles
      PROVE  /\ Hits(i) \subseteq Ids(direct)
             /\ \A id \in Structural(direct) : id \in Hits(i) <=> id \in Events(i)
  <2> DEFINE E == Events(i)
             Hit == {r \in direct : r.id \in E}
             Exercised == UNION {r.requirements : r \in Hit}
             Roots == {r.id : r \in {r \in direct :
                         r.id[1] = "requirement" /\ r.id[2] \in Exercised}}
  <2>1. Hits(i) = Ids(Hit) \cup Roots
    BY DEF CycleHits
  <2> HIDE DEF E, Exercised
  <2>2. Ids(Hit) \subseteq Ids(direct) /\ Roots \subseteq Ids(direct)
    BY DEF Ids
  <2>3. ASSUME NEW id \in Structural(direct) PROVE id \in Hits(i) <=> id \in E
    <3>1. id \in Ids(direct) /\ id[1] # "requirement"
      BY DEF Structural
    <3>2. id \in Ids(Hit) <=> id \in E
      BY <3>1 DEF Ids
    <3>3. id \notin Roots
      BY <3>1
    <3> QED
      BY <2>1, <3>2, <3>3
  <2> HIDE DEF Hit, Roots
  <2> QED
    BY <2>1, <2>2, <2>3 DEF E
<1> HIDE DEF Hits, Events, Shown
<1>5. ASSUME NEW id \in Structural(direct)
      PROVE  id \in CoveredBy(nodes, contract, direct, cycles) <=>
               \E i \in DOMAIN cycles : id \in Events(i)
  <2>1. id \notin Shown
    BY <1>2, <1>3 DEF Shown, Structural
  <2>2. id \in CoveredBy(nodes, contract, direct, cycles) <=>
          \E i \in DOMAIN cycles : id \in Hits(i)
    BY <1>1, <2>1
  <2>3. \A i \in DOMAIN cycles : id \in Hits(i) <=> id \in Events(i)
    BY <1>4
  <2> QED
    BY <2>2, <2>3
<1>6. ASSUME NEW id \in McdcObligations(nodes)
      PROVE  id \in CoveredBy(nodes, contract, direct, cycles) <=> id \in Shown
  <2>1. id \notin Ids(direct)
    BY <1>2, <1>3
  <2>2. \A i \in DOMAIN cycles : id \notin Hits(i)
    BY <1>4, <2>1
  <2> QED
    BY <1>1, <2>2
<1> QED
  BY <1>5, <1>6 DEF Events, Shown

(* What the structural report asks of the nodes.                           *)
LEMMA CompleteByKind ==
  ASSUME NEW nodes, NEW cycles
  PROVE  CoverageComplete(nodes, cycles) <=>
           /\ \A s \in ToSet(nodes.statements) : s.id \in ReachedStatements(cycles)
           /\ \A d \in ToSet(nodes.decisions) :
                /\ Outcomes(Evaluations(cycles, d.decision)) = BOOLEAN
                /\ \A j \in DOMAIN d.conditions :
                     ValuesOfCondition(Evaluations(cycles, d.decision), j) = BOOLEAN
<1>1. UncoveredStatements(nodes, cycles) = {} <=>
        \A s \in ToSet(nodes.statements) : s.id \in ReachedStatements(cycles)
  BY DEF UncoveredStatements
<1>2. UncoveredDecisions(nodes, cycles) = {} <=>
        \A d \in ToSet(nodes.decisions) :
          Outcomes(Evaluations(cycles, d.decision)) = BOOLEAN
  BY DEF UncoveredDecisions
<1>3. UncoveredConditions(nodes, cycles) = {} <=>
        \A d \in ToSet(nodes.decisions) : \A j \in DOMAIN d.conditions :
          ValuesOfCondition(Evaluations(cycles, d.decision), j) = BOOLEAN
  <2> DEFINE Open(d) == {j \in DOMAIN d.conditions :
                           ValuesOfCondition(Evaluations(cycles, d.decision), j)
                             # BOOLEAN}
             Rows(d) == {<<"condition", d.conditions[j].id>> : j \in Open(d)}
  <2>1. UncoveredConditions(nodes, cycles) =
          UNION {Rows(d) : d \in ToSet(nodes.decisions)}
    BY DEF UncoveredConditions
  <2>2. \A d : Rows(d) = {} <=> Open(d) = {}
    <3> HIDE DEF Open
    <3> QED
      OBVIOUS
  <2>3. \A d : Open(d) = {} <=>
          \A j \in DOMAIN d.conditions :
            ValuesOfCondition(Evaluations(cycles, d.decision), j) = BOOLEAN
    OBVIOUS
  <2> HIDE DEF Open, Rows
  <2>4. UncoveredConditions(nodes, cycles) = {} <=>
          \A d \in ToSet(nodes.decisions) : Rows(d) = {}
    BY <2>1
  <2> QED
    BY <2>2, <2>3, <2>4
<1>4. CoverageComplete(nodes, cycles) <=>
        /\ UncoveredStatements(nodes, cycles) = {}
        /\ UncoveredDecisions(nodes, cycles) = {}
        /\ UncoveredConditions(nodes, cycles) = {}
  BY DEF CoverageComplete, Uncovered
<1> QED
  BY <1>1, <1>2, <1>3, <1>4

(* The evaluations of a decision, by the cycle that they are in.           *)
LEMMA EvaluationIn ==
  ASSUME NEW cycles, NEW id
  PROVE  \A e : e \in Evaluations(cycles, id) <=>
                  /\ \E i \in DOMAIN cycles : e \in ToSet(cycles[i].decisions)
                  /\ e.decision = id
  BY DEF Evaluations

(* The identity of a condition tells its decision and its position.        *)
LEMMA AppendTells ==
  ASSUME NEW s \in Seq(Nat), NEW t \in Seq(Nat), NEW j \in Nat, NEW k \in Nat,
         Append(s, j) = Append(t, k)
  PROVE  s = t /\ j = k
<1>1. /\ Len(Append(s, j)) = Len(s) + 1 /\ Append(s, j)[Len(s) + 1] = j
      /\ \A i \in 1..Len(s) : Append(s, j)[i] = s[i]
  BY AppendProperties
<1>2. /\ Len(Append(t, k)) = Len(t) + 1 /\ Append(t, k)[Len(t) + 1] = k
      /\ \A i \in 1..Len(t) : Append(t, k)[i] = t[i]
  BY AppendProperties
<1>3. Len(s) \in Nat /\ Len(t) \in Nat
  OBVIOUS
<1>4. Len(s) = Len(t) /\ j = k
  BY <1>1, <1>2, <1>3
<1>5. \A i \in 1..Len(s) : s[i] = t[i]
  BY <1>1, <1>2, <1>4
<1>6. s \in [1..Len(s) -> Nat] /\ t \in [1..Len(t) -> Nat]
  OBVIOUS
<1> QED
  BY <1>4, <1>5, <1>6

(* Two executions that agree show the same nodes.                          *)
LEMMA SameRunEvents ==
  ASSUME NEW one, NEW other, SameRun(one, other)
  PROVE  /\ DOMAIN one = DOMAIN other
         /\ \A i \in DOMAIN one : /\ one[i].statements = other[i].statements
                                  /\ one[i].decisions = other[i].decisions
<1>1. ASSUME NEW i \in DOMAIN one
      PROVE  /\ one[i].statements = other[i].statements
             /\ one[i].decisions = other[i].decisions
  <2>1. Observable(one[i]) = Observable(other[i])
    BY DEF SameRun
  <2>2. /\ Observable(one[i]).statements = Observable(other[i]).statements
        /\ Observable(one[i]).decisions = Observable(other[i]).decisions
    BY <2>1
  <2> QED
    BY <2>2 DEF Observable
<1> QED
  BY <1>1 DEF SameRun

(* CoverageIsObligations for programs and suites of any size: a statement, *)
(* an outcome of a decision or a value of a condition is seen by the       *)
(* structural report exactly when its obligation is covered, and two       *)
(* evaluations demonstrate a condition exactly when they are a pair of its *)
(* MC/DC obligation.                                                       *)
THEOREM CoverageAccounts == RunRecorded => CoverageIsObligations
<1> DEFINE cycles == traces.final.cycles
           covered == CoveredBy(Nodes, Air.contract, Direct, cycles)
           Events(i) == CycleEvents(Air.contract, cycles[i], cycles[i].fault)
           Seen(e) == \E i \in DOMAIN cycles : e \in ToSet(cycles[i].decisions)
<1> SUFFICES ASSUME RunRecorded, Ran, ProgramAgreed PROVE AccountsAgree(covered)
  BY DEF CoverageIsObligations
<1>1. /\ Direct = DirectObligations(Nodes, Air.contract, program.roots)
      /\ program.mcdc = McdcObligations(Nodes)
      /\ NodesIdentified
      /\ EventsRecorded(traces.reference)
  BY DEF RunRecorded, ProgramRecorded, TracesRecorded
<1>2. /\ DOMAIN traces.reference = DOMAIN cycles
      /\ \A i \in DOMAIN cycles :
           /\ traces.reference[i].statements = cycles[i].statements
           /\ traces.reference[i].decisions = cycles[i].decisions
  BY SameRunEvents DEF ProgramAgreed
<1>3. /\ \A id \in Structural(Direct) :
           id \in covered <=> \E i \in DOMAIN cycles : id \in Events(i)
      /\ \A id \in McdcObligations(Nodes) :
           id \in covered <=> PairsAmong(id, ObservationsOf(cycles)) # {}
  BY <1>1, CoveredByKind
<1>4. /\ \A s \in ToSet(Nodes.statements) : <<"statement", s.id>> \in Structural(Direct)
      /\ \A d \in ToSet(Nodes.decisions), v \in BOOLEAN :
           /\ <<"decision", d.decision, v>> \in Structural(Direct)
           /\ \A k \in ToSet(d.conditions) : <<"condition", k.id, v>> \in Structural(Direct)
      /\ \A id \in Structural(Direct) :
           \/ \E s \in ToSet(Nodes.statements) : id = <<"statement", s.id>>
           \/ \E d \in ToSet(Nodes.decisions), v \in BOOLEAN :
                \/ id = <<"decision", d.decision, v>>
                \/ \E k \in ToSet(d.conditions) : id = <<"condition", k.id, v>>
  BY <1>1, ObligationsByKind
<1>5. \A id, e : e \in Evaluations(traces.reference, id) <=> Seen(e) /\ e.decision = id
  BY <1>2, EvaluationIn
<1>6. ASSUME NEW e, Seen(e) PROVE IsEvent(e)
  BY <1>1, <1>2, <1>6 DEF EventsRecorded
<1> HIDE DEF covered, cycles, Events, Seen
<1>7. ASSUME NEW s \in ToSet(Nodes.statements)
      PROVE  s.id \in ReachedStatements(traces.reference) <=>
               <<"statement", s.id>> \in covered
  <2>1. s.id \in ReachedStatements(traces.reference) <=>
          \E i \in DOMAIN cycles : s.id \in ToSet(cycles[i].statements)
    BY <1>2 DEF ReachedStatements
  <2>2. \A i : <<"statement", s.id>> \in Events(i) <=> s.id \in ToSet(cycles[i].statements)
    BY EventsByKind DEF Events
  <2> QED
    BY <1>3, <1>4, <2>1, <2>2
<1>8. ASSUME NEW d \in ToSet(Nodes.decisions)
      PROVE  Outcomes(Evaluations(traces.reference, d.decision)) = BOOLEAN <=>
               \A v \in BOOLEAN : <<"decision", d.decision, v>> \in covered
  <2> DEFINE Shows(v) == \E e : Seen(e) /\ e.decision = d.decision /\ e.result = v
  <2>1. \A v : v \in Outcomes(Evaluations(traces.reference, d.decision)) <=> Shows(v)
    BY <1>5 DEF Outcomes
  <2>2. Outcomes(Evaluations(traces.reference, d.decision)) \subseteq BOOLEAN
    BY <1>5, <1>6 DEF Outcomes, IsEvent
  <2>3. ASSUME NEW v \in BOOLEAN
        PROVE  <<"decision", d.decision, v>> \in covered <=> Shows(v)
    <3>1. <<"decision", d.decision, v>> \in covered <=>
            \E i \in DOMAIN cycles : <<"decision", d.decision, v>> \in Events(i)
      BY <1>3, <1>4
    <3>2. \A i : <<"decision", d.decision, v>> \in Events(i) <=>
            \E e \in ToSet(cycles[i].decisions) :
              <<"decision", d.decision, v>> = <<"decision", e.decision, e.result>>
      BY EventsByKind DEF Events
    <3>3. <<"decision", d.decision, v>> \in covered <=>
            \E e : /\ Seen(e)
                   /\ <<"decision", d.decision, v>> = <<"decision", e.decision, e.result>>
      BY <3>1, <3>2 DEF Seen
    <3>4. \A e : <<"decision", d.decision, v>> = <<"decision", e.decision, e.result>> <=>
                   e.decision = d.decision /\ e.result = v
      OBVIOUS
    <3> QED
      BY <3>3, <3>4
  <2> QED
    BY <2>1, <2>2, <2>3
<1>9. ASSUME NEW d \in ToSet(Nodes.decisions), NEW j \in DOMAIN d.conditions
      PROVE  ValuesOfCondition(Evaluations(traces.reference, d.decision), j) = BOOLEAN <=>
               \A v \in BOOLEAN : <<"condition", d.conditions[j].id, v>> \in covered
  <2> DEFINE Shows(v) == \E e : /\ Seen(e) /\ e.decision = d.decision
                                /\ e.conditions[j] = v
             Names(e, k, v) == <<"condition", d.conditions[j].id, v>> =
                                 <<"condition", Append(e.decision, k), e.conditions[k]>>
  <2>1. /\ d.decision \in Seq(Nat) /\ j \in Nat
        /\ d.conditions[j].id = Append(d.decision, j)
        /\ d.conditions[j] \in ToSet(d.conditions)
    BY <1>1 DEF NodesIdentified, ToSet
  <2>2. ASSUME NEW e, Seen(e), e.decision = d.decision
        PROVE  e.conditions \in [DOMAIN d.conditions -> BOOLEAN]
    <3>1. PICK c \in ToSet(Nodes.decisions) :
            e.decision = c.decision /\ e.conditions \in [DOMAIN c.conditions -> BOOLEAN]
      BY <1>6, <2>2 DEF IsEvent
    <3>2. c = d
      BY <1>1, <2>2, <3>1 DEF NodesIdentified
    <3> QED
      BY <3>1, <3>2
  <2>3. ASSUME NEW e, Seen(e), NEW k \in DOMAIN e.conditions
        PROVE  e.decision \in Seq(Nat) /\ k \in Nat
    <3>1. PICK c \in ToSet(Nodes.decisions) :
            e.decision = c.decision /\ e.conditions \in [DOMAIN c.conditions -> BOOLEAN]
      BY <1>6, <2>3 DEF IsEvent
    <3>2. k \in DOMAIN c.conditions
      BY <2>3, <3>1
    <3> QED
      BY <1>1, <3>1, <3>2 DEF NodesIdentified
  <2>4. \A v : v \in ValuesOfCondition(Evaluations(traces.reference, d.decision), j)
                 <=> Shows(v)
    BY <1>5 DEF ValuesOfCondition
  <2>5. \A v : Shows(v) => v \in BOOLEAN
    BY <2>2
  <2>6. ASSUME NEW v \in BOOLEAN
        PROVE  <<"condition", d.conditions[j].id, v>> \in covered <=> Shows(v)
    <3>1. <<"condition", d.conditions[j].id, v>> \in covered <=>
            \E i \in DOMAIN cycles : <<"condition", d.conditions[j].id, v>> \in Events(i)
      BY <1>3, <1>4, <2>1
    <3>2. \A i : <<"condition", d.conditions[j].id, v>> \in Events(i) <=>
            \E e \in ToSet(cycles[i].decisions) : \E k \in DOMAIN e.conditions :
              Names(e, k, v)
      BY EventsByKind DEF Events
    <3>3. <<"condition", d.conditions[j].id, v>> \in covered <=>
            \E e : Seen(e) /\ \E k \in DOMAIN e.conditions : Names(e, k, v)
      <4> HIDE DEF Names
      <4> QED
        BY <3>1, <3>2 DEF Seen
    <3>4. ASSUME NEW e, Seen(e), NEW k \in DOMAIN e.conditions, Names(e, k, v)
          PROVE  Shows(v)
      <4>1. Append(d.decision, j) = Append(e.decision, k) /\ v = e.conditions[k]
        BY <2>1, <3>4
      <4>2. e.decision \in Seq(Nat) /\ k \in Nat
        BY <2>3, <3>4
      <4>3. \A t \in Seq(Nat), m \in Nat :
              Append(d.decision, j) = Append(t, m) => d.decision = t /\ j = m
        BY <2>1, AppendTells
      <4>4. e.decision = d.decision /\ k = j
        BY <4>1, <4>2, <4>3
      <4> QED
        BY <3>4, <4>1, <4>4
    <3>5. ASSUME NEW e, Seen(e), e.decision = d.decision, e.conditions[j] = v
          PROVE  j \in DOMAIN e.conditions /\ Names(e, j, v)
      BY <2>1, <2>2, <3>5
    <3> HIDE DEF Names
    <3>6. CASE Shows(v)
      BY <3>3, <3>5, <3>6
    <3>7. CASE ~Shows(v)
      BY <3>3, <3>4, <3>7
    <3> QED
      BY <3>6, <3>7
  <2> HIDE DEF Shows
  <2> QED
    BY <2>4, <2>5, <2>6
<1>10. ASSUME NEW d \in ToSet(Nodes.decisions), d.mcdc, NEW j \in DOMAIN d.conditions
       PROVE  Demonstrated(Evaluations(traces.reference, d.decision), j) <=>
                <<"mcdc", d.decision, j>> \in covered
  <2> DEFINE obligation == <<"mcdc", d.decision, j>>
             Shown(e) == <<"observed", e.decision, e.result, e.conditions>>
             own == {o \in ObservationsOf(cycles) : o[2] = d.decision}
  <2>1. obligation \in McdcObligations(Nodes)
    <3>1. obligation \in {<<"mcdc", d.decision, k>> : k \in DOMAIN d.conditions}
      OBVIOUS
    <3> HIDE DEF obligation
    <3> QED
      BY <1>10, <3>1 DEF McdcObligations
  <2>2. obligation \in covered <=> PairsAmong(obligation, ObservationsOf(cycles)) # {}
    BY <1>3, <2>1
  <2>3. PairsAmong(obligation, ObservationsOf(cycles)) =
          {pair \in {{one, other} : one \in own, other \in own} :
             \E one, other \in pair : IsMcdcPair(one, other, j)}
    BY DEF PairsAmong
  <2>4. \A o : o \in ObservationsOf(cycles) <=> \E e : Seen(e) /\ o = Shown(e)
    BY DEF ObservationsOf, Observations, Seen
  <2>5. \A e : /\ Shown(e)[2] = e.decision /\ Shown(e)[3] = e.result
               /\ Shown(e)[4] = e.conditions
    OBVIOUS
  <2>6. \A e, f : e.decision = f.decision =>
          (IsMcdcPair(Shown(e), Shown(f), j) <=> Independent(e, f, j))
    BY <2>5 DEF IsMcdcPair, Independent
  <2> HIDE DEF obligation, Shown
  <2>7. \A o : o \in own <=> \E e : Seen(e) /\ e.decision = d.decision /\ o = Shown(e)
    BY <2>4, <2>5
  <2> HIDE DEF own
  <2>8. PairsAmong(obligation, ObservationsOf(cycles)) # {} <=>
          \E one, other \in own : IsMcdcPair(one, other, j)
    <3>1. ASSUME NEW one \in own, NEW other \in own, IsMcdcPair(one, other, j)
          PROVE  {one, other} \in PairsAmong(obligation, ObservationsOf(cycles))
      BY <2>3, <3>1
    <3>2. ASSUME NEW pair \in PairsAmong(obligation, ObservationsOf(cycles))
          PROVE  \E one, other \in own : IsMcdcPair(one, other, j)
      BY <2>3
    <3> QED
      BY <3>1, <3>2
  <2>9. ASSUME NEW one \in own, NEW other \in own, IsMcdcPair(one, other, j)
        PROVE  Demonstrated(Evaluations(traces.reference, d.decision), j)
    <3>1. PICK e : Seen(e) /\ e.decision = d.decision /\ one = Shown(e)
      BY <2>7
    <3>2. PICK f : Seen(f) /\ f.decision = d.decision /\ other = Shown(f)
      BY <2>7
    <3>3. Independent(e, f, j)
      BY <2>6, <2>9, <3>1, <3>2
    <3> QED
      BY <1>5, <3>1, <3>2, <3>3 DEF Demonstrated
  <2>10. ASSUME Demonstrated(Evaluations(traces.reference, d.decision), j)
         PROVE  \E one, other \in own : IsMcdcPair(one, other, j)
    <3>1. PICK e, f \in Evaluations(traces.reference, d.decision) : Independent(e, f, j)
      BY <2>10 DEF Demonstrated
    <3>2. /\ Seen(e) /\ e.decision = d.decision /\ Seen(f) /\ f.decision = d.decision
          /\ Shown(e) \in own /\ Shown(f) \in own
      BY <1>5, <2>7
    <3>3. IsMcdcPair(Shown(e), Shown(f), j)
      BY <2>6, <3>1, <3>2
    <3> QED
      BY <3>2, <3>3
  <2>11. Demonstrated(Evaluations(traces.reference, d.decision), j) <=>
           obligation \in covered
    BY <2>2, <2>8, <2>9, <2>10
  <2> QED
    BY <2>11 DEF obligation
<1>11. Structural(Direct) \subseteq covered <=>
         /\ \A s \in ToSet(Nodes.statements) : <<"statement", s.id>> \in covered
         /\ \A d \in ToSet(Nodes.decisions), v \in BOOLEAN :
              /\ <<"decision", d.decision, v>> \in covered
              /\ \A k \in ToSet(d.conditions) : <<"condition", k.id, v>> \in covered
  BY <1>4
<1>12. \A d \in ToSet(Nodes.decisions), v \in BOOLEAN :
         (\A k \in ToSet(d.conditions) : <<"condition", k.id, v>> \in covered) <=>
           \A j \in DOMAIN d.conditions : <<"condition", d.conditions[j].id, v>> \in covered
  BY DEF ToSet
<1>13. CoverageComplete(Nodes, traces.reference) <=> Structural(Direct) \subseteq covered
  BY <1>7, <1>8, <1>9, <1>11, <1>12, CompleteByKind
<1>14. McdcComplete(Nodes, traces.reference) <=> program.mcdc \subseteq covered
  <2>1. program.mcdc \subseteq covered <=>
          \A d \in ToSet(Nodes.decisions) :
            d.mcdc => \A j \in DOMAIN d.conditions : <<"mcdc", d.decision, j>> \in covered
    BY <1>1 DEF McdcObligations
  <2> QED
    BY <1>10, <2>1 DEF McdcComplete
<1> QED
  BY <1>13, <1>14 DEF AccountsAgree

-----------------------------------------------------------------------------
(* Acceptance                                                              *)

(* A mutant that the comparison has killed is detected wherever the other  *)
(* execution shows what ran of it.                                         *)
LEMMA KilledIsDetected ==
  ASSUME NEW suite, NEW cycles, NEW others,
         ExecutionRecorded(suite, cycles), Follows(cycles, others),
         Verdict(cycles) = "killed"
  PROVE  Detected(others, suite)
<1>1. cycles \in Seq(ToSet(cycles))
  BY DEF ExecutionRecorded, IsTrace
<1>2. PICK i \in DOMAIN cycles : ~cycles[i].raised /\ Mismatch(cycles[i])
  BY <1>1, KilledDiffers
<1> QED
  BY <1>2, DetectedByFollowing

(* An execution follows every execution that it agrees with.               *)
LEMMA SameRunFollows ==
  ASSUME NEW cycles, NEW others, SameRun(others, cycles)
  PROVE  Follows(cycles, others)
<1> SUFFICES ASSUME NEW i \in DOMAIN cycles
             PROVE  /\ i \in DOMAIN others
                    /\ KeyOf(others[i]) = KeyOf(cycles[i])
                    /\ Projection(others[i]) = Projection(cycles[i])
  BY DEF Follows
<1>1. i \in DOMAIN others
  BY DEF SameRun
<1> QED
  BY <1>1, SameRunProjects DEF SameRun

(* AcceptanceIsSound for cases of any size: what the comparison of suites  *)
(* accepts, the reports of the tool over the other executors verify.  The  *)
(* final suite replays, so no cycle of it differs in the interpreter; it   *)
(* covers everything, so both accounts of coverage are complete; and it    *)
(* kills every mutant by a cycle that ran, which the others show too.      *)
THEOREM AcceptanceSound == RunRecorded => AcceptanceIsSound
<1> SUFFICES ASSUME RunRecorded, Ran, ProgramAgreed, MutantsAgreed, Accepted
             PROVE  Verified
  BY DEF AcceptanceIsSound
<1> DEFINE FinalJudged == Judged(final, traces.final)
           ManualJudged == Judged(manual, traces.manual)
           SearchJudged == Judged(synthesized, traces.synthesized)
           judgements == [manual |-> ManualJudged, synthesized |-> SearchJudged,
                          final |-> FinalJudged]
<1>1. AcceptancePassed(Nodes, Direct, Profile, traces.fitting, judgements)
  BY DEF Accepted
<1>2. /\ judgements.final = FinalJudged /\ judgements.manual = ManualJudged
      /\ judgements.synthesized = SearchJudged
  OBVIOUS
<1>3. /\ FinalJudged.replays = Replays(final, traces.final.cycles)
      /\ FinalJudged.covered =
           CoveredBy(Nodes, Air.contract, Direct, traces.final.cycles)
      /\ FinalJudged.verdicts =
           {Verdict(traces.final.mutants[m]) : m \in DOMAIN traces.final.mutants}
      /\ ManualJudged.verdicts =
           {Verdict(traces.manual.mutants[m]) : m \in DOMAIN traces.manual.mutants}
  BY DEF Judged, Judgement
<1> HIDE DEF FinalJudged, ManualJudged, SearchJudged, judgements
<1>4. /\ ~SuiteFails(FinalJudged)
      /\ FinalComplete(Nodes, Direct, FinalJudged)
      /\ ManualGatePassed(Profile, ManualJudged)
  BY <1>1, <1>2 DEF AcceptancePassed, ComparisonFails
<1>5. ExecutionRecorded(final, traces.final.cycles)
  BY DEF RunRecorded
<1>6. /\ DOMAIN traces.mutants = DOMAIN traces.final.mutants
      /\ DOMAIN traces.mutants = DOMAIN traces.manual.mutants
      /\ \A m \in DOMAIN traces.mutants :
           /\ ExecutionRecorded(final, traces.final.mutants[m])
           /\ ExecutionRecorded(manual, traces.manual.mutants[m])
  BY DEF RunRecorded, MutantsRecorded
<1>7. ~Detected(traces.reference, final)
  <2>1. \A i \in DOMAIN traces.final.cycles : ~Mismatch(traces.final.cycles[i])
    BY <1>3, <1>4 DEF SuiteFails, Replays
  <2> QED
    BY <1>5, <2>1, DetectedIsMismatch DEF ProgramAgreed
<1>8. /\ CoverageComplete(Nodes, traces.reference)
      /\ McdcComplete(Nodes, traces.reference)
  <2>1. AccountsAgree(CoveredBy(Nodes, Air.contract, Direct, traces.final.cycles))
    BY CoverageAccounts DEF CoverageIsObligations
  <2>2. CoveredBy(Nodes, Air.contract, Direct, traces.final.cycles) =
          Ids(Direct) \cup McdcObligations(Nodes)
    BY <1>3, <1>4 DEF FinalComplete
  <2>3. program.mcdc = McdcObligations(Nodes)
    BY DEF RunRecorded, ProgramRecorded
  <2>4. Structural(Direct) \subseteq Ids(Direct)
    BY DEF Structural
  <2> QED
    BY <2>1, <2>2, <2>3, <2>4 DEF AccountsAgree
<1>9. ASSUME ReportWritten, NEW m \in DOMAIN traces.mutants
      PROVE  KilledInReport(traces.mutants[m])
  <2>1. Verdict(traces.final.mutants[m]) = "killed"
    BY <1>3, <1>4, <1>6 DEF FinalComplete, AllKilled
  <2>2. /\ Follows(traces.final.mutants[m], traces.mutants[m].reference)
        /\ Follows(traces.final.mutants[m], traces.mutants[m].backend)
    BY <1>9, SameRunFollows DEF MutantsAgreed, ReportWritten
  <2> QED
    BY <1>6, <2>1, <2>2, KilledIsDetected
       DEF KilledInReport, DetectedByReference, DetectedByBackend
<1>10. ASSUME "gate" \in DOMAIN Profile, Profile.gate, NEW m \in DOMAIN traces.mutants
       PROVE  Detected(traces.mutants[m].manual, manual)
  <2>1. Verdict(traces.manual.mutants[m]) = "killed"
    BY <1>3, <1>4, <1>6, <1>10 DEF ManualGatePassed, AllKilled
  <2>2. Follows(traces.manual.mutants[m], traces.mutants[m].manual)
    BY DEF MutantsAgreed
  <2> QED
    BY <1>6, <2>1, <2>2, KilledIsDetected
<1> QED
  BY <1>7, <1>8, <1>9, <1>10 DEF Verified

-----------------------------------------------------------------------------
(* The runtime-fault policy.                                               *)

(* Memories satisfies the equation of its recursion.                       *)
LEMMA MemoriesRecursion ==
  ASSUME NEW memory, NEW place, NEW list
  PROVE  Memories(memory, place, list) =
           [n \in Nat |-> IF n = 0 THEN memory
                          ELSE AssignIn(Memories(memory, place, list)[n - 1],
                                        place, list[n])]
<1> DEFINE Next1(m, n) == AssignIn(m, place, list[n])
           Upto(f, m) ==
             \A n \in 0..m : f[n] = IF n = 0 THEN memory ELSE Next1(f[n - 1], n)
           Built == {m \in Nat : \E f : Upto(f, m)}
           Unique == {m \in Nat : \A f, g : Upto(f, m) /\ Upto(g, m) => f[m] = g[m]}
           Recursive(f) ==
             f = [n \in Nat |-> IF n = 0 THEN memory ELSE Next1(f[n - 1], n)]
           each == [n \in Nat |-> (CHOOSE f : Upto(f, n))[n]]
<1> HIDE DEF Next1
<1>1. ASSUME NEW m \in Nat PROVE \E f : Upto(f, m)
  <2>1. 0 \in Built
    <3>1. Upto([n \in Nat |-> memory], 0)
      OBVIOUS
    <3> QED
      BY <3>1
  <2>2. ASSUME NEW k \in Nat, k \in Built
        PROVE  k + 1 \in Built
    <3>1. PICK f : Upto(f, k)
      BY <2>2
    <3> DEFINE g == [n \in Nat |-> IF n <= k THEN f[n] ELSE Next1(f[k], n)]
    <3>2. Upto(g, k + 1)
      <4> SUFFICES ASSUME NEW n \in 0..(k + 1)
                   PROVE  g[n] = IF n = 0 THEN memory ELSE Next1(g[n - 1], n)
        OBVIOUS
      <4>1. CASE n <= k
        <5>1. g[n] = f[n] /\ n \in 0..k
          BY <4>1
        <5>2. n # 0 => g[n - 1] = f[n - 1]
          BY <4>1
        <5> HIDE DEF g
        <5> QED
          BY <3>1, <5>1, <5>2
      <4>2. CASE n = k + 1
        BY <4>2
      <4> QED
        BY <4>1, <4>2
    <3> HIDE DEF g, Upto
    <3> QED
      BY <3>2
  <2> QED
    <3> HIDE DEF Built
    <3>1. m \in Built
      BY <2>1, <2>2, SetInduction
    <3> QED
      BY <3>1 DEF Built
<1>2. ASSUME NEW m \in Nat, NEW f, NEW g, Upto(f, m), Upto(g, m)
      PROVE  f[m] = g[m]
  <2>1. 0 \in Unique
    OBVIOUS
  <2>2. ASSUME NEW k \in Nat, k \in Unique
        PROVE  k + 1 \in Unique
    <3>1. ASSUME NEW a, NEW b, Upto(a, k + 1), Upto(b, k + 1)
          PROVE  a[k + 1] = b[k + 1]
      <4>1. Upto(a, k) /\ Upto(b, k)
        <5>1. 0..k \subseteq 0..(k + 1)
          OBVIOUS
        <5> QED
          BY <3>1, <5>1, Zenon
      <4>2. a[k] = b[k]
        BY <2>2, <4>1
      <4> QED
        BY <3>1, <4>2
    <3> HIDE DEF Upto
    <3> QED
      BY <3>1
  <2> HIDE DEF Unique
  <2>3. m \in Unique
    BY <2>1, <2>2, SetInduction
  <2> QED
    BY <1>2, <2>3 DEF Unique
<1>3. ASSUME NEW m \in Nat PROVE Upto(CHOOSE f : Upto(f, m), m)
  <2> HIDE DEF Upto
  <2> QED
    BY <1>1, Zenon
<1>4. ASSUME NEW n \in Nat
      PROVE  each[n] = IF n = 0 THEN memory ELSE Next1(each[n - 1], n)
  <2> DEFINE h == CHOOSE f : Upto(f, n)
             g == CHOOSE f : Upto(f, n - 1)
  <2>1. Upto(h, n) /\ each[n] = h[n]
    BY <1>3
  <2>2. CASE n = 0
    <3> HIDE DEF h, each
    <3> QED
      BY <2>1, <2>2
  <2>3. CASE n # 0
    <3>1. n - 1 \in Nat
      BY <2>3
    <3>2. Upto(g, n - 1) /\ each[n - 1] = g[n - 1]
      BY <1>3, <3>1
    <3> HIDE DEF h, g, each
    <3>3. Upto(h, n - 1)
      BY <2>1
    <3>4. h[n - 1] = g[n - 1]
      BY <1>2, <3>1, <3>2, <3>3
    <3> QED
      BY <2>1, <2>3, <3>2, <3>4
  <2> QED
    BY <2>2, <2>3
<1>5. Recursive(each)
  <2>1. each = [n \in Nat |-> each[n]]
    OBVIOUS
  <2> HIDE DEF each
  <2> QED
    BY <1>4, <2>1
<1>6. Memories(memory, place, list) = CHOOSE f : Recursive(f)
  BY DEF Memories, Next1
<1> HIDE DEF Recursive, each
<1>7. Recursive(CHOOSE f : Recursive(f))
  BY <1>5, Zenon
<1> QED
  BY <1>6, <1>7 DEF Recursive, Next1

(* The memory of a cycle of a program with these states and outputs.       *)
IsMemory(memory, names) ==
  /\ memory = [retained |-> memory.retained, outputs |-> memory.outputs]
  /\ \A place \in {"retained", "outputs"} :
       memory[place] = [n \in names[place] |-> memory[place][n]]

(* The assignments write into this dictionary, and copy retained state.    *)
Fits(list, place, names) ==
  \A i \in DOMAIN list :
    /\ list[i].target \in names[place]
    /\ Copies(list[i]) => list[i].from \in names["retained"]

(* What validate_execution_contract asks of the lists of a policy.         *)
IsPolicy(policy, names, Assignments) ==
  /\ policy.retained \in Seq(Assignments) /\ policy.output \in Seq(Assignments)
  /\ Fits(policy.retained, "retained", names)
  /\ Fits(policy.output, "outputs", names)

(* What an assignment says of the memory.                                  *)
Says(memory, place, a) ==
  memory[place][a.target] =
    IF Copies(a) THEN memory["retained"][a.from] ELSE a.value

(* One assignment.                                                         *)
LEMMA OneAssignment ==
  ASSUME NEW names, NEW place \in {"retained", "outputs"}, NEW memory,
         IsMemory(memory, names), NEW a, a.target \in names[place],
         Copies(a) => a.from \in names["retained"]
  PROVE  LET new == AssignIn(memory, place, a)
         IN  /\ IsMemory(new, names)
             /\ Says(new, place, a)
             /\ \A p \in {"retained", "outputs"} : \A n \in names[p] :
                  p # place \/ n # a.target => new[p][n] = memory[p][n]
<1> DEFINE new == AssignIn(memory, place, a)
           v == IF Copies(a) THEN memory["retained"][a.from] ELSE a.value
<1>1. /\ memory = [retained |-> memory.retained, outputs |-> memory.outputs]
      /\ DOMAIN memory = {"retained", "outputs"}
  BY DEF IsMemory
<1>2. new = [p \in {"retained", "outputs"} |->
               IF p = place THEN [memory[p] EXCEPT ![a.target] = v] ELSE memory[p]]
  BY <1>1 DEF AssignIn
<1>3. \A p \in {"retained", "outputs"} :
        memory[p] = [n \in names[p] |-> memory[p][n]]
  BY DEF IsMemory
<1> HIDE DEF new, v
<1>4. new[place] = [n \in names[place] |->
                      IF n = a.target THEN v ELSE memory[place][n]]
  BY <1>2, <1>3
<1>5. \A p \in {"retained", "outputs"} : p # place => new[p] = memory[p]
  BY <1>2
<1>6. \A p \in {"retained", "outputs"} :
        new[p] = [n \in names[p] |-> new[p][n]]
  <2> TAKE p \in {"retained", "outputs"}
  <2>1. CASE p = place
    BY <1>4, <2>1
  <2>2. CASE p # place
    <3>1. new[p] = memory[p]
      BY <1>5, <2>2
    <3>2. memory[p] = [n \in names[p] |-> memory[p][n]]
      BY <1>3
    <3> QED
      BY <3>1, <3>2, Zenon
  <2> QED
    BY <2>1, <2>2
<1>7. new = [retained |-> new.retained, outputs |-> new.outputs]
  BY <1>2
<1>8. IsMemory(new, names)
  BY <1>6, <1>7 DEF IsMemory
<1>9. \A p \in {"retained", "outputs"} : \A n \in names[p] :
        p # place \/ n # a.target => new[p][n] = memory[p][n]
  BY <1>4, <1>5
<1>10. new[place][a.target] = v
  BY <1>4
<1>11. Copies(a) => new["retained"][a.from] = memory["retained"][a.from]
  <2>1. CASE place = "retained" /\ a.from = a.target /\ Copies(a)
    BY <1>10, <2>1 DEF v
  <2>2. CASE Copies(a) /\ ~(place = "retained" /\ a.from = a.target)
    BY <1>9, <2>2
  <2> QED
    BY <2>1, <2>2
<1>12. Says(new, place, a)
  BY <1>10, <1>11 DEF Says, v
<1> QED
  BY <1>8, <1>9, <1>12 DEF new

(* After a list of assignments, what none of them names is as it was, and  *)
(* what each of them says is true of the memory at the end, unless one     *)
(* overwrites what an earlier one has copied.                              *)
LEMMA AllAssigned ==
  ASSUME NEW Assignments, NEW list \in Seq(Assignments), NEW names,
         NEW place \in {"retained", "outputs"}, NEW memory,
         IsMemory(memory, names), Fits(list, place, names)
  PROVE  LET end == Applied(memory, place, list)
         IN  /\ IsMemory(end, names)
             /\ \A p \in {"retained", "outputs"} : \A n \in names[p] :
                  p # place \/ (\A i \in DOMAIN list : n # list[i].target)
                    => end[p][n] = memory[p][n]
             /\ /\ TargetsDistinct(list)
                /\ place = "retained" => ~CopyOverwritten(list)
                => \A i \in DOMAIN list : Says(end, place, list[i])
<1> DEFINE M == Memories(memory, place, list)
           Kept1(n) ==
             \A p \in {"retained", "outputs"} : \A x \in names[p] :
               p # place \/ (\A i \in 1..n : x # list[i].target)
                 => M[n][p][x] = memory[p][x]
           Strict == /\ TargetsDistinct(list)
                     /\ place = "retained" => ~CopyOverwritten(list)
           Said(n) == Strict => \A i \in 1..n : Says(M[n], place, list[i])
           Good == {n \in Nat : n <= Len(list) =>
                      IsMemory(M[n], names) /\ Kept1(n) /\ Said(n)}
<1>1. /\ M[0] = memory
      /\ \A n \in Nat : M[n + 1] = AssignIn(M[n], place, list[n + 1])
  <2>1. \A n \in Nat : M[n] = IF n = 0 THEN memory
                              ELSE AssignIn(M[n - 1], place, list[n])
    <3>1. M = [n \in Nat |-> IF n = 0 THEN memory
                             ELSE AssignIn(M[n - 1], place, list[n])]
      BY MemoriesRecursion
    <3> HIDE DEF M
    <3> QED
      BY <3>1
  <2> HIDE DEF M
  <2>2. ASSUME NEW n \in Nat PROVE M[n + 1] = AssignIn(M[n], place, list[n + 1])
    <3>1. n + 1 \in Nat /\ n + 1 # 0 /\ (n + 1) - 1 = n
      OBVIOUS
    <3> QED
      BY <2>1, <3>1
  <2> QED
    BY <2>1, <2>2
<1> HIDE DEF M
<1>2. Len(list) \in Nat /\ DOMAIN list = 1..Len(list)
  OBVIOUS
<1>3. 0 \in Good
  BY <1>1
<1>4. ASSUME NEW k \in Nat, k \in Good PROVE k + 1 \in Good
  <2> SUFFICES ASSUME k + 1 <= Len(list)
               PROVE  IsMemory(M[k + 1], names) /\ Kept1(k + 1) /\ Said(k + 1)
    OBVIOUS
  <2> DEFINE a == list[k + 1]
             new == M[k + 1]
             old == M[k]
  <2>1. IsMemory(old, names) /\ Kept1(k) /\ Said(k)
    BY <1>2, <1>4
  <2>2. /\ k + 1 \in DOMAIN list /\ a.target \in names[place]
        /\ Copies(a) => a.from \in names["retained"]
    BY <1>2 DEF Fits
  <2>3. new = AssignIn(old, place, a)
    BY <1>1
  <2> HIDE DEF a, new, old
  <2>4. /\ IsMemory(new, names) /\ Says(new, place, a)
        /\ \A p \in {"retained", "outputs"} : \A n \in names[p] :
             p # place \/ n # a.target => new[p][n] = old[p][n]
    BY <2>1, <2>2, <2>3, OneAssignment
  <2>5. Kept1(k + 1)
    <3> SUFFICES ASSUME NEW p \in {"retained", "outputs"}, NEW x \in names[p],
                        p # place \/ (\A i \in 1..(k + 1) : x # list[i].target)
                 PROVE  new[p][x] = memory[p][x]
      BY DEF new
    <3>1. p # place \/ (\A i \in 1..k : x # list[i].target)
      OBVIOUS
    <3>2. old[p][x] = memory[p][x]
      BY <2>1, <3>1 DEF old
    <3>3. p # place \/ x # a.target
      BY DEF a
    <3> QED
      BY <2>4, <3>2, <3>3
  <2>6. Said(k + 1)
    <3> SUFFICES ASSUME Strict, NEW i \in 1..(k + 1)
                 PROVE  Says(new, place, list[i])
      BY DEF new
    <3>1. CASE i = k + 1
      BY <2>4, <3>1 DEF a
    <3>2. CASE i # k + 1
      <4>1. i \in 1..k /\ i \in DOMAIN list /\ i < k + 1
        BY <1>2, <3>2
      <4>2. Says(old, place, list[i])
        BY <2>1, <4>1 DEF old
      <4>3. /\ list[i].target \in names[place]
            /\ Copies(list[i]) => list[i].from \in names["retained"]
        BY <4>1 DEF Fits
      <4>4. list[i].target # a.target
        BY <2>2, <4>1 DEF TargetsDistinct, a
      <4>5. Copies(list[i]) => place # "retained" \/ list[i].from # a.target
        BY <2>2, <4>1 DEF CopyOverwritten, a
      <4>6. new[place][list[i].target] = old[place][list[i].target]
        BY <2>4, <4>3, <4>4
      <4>7. Copies(list[i]) =>
              new["retained"][list[i].from] = old["retained"][list[i].from]
        BY <2>4, <4>3, <4>5
      <4> QED
        BY <4>2, <4>6, <4>7 DEF Says
    <3> QED
      BY <3>1, <3>2
  <2> QED
    BY <2>4, <2>5, <2>6 DEF new
<1>5. Len(list) \in Good
  <2> HIDE DEF Good
  <2> QED
    BY <1>2, <1>3, <1>4, SetInduction
<1>6. Applied(memory, place, list) = M[Len(list)]
  BY DEF Applied, M
<1> QED
  BY <1>2, <1>5, <1>6

(* The two lists of a policy act one after the other, the second on the    *)
(* outputs only.                                                           *)
LEMMA PolicyActs ==
  ASSUME NEW Assignments, NEW policy, NEW names, NEW memory,
         IsMemory(memory, names), IsPolicy(policy, names, Assignments)
  PROVE  /\ IsMemory(Applied(memory, "retained", policy.retained), names)
         /\ IsMemory(UnderPolicy(policy, memory), names)
         /\ Applied(memory, "retained", policy.retained).outputs = memory.outputs
         /\ UnderPolicy(policy, memory).retained
              = Applied(memory, "retained", policy.retained).retained
<1> DEFINE mid == Applied(memory, "retained", policy.retained)
           end == UnderPolicy(policy, memory)
<1>1. /\ IsMemory(mid, names)
      /\ \A n \in names["outputs"] : mid["outputs"][n] = memory["outputs"][n]
  BY AllAssigned DEF IsPolicy
<1>2. end = Applied(mid, "outputs", policy.output)
  BY DEF UnderPolicy
<1> HIDE DEF mid, end
<1>3. /\ IsMemory(end, names)
      /\ \A n \in names["retained"] : end["retained"][n] = mid["retained"][n]
  BY <1>1, <1>2, AllAssigned DEF IsPolicy
<1>4. mid["outputs"] = memory["outputs"]
  <2>1. /\ mid["outputs"] = [n \in names["outputs"] |-> mid["outputs"][n]]
        /\ memory["outputs"] = [n \in names["outputs"] |-> memory["outputs"][n]]
    BY <1>1 DEF IsMemory
  <2> QED
    BY <1>1, <2>1
<1>5. end["retained"] = mid["retained"]
  <2>1. /\ mid["retained"] = [n \in names["retained"] |-> mid["retained"][n]]
        /\ end["retained"] = [n \in names["retained"] |-> end["retained"][n]]
    BY <1>1, <1>3 DEF IsMemory
  <2> QED
    BY <1>3, <2>1
<1> QED
  BY <1>1, <1>3, <1>4, <1>5 DEF mid, end

(* Every faulted cycle hits the obligation of the conservative outputs,    *)
(* whatever its stages left: _conservative_output_matches finds each value *)
(* of the policy where execute_cycle has assigned it, unless a retained    *)
(* assignment overwrites what an earlier one has copied.  IsPolicy and     *)
(* TargetsDistinct are what validate_execution_contract asks of a policy,  *)
(* and IsMemory holds of what the two stages leave.                        *)
THEOREM FaultsAreConservative ==
  ASSUME NEW Assignments, NEW policy, NEW names, NEW memory, NEW c,
         IsMemory(memory, names), IsPolicy(policy, names, Assignments),
         TargetsDistinct(policy.retained), TargetsDistinct(policy.output),
         ~CopyOverwritten(policy.retained),
         c.committed = UnderPolicy(policy, memory).retained,
         c.outputs = UnderPolicy(policy, memory).outputs
  PROVE  <<"conservative">> \in CycleEvents(policy, c, TRUE)
<1> DEFINE mid == Applied(memory, "retained", policy.retained)
           end == UnderPolicy(policy, memory)
<1>1. /\ IsMemory(mid, names) /\ end.retained = mid.retained
  BY PolicyActs
<1>2. \A i \in DOMAIN policy.retained : Says(mid, "retained", policy.retained[i])
  BY AllAssigned DEF IsPolicy
<1>3. end = Applied(mid, "outputs", policy.output)
  BY DEF UnderPolicy
<1>4. c.committed = end.retained /\ c.outputs = end.outputs
  OBVIOUS
<1> HIDE DEF mid, end
<1>5. \A i \in DOMAIN policy.output : Says(end, "outputs", policy.output[i])
  BY <1>1, <1>3, AllAssigned DEF IsPolicy
<1>6. \A a \in ToSet(policy.retained) : Matches(c.committed, c.committed, a)
  BY <1>1, <1>2, <1>4 DEF ToSet, Says, Matches
<1>7. \A a \in ToSet(policy.output) : Matches(c.outputs, c.committed, a)
  BY <1>4, <1>5 DEF ToSet, Says, Matches
<1>8. ConservativeOutputMatches(policy, c)
  BY <1>6, <1>7 DEF ConservativeOutputMatches
<1>9. <<"conservative">> \in FaultEvents(policy, c, TRUE)
  BY <1>8 DEF FaultEvents
<1> QED
  BY <1>9 DEF CycleEvents

(* The policy overrides and does not undo: a retained variable or an       *)
(* output that it does not name keeps the value of the faulted cycle.      *)
THEOREM FaultsOnlyOverride ==
  ASSUME NEW Assignments, NEW policy, NEW names, NEW memory,
         IsMemory(memory, names), IsPolicy(policy, names, Assignments)
  PROVE  LET end == UnderPolicy(policy, memory)
         IN  /\ \A n \in names["retained"] :
                  (\A a \in ToSet(policy.retained) : n # a.target)
                    => end.retained[n] = memory.retained[n]
             /\ \A n \in names["outputs"] :
                  (\A a \in ToSet(policy.output) : n # a.target)
                    => end.outputs[n] = memory.outputs[n]
<1> DEFINE mid == Applied(memory, "retained", policy.retained)
           end == UnderPolicy(policy, memory)
<1>1. /\ IsMemory(mid, names) /\ end.retained = mid.retained
      /\ mid.outputs = memory.outputs
  BY PolicyActs
<1>2. \A n \in names["retained"] :
        (\A i \in DOMAIN policy.retained : n # policy.retained[i].target)
          => mid["retained"][n] = memory["retained"][n]
  BY AllAssigned DEF IsPolicy
<1>3. end = Applied(mid, "outputs", policy.output)
  BY DEF UnderPolicy
<1> HIDE DEF mid, end
<1>4. \A n \in names["outputs"] :
        (\A i \in DOMAIN policy.output : n # policy.output[i].target)
          => end["outputs"][n] = mid["outputs"][n]
  BY <1>1, <1>3, AllAssigned DEF IsPolicy
<1>5. \A n \in names["retained"] :
        (\A a \in ToSet(policy.retained) : n # a.target)
          => end.retained[n] = memory.retained[n]
  BY <1>1, <1>2 DEF ToSet
<1>6. \A n \in names["outputs"] :
        (\A a \in ToSet(policy.output) : n # a.target)
          => end.outputs[n] = memory.outputs[n]
  BY <1>1, <1>4 DEF ToSet
<1> QED
  BY <1>5, <1>6 DEF end
=============================================================================
