------------------------ MODULE BoundedSynthesis_proofs ------------------------
(***************************************************************************)
(* Proofs about BoundedSynthesis, for every set of programs and bounds:    *)
(* the witnesses are genuine and shortest, the verdict of a report is that *)
(* of the program itself, and a reported limit was in the way.             *)
(***************************************************************************)
EXTENDS BoundedSynthesis, FiniteSetTheorems, WellFoundedInduction, TLAPS

-----------------------------------------------------------------------------
(* Induction over a set of numbers                                         *)

LEMMA LeastNatural ==
  ASSUME NEW T, T \subseteq Nat, T # {}
  PROVE  \E n \in T : \A m \in T : n <= m
<1> DEFINE R == OpToRel(<, Nat)
<1>1. IsWellFoundedOn(R, Nat)
  BY NatLessThanWellFounded
<1>2. R = {ss \in Nat \X Nat : ss[1] < ss[2]}
  BY DEF OpToRel
<1> HIDE DEF R
<1>3. PICK n \in T : \A m \in T : <<m, n>> \notin R
  BY <1>1, WFMin
<1>4. ASSUME NEW m \in T PROVE n <= m
  <2>1. <<m, n>> \in Nat \X Nat /\ <<m, n>> \notin R
    BY <1>3
  <2>2. ~(m < n)
    BY <1>2, <2>1
  <2> QED
    BY <2>2
<1> QED
  BY <1>4

LEMMA SetInduction ==
  ASSUME NEW T, 0 \in T, \A n \in Nat : n \in T => n + 1 \in T
  PROVE  \A n \in Nat : n \in T
<1> SUFFICES ASSUME NEW k \in Nat, k \notin T PROVE FALSE
  OBVIOUS
<1>1. PICK n \in Nat \ T : \A m \in Nat \ T : n <= m
  BY LeastNatural
<1>2. n # 0 /\ n - 1 \in Nat /\ n - 1 \in T
  BY <1>1
<1> QED
  BY <1>1, <1>2

-----------------------------------------------------------------------------
(* Layers and runs                                                         *)

(* Layer satisfies the equation of its recursion: the partial solutions up *)
(* to each number exist and agree.                                         *)
LEMMA LayerRecursion ==
  ASSUME NEW p
  PROVE  Layer(p) = [n \in Nat |-> IF n = 0 THEN {p.initial}
                                   ELSE Reached(p, Layer(p)[n - 1])]
<1> DEFINE Upto(f, m) == 
             \A n \in 0..m : f[n] = IF n = 0 THEN {p.initial}
                                    ELSE Reached(p, f[n - 1])
           Built == {m \in Nat : \E f : Upto(f, m)}
           Unique == {m \in Nat : \A f, g : Upto(f, m) /\ Upto(g, m) => f[m] = g[m]}
           Recursive(f) == f = [n \in Nat |-> IF n = 0 THEN {p.initial}
                                              ELSE Reached(p, f[n - 1])]
           layer == [n \in Nat |-> (CHOOSE f : Upto(f, n))[n]]
<1>1. ASSUME NEW m \in Nat PROVE \E f : Upto(f, m)
  <2>1. 0 \in Built
    <3>1. Upto([n \in Nat |-> {p.initial}], 0)
      OBVIOUS
    <3> QED
      BY <3>1
  <2>2. ASSUME NEW k \in Nat, k \in Built
        PROVE  k + 1 \in Built
    <3>1. PICK f : Upto(f, k)
      BY <2>2
    <3> DEFINE g == [n \in Nat |-> IF n <= k THEN f[n] ELSE Reached(p, f[k])]
    <3>2. Upto(g, k + 1)
      <4> SUFFICES ASSUME NEW n \in 0..(k + 1)
                   PROVE  g[n] = IF n = 0 THEN {p.initial} ELSE Reached(p, g[n - 1])
        OBVIOUS
      <4>1. CASE n <= k
        <5>1. g[n] = f[n] /\ n \in 0..k
          BY <4>1
        <5>2. n # 0 => g[n - 1] = f[n - 1]
          BY <4>1
        <5> HIDE DEF g
        <5> QED
          BY <3>1, <5>1, <5>2
      <4>2. CASE n = k + 1
        BY <4>2
      <4> QED
        BY <4>1, <4>2
    <3> HIDE DEF g, Upto
    <3> QED
      BY <3>2
  <2> QED
    <3> HIDE DEF Built
    <3>1. m \in Built
      BY <2>1, <2>2, SetInduction
    <3> QED
      BY <3>1 DEF Built
<1>2. ASSUME NEW m \in Nat, NEW f, NEW g, Upto(f, m), Upto(g, m)
      PROVE  f[m] = g[m]
  <2>1. 0 \in Unique
    OBVIOUS
  <2>2. ASSUME NEW k \in Nat, k \in Unique
        PROVE  k + 1 \in Unique
    <3>1. ASSUME NEW a, NEW b, Upto(a, k + 1), Upto(b, k + 1)
          PROVE  a[k + 1] = b[k + 1]
      <4>1. Upto(a, k) /\ Upto(b, k)
        <5>1. 0..k \subseteq 0..(k + 1)
          OBVIOUS
        <5> QED
          BY <3>1, <5>1, Zenon
      <4>2. a[k] = b[k]
        BY <2>2, <4>1
      <4> QED
        BY <3>1, <4>2
    <3> HIDE DEF Upto
    <3> QED
      BY <3>1
  <2> HIDE DEF Unique
  <2>3. m \in Unique
    BY <2>1, <2>2, SetInduction
  <2> QED
    BY <1>2, <2>3 DEF Unique
<1>3. ASSUME NEW m \in Nat PROVE Upto(CHOOSE f : Upto(f, m), m)
  <2> HIDE DEF Upto
  <2> QED
    BY <1>1, Zenon
<1>4. ASSUME NEW n \in Nat
      PROVE  layer[n] = IF n = 0 THEN {p.initial}
                        ELSE Reached(p, layer[n - 1])
  <2> DEFINE h == CHOOSE f : Upto(f, n)
             g == CHOOSE f : Upto(f, n - 1)
  <2>1. Upto(h, n) /\ layer[n] = h[n]
    BY <1>3
  <2>2. CASE n = 0
    <3> HIDE DEF h, layer
    <3> QED
      BY <2>1, <2>2
  <2>3. CASE n # 0
    <3>1. n - 1 \in Nat
      BY <2>3
    <3>2. Upto(g, n - 1) /\ layer[n - 1] = g[n - 1]
      BY <1>3, <3>1
    <3> HIDE DEF h, g, layer
    <3>3. Upto(h, n - 1)
      BY <2>1
    <3>4. h[n - 1] = g[n - 1]
      BY <1>2, <3>1, <3>2, <3>3
    <3> QED
      BY <2>1, <2>3, <3>2, <3>4
  <2> QED
    BY <2>2, <2>3
<1>5. Recursive(layer)
  <2>1. layer = [n \in Nat |-> layer[n]]
    OBVIOUS
  <2> HIDE DEF layer
  <2> QED
    BY <1>4, <2>1
<1>6. Layer(p) = CHOOSE f : Recursive(f)
  BY DEF Layer
<1> HIDE DEF Recursive, layer
<1>7. Recursive(CHOOSE f : Recursive(f))
  BY <1>5, Zenon
<1> QED
  BY <1>6, <1>7 DEF Recursive

LEMMA LayerZero ==
  ASSUME NEW p
  PROVE  Layer(p)[0] = {p.initial}
BY LayerRecursion, 0 \in Nat

LEMMA LayerNext ==
  ASSUME NEW p, NEW n \in Nat
  PROVE  Layer(p)[n + 1] = Reached(p, Layer(p)[n])
<1>1. n + 1 \in Nat /\ n + 1 # 0 /\ (n + 1) - 1 = n
  OBVIOUS
<1> QED
  BY <1>1, LayerRecursion

(* One more cycle.                                                         *)
LEMMA LayerStep ==
  ASSUME NEW p, NEW n \in Nat, NEW state \in Layer(p)[n],
         NEW c \in Candidates(p), p.next[<<state, c>>] # Raised
  PROVE  p.next[<<state, c>>] \in Layer(p)[n + 1]
BY LayerNext DEF Reached

LEMMA LayerBack ==
  ASSUME NEW p, NEW n \in Nat, NEW state \in Layer(p)[n + 1]
  PROVE  \E before \in Layer(p)[n], c \in Candidates(p) :
           state = p.next[<<before, c>>] /\ state # Raised
BY LayerNext DEF Reached

(* The states along a path, as the recursion of After defines them.        *)
IsRun(p, path, run) ==
  run = [n \in 0..Len(path) |->
           IF n = 0 THEN p.initial ELSE p.next[<<run[n - 1], path[n]>>]]

LEMMA RunIsAfter ==
  ASSUME NEW p, NEW path, Len(path) \in Nat, NEW run, IsRun(p, path, run)
  PROVE  After(p, path) = run
<1> DEFINE Run(f) == f = [n \in 0..Len(path) |->
                            IF n = 0 THEN p.initial
                            ELSE p.next[<<f[n - 1], path[n]>>]]
           f == After(p, path)
           Agreed == {n \in Nat : n \in 0..Len(path) => f[n] = run[n]}
<1>1. Run(run)
  BY DEF IsRun
<1>2. f = CHOOSE g : Run(g)
  BY DEF After
<1>3. Run(f)
  <2> HIDE DEF Run, f
  <2>1. Run(CHOOSE g : Run(g))
    BY <1>1, Zenon
  <2> QED
    BY <1>2, <2>1
<1> HIDE DEF f
<1>4. \A n \in 0..Len(path) :
        /\ f[n] = IF n = 0 THEN p.initial ELSE p.next[<<f[n - 1], path[n]>>]
        /\ run[n] = IF n = 0 THEN p.initial ELSE p.next[<<run[n - 1], path[n]>>]
  BY <1>1, <1>3
<1>5. 0 \in Agreed
  BY <1>4
<1>6. ASSUME NEW n \in Nat, n \in Agreed
      PROVE  n + 1 \in Agreed
  <2> SUFFICES ASSUME n + 1 \in 0..Len(path)
               PROVE  f[n + 1] = run[n + 1]
    OBVIOUS
  <2>1. n \in 0..Len(path) /\ n + 1 # 0 /\ (n + 1) - 1 = n
    OBVIOUS
  <2>2. f[n] = run[n]
    BY <1>6, <2>1
  <2>3. /\ f[n + 1] = p.next[<<f[(n + 1) - 1], path[n + 1]>>]
        /\ run[n + 1] = p.next[<<run[(n + 1) - 1], path[n + 1]>>]
    BY <1>4, <2>1
  <2> QED
    BY <2>1, <2>2, <2>3
<1>7. \A n \in 0..Len(path) : f[n] = run[n]
  <2> HIDE DEF Agreed
  <2>1. \A n \in Nat : n \in Agreed
    BY <1>5, <1>6, SetInduction
  <2> QED
    BY <2>1 DEF Agreed
<1>8. /\ f = [n \in 0..Len(path) |-> f[n]]
      /\ run = [n \in 0..Len(path) |-> run[n]]
  <2> HIDE DEF Agreed
  <2> QED
    BY <1>1, <1>3
<1>9. f = run
  <2> HIDE DEF Run, Agreed
  <2> QED
    BY <1>7, <1>8
<1> QED
  BY <1>9 DEF f

(* A path of accepted cycles from the initial state to a state.            *)
Leads(p, path, state) ==
  /\ path \in Seq(Candidates(p))
  /\ \E run : /\ IsRun(p, path, run)
              /\ run[Len(path)] = state
              /\ \A n \in 1..Len(path) : run[n] # Raised

LEMMA EmptyPathLeads ==
  ASSUME NEW p
  PROVE  Leads(p, <<>>, p.initial)
<1> DEFINE run == [n \in 0..0 |-> p.initial]
<1>1. IsRun(p, <<>>, run)
  BY DEF IsRun
<1> QED
  BY <1>1 DEF Leads

(* The run of a longer path.                                               *)
LEMMA RunExtends ==
  ASSUME NEW p, NEW path \in Seq(Candidates(p)), NEW c \in Candidates(p),
         NEW run, IsRun(p, path, run)
  PROVE  \E longer :
           /\ IsRun(p, Append(path, c), longer)
           /\ \A n \in 0..Len(path) : longer[n] = run[n]
           /\ longer[Len(path) + 1] = p.next[<<run[Len(path)], c>>]
<1> DEFINE l == Len(path)
           last == p.next[<<run[l], c>>]
           longer == [n \in 0..(l + 1) |-> IF n <= l THEN run[n] ELSE last]
<1>1. /\ l \in Nat /\ Len(Append(path, c)) = l + 1
      /\ \A n \in 1..l : Append(path, c)[n] = path[n]
      /\ Append(path, c)[l + 1] = c
  OBVIOUS
<1>2. \A n \in 0..l :
        run[n] = IF n = 0 THEN p.initial ELSE p.next[<<run[n - 1], path[n]>>]
  BY DEF IsRun
<1>3. /\ \A n \in 0..l : longer[n] = run[n]
      /\ longer[l + 1] = last
      /\ longer = [n \in 0..(l + 1) |-> longer[n]]
  BY <1>1
<1> HIDE DEF longer
<1>4. ASSUME NEW n \in 0..(l + 1)
      PROVE  longer[n] = IF n = 0 THEN p.initial
                         ELSE p.next[<<longer[n - 1], Append(path, c)[n]>>]
  <2>1. CASE n = 0
    <3>1. 0 \in 0..l
      BY <1>1
    <3>2. longer[0] = run[0] /\ run[0] = p.initial
      BY <1>2, <1>3, <3>1
    <3> QED
      BY <2>1, <3>2
  <2>2. CASE n \in 1..l
    <3>1. n - 1 \in 0..l /\ n \in 0..l /\ n # 0
      BY <1>1, <2>2
    <3>2. /\ longer[n] = run[n] /\ longer[n - 1] = run[n - 1]
          /\ Append(path, c)[n] = path[n]
      BY <1>1, <1>3, <2>2, <3>1
    <3> QED
      BY <1>2, <3>1, <3>2
  <2>3. CASE n = l + 1
    <3>1. n - 1 = l /\ l \in 0..l /\ n # 0
      BY <1>1, <2>3
    <3> QED
      BY <1>1, <1>3, <2>3, <3>1
  <2> QED
    BY <1>1, <2>1, <2>2, <2>3
<1>5. IsRun(p, Append(path, c), longer)
  <2> HIDE DEF l, last
  <2> QED
    BY <1>1, <1>3, <1>4 DEF IsRun
<1> QED
  BY <1>3, <1>5

LEMMA LeadsFurther ==
  ASSUME NEW p, NEW path, NEW state, NEW c \in Candidates(p),
         Leads(p, path, state), p.next[<<state, c>>] # Raised
  PROVE  Leads(p, Append(path, c), p.next[<<state, c>>])
<1>1. path \in Seq(Candidates(p))
  BY DEF Leads
<1>2. PICK run : /\ IsRun(p, path, run) /\ run[Len(path)] = state
                 /\ \A n \in 1..Len(path) : run[n] # Raised
  BY DEF Leads
<1>3. PICK longer : /\ IsRun(p, Append(path, c), longer)
                    /\ \A n \in 0..Len(path) : longer[n] = run[n]
                    /\ longer[Len(path) + 1] = p.next[<<run[Len(path)], c>>]
  BY <1>1, <1>2, RunExtends
<1>4. /\ Append(path, c) \in Seq(Candidates(p))
      /\ Len(Append(path, c)) = Len(path) + 1 /\ Len(path) \in Nat
  BY <1>1
<1>5. \A n \in 1..(Len(path) + 1) : longer[n] # Raised
  <2> SUFFICES ASSUME NEW n \in 1..(Len(path) + 1)
               PROVE  longer[n] # Raised
    OBVIOUS
  <2>1. CASE n = Len(path) + 1
    BY <1>2, <1>3, <2>1
  <2>2. CASE n \in 1..Len(path)
    BY <1>2, <1>3, <1>4, <2>2
  <2> QED
    BY <1>4, <2>1, <2>2
<1> QED
  BY <1>2, <1>3, <1>4, <1>5 DEF Leads

(* The state after n accepted cycles is in the n-th layer.                 *)
LEMMA LeadsIntoLayer ==
  ASSUME NEW p, NEW path, NEW state, Leads(p, path, state)
  PROVE  state \in Layer(p)[Len(path)]
<1>1. path \in Seq(Candidates(p)) /\ Len(path) \in Nat
  BY DEF Leads
<1>2. PICK run : /\ IsRun(p, path, run) /\ run[Len(path)] = state
                 /\ \A n \in 1..Len(path) : run[n] # Raised
  BY DEF Leads
<1> DEFINE Inside == {n \in Nat : n \in 0..Len(path) => run[n] \in Layer(p)[n]}
<1>3. \A n \in 0..Len(path) :
        run[n] = IF n = 0 THEN p.initial ELSE p.next[<<run[n - 1], path[n]>>]
  BY <1>2 DEF IsRun
<1>4. 0 \in Inside
  BY <1>3, LayerZero
<1>5. ASSUME NEW n \in Nat, n \in Inside
      PROVE  n + 1 \in Inside
  <2> SUFFICES ASSUME n + 1 \in 0..Len(path)
               PROVE  run[n + 1] \in Layer(p)[n + 1]
    OBVIOUS
  <2>1. /\ n \in 0..Len(path) /\ n + 1 \in 1..Len(path)
        /\ n + 1 # 0 /\ (n + 1) - 1 = n
    BY <1>1
  <2>2. run[n] \in Layer(p)[n]
    BY <1>5, <2>1
  <2>3. run[n + 1] = p.next[<<run[(n + 1) - 1], path[n + 1]>>]
    BY <1>3, <2>1
  <2>4. run[n + 1] # Raised /\ path[n + 1] \in Candidates(p)
    BY <1>1, <1>2, <2>1
  <2> HIDE DEF Inside
  <2> QED
    BY <2>1, <2>2, <2>3, <2>4, LayerStep
<1> HIDE DEF Inside
<1>6. \A n \in Nat : n \in Inside
  BY <1>4, <1>5, SetInduction
<1>7. Len(path) \in Inside /\ Len(path) \in 0..Len(path)
  BY <1>1, <1>6
<1> QED
  BY <1>2, <1>7 DEF Inside

(* What a replay of a path to a state and one more cycle meets.            *)
LEMMA ReplayFurther ==
  ASSUME NEW p, NEW path, NEW state, NEW c \in Candidates(p),
         Leads(p, path, state), p.next[<<state, c>>] # Raised
  PROVE  LET longer == Append(path, c)
         IN  /\ longer # <<>> /\ Len(longer) = Len(path) + 1
             /\ longer[Len(longer)] = c
             /\ After(p, longer)[Len(longer) - 1] = state
             /\ \A n \in 1..Len(longer) : After(p, longer)[n] # Raised
<1>1. path \in Seq(Candidates(p)) /\ Len(path) \in Nat
  BY DEF Leads
<1>2. PICK run : /\ IsRun(p, path, run) /\ run[Len(path)] = state
                 /\ \A n \in 1..Len(path) : run[n] # Raised
  BY DEF Leads
<1>3. PICK further : /\ IsRun(p, Append(path, c), further)
                     /\ \A n \in 0..Len(path) : further[n] = run[n]
                     /\ further[Len(path) + 1] = p.next[<<run[Len(path)], c>>]
  BY <1>1, <1>2, RunExtends
<1>4. /\ Append(path, c) # <<>> /\ Len(Append(path, c)) = Len(path) + 1
      /\ Append(path, c)[Len(path) + 1] = c
      /\ Len(Append(path, c)) \in Nat
  BY <1>1
<1>5. After(p, Append(path, c)) = further
  BY <1>3, <1>4, RunIsAfter
<1>6. (Len(path) + 1) - 1 = Len(path) /\ Len(path) \in 0..Len(path)
  BY <1>1
<1>7. \A n \in 1..(Len(path) + 1) : further[n] # Raised
  <2> SUFFICES ASSUME NEW n \in 1..(Len(path) + 1)
               PROVE  further[n] # Raised
    OBVIOUS
  <2>1. CASE n = Len(path) + 1
    BY <1>2, <1>3, <2>1
  <2>2. CASE n \in 1..Len(path)
    <3>1. n \in 0..Len(path)
      BY <1>1, <2>2
    <3> QED
      BY <1>2, <1>3, <2>2, <3>1
  <2> QED
    BY <1>1, <2>1, <2>2
<1> QED
  BY <1>2, <1>3, <1>4, <1>5, <1>6, <1>7

-----------------------------------------------------------------------------
(* The states within reach are finitely many                               *)

Within(p, n) == UNION {Layer(p)[k] : k \in 0..n}

LEMMA LayerFinite ==
  ASSUME NEW p, p.vectors \in Nat
  PROVE  \A n \in Nat : IsFiniteSet(Layer(p)[n])
<1> DEFINE Finite == {n \in Nat : IsFiniteSet(Layer(p)[n])}
<1>1. 0 \in Finite
  <2>1. IsFiniteSet({p.initial})
    BY FS_Singleton, Zenon
  <2> QED
    BY <2>1, LayerZero
<1>2. ASSUME NEW n \in Nat, n \in Finite
      PROVE  n + 1 \in Finite
  <2> DEFINE cells == Layer(p)[n] \X Candidates(p)
             image == {p.next[cell] : cell \in cells}
             f == [cell \in cells |-> p.next[cell]]
  <2>1. IsFiniteSet(Candidates(p))
    BY FS_Interval DEF Candidates
  <2>2. IsFiniteSet(cells)
    BY <1>2, <2>1, FS_Product
  <2>3. f \in Surjection(cells, image)
    BY DEF Surjection
  <2>4. IsFiniteSet(image)
    <3> HIDE DEF cells, image, f
    <3> QED
      BY <2>2, <2>3, FS_Surjection
  <2>5. Layer(p)[n + 1] \in SUBSET image
    BY LayerNext DEF Reached
  <2>6. IsFiniteSet(Layer(p)[n + 1])
    <3> HIDE DEF image
    <3> QED
      BY <2>4, <2>5, FS_Subset
  <2> QED
    BY <2>6
<1> HIDE DEF Finite
<1>3. \A n \in Nat : n \in Finite
  BY <1>1, <1>2, SetInduction
<1> QED
  BY <1>3 DEF Finite

LEMMA WithinFinite ==
  ASSUME NEW p, p.vectors \in Nat, NEW n \in Nat
  PROVE  IsFiniteSet(Within(p, n))
<1> DEFINE Finite == {m \in Nat : IsFiniteSet(Within(p, m))}
<1>1. 0 \in Finite
  <2>1. 0..0 = {0}
    OBVIOUS
  <2>2. Within(p, 0) = Layer(p)[0]
    BY <2>1 DEF Within
  <2> QED
    BY <2>2, LayerFinite
<1>2. ASSUME NEW m \in Nat, m \in Finite
      PROVE  m + 1 \in Finite
  <2>1. 0..(m + 1) = (0..m) \cup {m + 1}
    OBVIOUS
  <2>2. Within(p, m + 1) = Within(p, m) \cup Layer(p)[m + 1]
    BY <2>1 DEF Within
  <2>3. IsFiniteSet(Within(p, m)) /\ IsFiniteSet(Layer(p)[m + 1])
    BY <1>2, LayerFinite
  <2>4. IsFiniteSet(Within(p, m) \cup Layer(p)[m + 1])
    BY <2>3, FS_Union
  <2> QED
    BY <2>2, <2>4
<1> HIDE DEF Finite
<1>3. \A m \in Nat : m \in Finite
  BY <1>1, <1>2, SetInduction
<1> QED
  BY <1>3 DEF Finite

-----------------------------------------------------------------------------
(* The queue as a set                                                      *)

Entries(q) == {q[i] : i \in 1..Len(q)}

LEMMA EntriesAppend ==
  ASSUME NEW S, NEW q \in Seq(S), NEW e \in S
  PROVE  Entries(Append(q, e)) = Entries(q) \cup {e}
<1>1. /\ Len(Append(q, e)) = Len(q) + 1 /\ Len(q) \in Nat
      /\ \A i \in 1..Len(q) : Append(q, e)[i] = q[i]
      /\ Append(q, e)[Len(q) + 1] = e
  OBVIOUS
<1>2. 1..(Len(q) + 1) = (1..Len(q)) \cup {Len(q) + 1}
  BY <1>1
<1> QED
  BY <1>1, <1>2 DEF Entries

LEMMA EntriesTail ==
  ASSUME NEW S, NEW q \in Seq(S), q # <<>>
  PROVE  /\ Entries(Tail(q)) \subseteq Entries(q)
         /\ Head(q) \in Entries(q)
         /\ Entries(q) \subseteq Entries(Tail(q)) \cup {Head(q)}
<1>1. /\ Len(Tail(q)) = Len(q) - 1 /\ Len(q) \in Nat \ {0}
      /\ \A i \in 1..(Len(q) - 1) : Tail(q)[i] = q[i + 1]
      /\ Head(q) = q[1]
  OBVIOUS
<1>2. /\ \A i \in 1..(Len(q) - 1) : i + 1 \in 1..Len(q)
      /\ 1 \in 1..Len(q)
  BY <1>1
<1>3. \A i \in 1..Len(q) : i # 1 => i - 1 \in 1..(Len(q) - 1) /\ (i - 1) + 1 = i
  BY <1>1
<1>4. \A i \in 1..Len(q) : i # 1 => q[i] = Tail(q)[i - 1]
  BY <1>1, <1>3
<1> QED
  BY <1>1, <1>2, <1>3, <1>4 DEF Entries

LEMMA EntriesEmpty == Entries(<<>>) = {}
BY DEF Entries

-----------------------------------------------------------------------------
(* The invariant                                                           *)

States(p) == {p.initial, Raised} \cup {p.next[cell] : cell \in DOMAIN p.next}

QueueNodes(p) == [state : States(p), path : Seq(Candidates(p))]

(* Type correctness.                                                       *)
TypeOK ==
  /\ program \in Programs
  /\ bounds \in program.bounds
  /\ phase \in {"checking", "searching", "reported", "failed"}
  /\ queue \in Seq(QueueNodes(program))
  /\ node \in QueueNodes(program)
  /\ at \in Candidates(program)
  /\ IsFiniteSet(seen)
  /\ \A e \in DOMAIN witness : witness[e] \in Seq(Candidates(program))
  /\ explored \in Nat /\ evaluated \in Nat
  /\ stateLimit \in BOOLEAN /\ transitionLimit \in BOOLEAN
  /\ depthFrontier \in BOOLEAN

(* What is still to be expanded.                                           *)
Waiting == Entries(queue) \cup {q \in {node} : Expanding}

(* Every node waits with a path that leads to it and leaves room for one   *)
(* more cycle; what was seen and kept can be seen within the depth.        *)
PathsInv ==
  /\ \A q \in Waiting :
       /\ q.state \in seen /\ q.state # Raised
       /\ Len(q.path) < bounds.depth
       /\ Leads(program, q.path, q.state)
  /\ seen \subseteq ReachableWithin(bounds.depth - 1)
  /\ DOMAIN witness \subseteq EventWithin(bounds.depth)

(* The candidates that the node being expanded has left.                   *)
Untried == IF Expanding THEN program.vectors + 2 - at ELSE 0

(* Every seen state waits or was taken once, and each one taken accounts   *)
(* for its candidates.                                                     *)
CountsInv ==
  /\ transitionLimit \/ phase = "reported" => ~Expanding
  /\ transitionLimit \/ phase = "reported" => queue = <<>>
  /\ ~transitionLimit => explored + Len(queue) = Cardinality(seen)
  /\ phase # "failed" /\ ~transitionLimit =>
       evaluated + Untried = explored * (program.vectors + 1)

(* A cycle still to be evaluated.                                          *)
Pending(state, c) ==
  \/ \E q \in Entries(queue) : q.state = state
  \/ Expanding /\ state = node.state /\ c >= at

(* A cycle whose events are recorded and whose final state is seen, unless *)
(* a search at level l leaves it to the depth bound.                       *)
Settled(state, c, l) ==
  /\ program.next[<<state, c>>] # Raised
  /\ program.events[<<state, c>>] \subseteq DOMAIN witness
  /\ program.next[<<state, c>>] \in seen \/ l + 1 >= bounds.depth

(* The search works at level l: the queue holds nodes of this level and    *)
(* then of the next, every state of the levels up to this one is seen, and *)
(* no state waits with a path longer than it needs.                        *)
Level(l) ==
  /\ Expanding => Len(node.path) = l
  /\ \A i \in 1..Len(queue) : Len(queue[i].path) \in {l, l + 1}
  /\ \A i, j \in 1..Len(queue) :
       i < j => Len(queue[i].path) <= Len(queue[j].path)
  /\ \A k \in 0..l : Layer(program)[k] \subseteq seen
  /\ \A q \in Waiting : \A k \in 0..(Len(q.path) - 1) :
       q.state \notin Layer(program)[k]
  /\ \A state \in seen, c \in Candidates(program) :
       Pending(state, c) \/ Settled(state, c, l)

FrontierInv == ~Truncated => \E l \in 0..(bounds.depth - 1) : Level(l)

SearchInv ==
  /\ TypeOK /\ PathsInv /\ CountsInv /\ FrontierInv
  /\ WitnessesReplay /\ WitnessesShortest /\ LimitsAreReal

-----------------------------------------------------------------------------
(* Facts about a state that satisfies the types                            *)

LEMMA Parameters ==
  ASSUME TypeOK
  PROVE  /\ program.vectors \in Nat \ {0}
         /\ DOMAIN program.next = DOMAIN program.events
         /\ bounds.depth \in Nat \ {0}
         /\ bounds.states \in Nat \ {0} /\ bounds.transitions \in Nat \ {0}
         /\ program.initial # Raised
         /\ Candidates(program) = 1..(program.vectors + 1)
         /\ at \in Nat \ {0} /\ at <= program.vectors + 1
<1>1. program \in Programs /\ bounds \in program.bounds
  BY DEF TypeOK
<1>2. program.vectors \in Nat \ {0}
  BY <1>1, ProgramsAssumption
<1> QED
  BY <1>1, <1>2, ProgramsAssumption, BoundsAssumption DEF TypeOK, Candidates

(* A waiting state is in the layer of its path, and all its cycles are     *)
(* looked up.                                                              *)
LEMMA WaitingInLayer ==
  ASSUME TypeOK, PathsInv, NEW q \in Waiting
  PROVE  /\ Len(q.path) \in 0..(bounds.depth - 1)
         /\ q.state \in Layer(program)[Len(q.path)]
         /\ \A c \in Candidates(program) : <<q.state, c>> \in DOMAIN program.next
<1>1. /\ Len(q.path) < bounds.depth
      /\ Leads(program, q.path, q.state)
  BY DEF PathsInv
<1>2. q.path \in Seq(Candidates(program)) /\ Len(q.path) \in Nat
  BY <1>1 DEF Leads
<1>3. Len(q.path) \in 0..(bounds.depth - 1)
  BY <1>1, <1>2, Parameters
<1>4. q.state \in Layer(program)[Len(q.path)]
  BY <1>1, LeadsIntoLayer
<1>5. Layer(program)[Len(q.path)] \X Candidates(program) \subseteq DOMAIN program.next
  BY <1>3, LookedUpAssumption DEF TypeOK
<1> QED
  BY <1>3, <1>4, <1>5

LEMMA InitInv == Init => SearchInv
<1> SUFFICES ASSUME Init PROVE SearchInv
  OBVIOUS
<1> DEFINE first == [state |-> program.initial, path |-> <<>>]
<1>1. program \in Programs /\ bounds \in program.bounds
  BY DEF Init
<1>2. /\ program.vectors \in Nat \ {0} /\ bounds.depth \in Nat \ {0}
      /\ program.initial # Raised
  BY <1>1, ProgramsAssumption, BoundsAssumption
<1>3. /\ first \in QueueNodes(program) /\ NoNode \in QueueNodes(program)
      /\ queue = <<first>> /\ queue \in Seq(QueueNodes(program))
      /\ Len(queue) = 1 /\ queue[1] = first /\ ~Expanding
  BY DEF Init, QueueNodes, States, NoNode, Expanding
<1>4. IsFiniteSet(seen) /\ Cardinality(seen) = 1
  <2>1. IsFiniteSet({program.initial}) /\ Cardinality({program.initial}) = 1
    BY FS_Singleton, Zenon
  <2> QED
    BY <2>1 DEF Init
<1>5. TypeOK
  <2>1. node \in QueueNodes(program)
    BY <1>3 DEF Init
  <2>2. at \in Candidates(program)
    BY <1>2 DEF Init, Candidates
  <2>3. DOMAIN witness = {}
    BY DEF Init
  <2>4. /\ phase = "checking" /\ explored = 0 /\ evaluated = 0
        /\ ~stateLimit /\ ~transitionLimit /\ ~depthFrontier
    BY DEF Init
  <2>5. /\ stateLimit \in BOOLEAN /\ transitionLimit \in BOOLEAN
        /\ depthFrontier \in BOOLEAN
    BY DEF Init
  <2> QED
    BY <1>1, <1>3, <1>4, <2>1, <2>2, <2>3, <2>4, <2>5 DEF TypeOK
<1>6. Waiting = {first} /\ Entries(queue) = {first}
  <2>1. 1..1 = {1}
    OBVIOUS
  <2> QED
    BY <1>3, <2>1 DEF Waiting, Entries
<1>7. Layer(program)[0] = {program.initial} /\ 0 \in 0..(bounds.depth - 1)
  BY <1>2, LayerZero
<1>8. PathsInv
  <2>1. Leads(program, first.path, first.state)
    BY EmptyPathLeads
  <2>2. seen \subseteq ReachableWithin(bounds.depth - 1)
    BY <1>7 DEF ReachableWithin, Init
  <2>3. DOMAIN witness = {}
    BY DEF Init
  <2>4. first.state = program.initial /\ Len(first.path) = 0
    OBVIOUS
  <2> HIDE DEF first
  <2> QED
    BY <1>2, <1>6, <2>1, <2>2, <2>3, <2>4 DEF PathsInv, Init
<1>9. CountsInv
  <2>1. explored = 0 /\ evaluated = 0 /\ Untried = 0 /\ phase = "checking"
    BY <1>3 DEF Init, Untried
  <2> QED
    BY <1>2, <1>3, <1>4, <2>1 DEF CountsInv, Init
<1>10. FrontierInv
  <2>1. \A i \in 1..Len(queue) : i = 1
    BY <1>3
  <2>2. \A i \in 1..Len(queue) : Len(queue[i].path) = 0
    BY <1>3, <2>1
  <2>3. \A k \in 0..0 : Layer(program)[k] \subseteq seen
    BY <1>7 DEF Init
  <2>4. \A q \in Waiting : Len(q.path) = 0
    BY <1>6
  <2>5. \A state \in seen, c \in Candidates(program) : Pending(state, c)
    BY <1>6 DEF Pending, Init
  <2>6. Level(0)
    BY <1>3, <2>1, <2>2, <2>3, <2>4, <2>5 DEF Level
  <2> QED
    BY <1>7, <2>6 DEF FrontierInv
<1>11. WitnessesReplay /\ WitnessesShortest
  BY DEF Init, WitnessesReplay, WitnessesShortest
<1>12. LimitsAreReal
  BY DEF Init, LimitsAreReal
<1> QED
  BY <1>5, <1>8, <1>9, <1>10, <1>11, <1>12 DEF SearchInv

-----------------------------------------------------------------------------
(* The steps that evaluate no cycle                                        *)

LEMMA KeptWitnesses ==
  ASSUME SearchInv, program' = program, bounds' = bounds, witness' = witness,
         stateLimit' = stateLimit
  PROVE  WitnessesReplay' /\ WitnessesShortest'
<1>1. WitnessesReplay /\ WitnessesShortest
  BY DEF SearchInv
<1>2. WitnessesReplay'
  BY <1>1 DEF WitnessesReplay, Reproduces, Replay
<1>3. WitnessesShortest'
  BY <1>1 DEF WitnessesShortest, EventAt
<1> QED
  BY <1>2, <1>3

LEMMA KeptPaths ==
  ASSUME SearchInv, program' = program, bounds' = bounds, witness' = witness,
         seen' = seen, Waiting' \subseteq Waiting
  PROVE  PathsInv'
<1>1. PathsInv
  BY DEF SearchInv
<1>2. /\ ReachableWithin(bounds.depth - 1)' = ReachableWithin(bounds.depth - 1)
      /\ EventWithin(bounds.depth)' = EventWithin(bounds.depth)
  BY DEF EventWithin, ReachableWithin
<1> QED
  BY <1>1, <1>2 DEF PathsInv

LEMMA KeptStateLimit ==
  ASSUME SearchInv, program' = program, bounds' = bounds,
         stateLimit' = stateLimit
  PROVE  (stateLimit => Cardinality(ReachableWithin(bounds.depth - 1))
                          > bounds.states)'
<1>1. stateLimit => Cardinality(ReachableWithin(bounds.depth - 1)) > bounds.states
  BY DEF SearchInv, LimitsAreReal
<1> QED
  BY <1>1 DEF ReachableWithin

(* Reject, Accept, Report and stuttering move only the phase.              *)
LEMMA PhaseStep ==
  ASSUME SearchInv, program' = program, bounds' = bounds,
         UNCHANGED <<search, limits>>,
         phase' \in {"checking", "searching", "reported", "failed"},
         phase = "failed" => phase' = "failed",
         phase' = "reported" => ~Expanding /\ queue = <<>>
  PROVE  SearchInv'
<1>1. TypeOK /\ CountsInv /\ FrontierInv /\ LimitsAreReal
  BY DEF SearchInv
<1>2. /\ queue' = queue /\ node' = node /\ at' = at /\ seen' = seen
      /\ witness' = witness /\ explored' = explored /\ evaluated' = evaluated
      /\ stateLimit' = stateLimit /\ transitionLimit' = transitionLimit
      /\ depthFrontier' = depthFrontier
  BY DEF search, limits
<1>3. TypeOK'
  BY <1>1, <1>2 DEF TypeOK
<1>4. /\ Expanding' <=> Expanding
      /\ Waiting' = Waiting
      /\ Untried' = Untried
  <2>1. Expanding' <=> Expanding
    BY <1>2 DEF Expanding
  <2> QED
    BY <1>2, <2>1 DEF Waiting, Untried
<1>5. PathsInv'
  BY <1>2, <1>4, KeptPaths
<1>6. CountsInv'
  BY <1>1, <1>2, <1>4 DEF CountsInv
<1>7. FrontierInv'
  <2>1. ASSUME NEW l, Level(l) PROVE Level(l)'
    <3>1. \A state, c : Pending(state, c) => Pending(state, c)'
      BY <1>2, <1>4 DEF Pending
    <3>2. \A state, c : Settled(state, c, l) => Settled(state, c, l)'
      BY <1>2 DEF Settled
    <3> QED
      BY <1>2, <1>4, <2>1, <3>1, <3>2 DEF Level
  <2> QED
    BY <1>1, <1>2, <2>1 DEF FrontierInv, Truncated
<1>8. WitnessesReplay' /\ WitnessesShortest'
  BY <1>2, KeptWitnesses
<1>9. LimitsAreReal'
  <2>1. transitionLimit' =>
          (program.vectors + 1) * Cardinality(seen) > bounds.transitions
    BY <1>1, <1>2 DEF LimitsAreReal
  <2> QED
    BY <1>2, <2>1, KeptStateLimit DEF LimitsAreReal
<1> QED
  BY <1>3, <1>5, <1>6, <1>7, <1>8, <1>9 DEF SearchInv

LEMMA AbortInv == SearchInv /\ Abort => SearchInv'
<1> SUFFICES ASSUME SearchInv, Abort PROVE SearchInv'
  OBVIOUS
<1>1. TypeOK /\ CountsInv /\ FrontierInv /\ LimitsAreReal
  BY DEF SearchInv
<1>2. /\ program' = program /\ bounds' = bounds
      /\ queue' = queue /\ node' = node /\ at' = at /\ seen' = seen
      /\ witness' = witness /\ explored' = explored
      /\ stateLimit' = stateLimit /\ transitionLimit' = transitionLimit
      /\ depthFrontier' = depthFrontier
      /\ evaluated' = evaluated + 1 /\ phase' = "failed"
  BY DEF Abort, limits, documents
<1>3. TypeOK'
  <2>1. evaluated' \in Nat
    BY <1>1, <1>2 DEF TypeOK
  <2> QED
    BY <1>1, <1>2, <2>1 DEF TypeOK
<1>4. /\ Expanding' <=> Expanding
      /\ Waiting' = Waiting
  <2>1. Expanding' <=> Expanding
    BY <1>2 DEF Expanding
  <2> QED
    BY <1>2, <2>1 DEF Waiting
<1>5. PathsInv'
  BY <1>2, <1>4, KeptPaths
<1>6. CountsInv'
  BY <1>1, <1>2, <1>4 DEF CountsInv
<1>7. FrontierInv'
  <2>1. ASSUME NEW l, Level(l) PROVE Level(l)'
    <3>1. \A state, c : Pending(state, c) => Pending(state, c)'
      BY <1>2, <1>4 DEF Pending
    <3>2. \A state, c : Settled(state, c, l) => Settled(state, c, l)'
      BY <1>2 DEF Settled
    <3> QED
      BY <1>2, <1>4, <2>1, <3>1, <3>2 DEF Level
  <2> QED
    BY <1>1, <1>2, <2>1 DEF FrontierInv, Truncated
<1>8. WitnessesReplay' /\ WitnessesShortest'
  BY <1>2, KeptWitnesses
<1>9. LimitsAreReal'
  <2>1. transitionLimit' =>
          (program.vectors + 1) * Cardinality(seen) > bounds.transitions
    BY <1>1, <1>2 DEF LimitsAreReal
  <2> QED
    BY <1>2, <2>1, KeptStateLimit DEF LimitsAreReal
<1> QED
  BY <1>3, <1>5, <1>6, <1>7, <1>8, <1>9 DEF SearchInv

LEMMA OneMore ==
  ASSUME NEW x \in Nat, NEW v \in Nat
  PROVE  (x + 1) * (v + 1) = x * (v + 1) + (v + 1)
OBVIOUS

(* At most explored * (vectors + 1) candidates were tried, and at most     *)
(* Cardinality(seen) states explored.                                      *)
LEMMA CandidatesOfSeen ==
  ASSUME NEW v \in Nat, NEW x \in Nat, NEW c \in Nat, NEW e \in Nat,
         NEW u \in Nat \ {0}, x <= c, e + u = x * (v + 1)
  PROVE  (v + 1) * c > e
<1>1. PICK d \in Nat : c = x + d
  <2>1. c - x \in Nat /\ c = x + (c - x)
    OBVIOUS
  <2> QED
    BY <2>1
<1>2. x * (v + 1) > e /\ (v + 1) * d >= 0
  OBVIOUS
<1>3. (v + 1) * c = x * (v + 1) + (v + 1) * d
  BY <1>1
<1>4. x * (v + 1) \in Nat /\ (v + 1) * d \in Nat
  OBVIOUS
<1> QED
  BY <1>2, <1>3, <1>4

LEMMA StopInv == SearchInv /\ StopAtTransitionLimit => SearchInv'
<1> SUFFICES ASSUME SearchInv, StopAtTransitionLimit PROVE SearchInv'
  OBVIOUS
<1>1. TypeOK /\ CountsInv
  BY DEF SearchInv
<1>2. /\ program' = program /\ bounds' = bounds /\ phase' = phase
      /\ at' = at /\ seen' = seen
      /\ witness' = witness /\ explored' = explored
      /\ stateLimit' = stateLimit /\ evaluated' = evaluated
      /\ depthFrontier' = depthFrontier
      /\ queue' = <<>> /\ node' = NoNode /\ transitionLimit'
      /\ Expanding /\ evaluated >= bounds.transitions /\ phase = "searching"
  BY DEF StopAtTransitionLimit, documents
<1>3. TypeOK'
  <2>1. NoNode \in QueueNodes(program) /\ <<>> \in Seq(QueueNodes(program))
    BY DEF NoNode, QueueNodes, States
  <2>2. transitionLimit' \in BOOLEAN
    BY DEF StopAtTransitionLimit
  <2> QED
    BY <1>1, <1>2, <2>1, <2>2 DEF TypeOK
<1>4. ~Expanding' /\ Waiting' = {}
  <2>1. ~Expanding'
    BY <1>2 DEF Expanding, NoNode
  <2> QED
    BY <1>2, <2>1, EntriesEmpty DEF Waiting, Entries
<1>5. PathsInv'
  BY <1>2, <1>4, KeptPaths
<1>6. CountsInv'
  BY <1>2, <1>4 DEF CountsInv
<1>7. FrontierInv'
  BY <1>2 DEF FrontierInv, Truncated
<1>8. WitnessesReplay' /\ WitnessesShortest'
  BY <1>2, KeptWitnesses
<1>9. LimitsAreReal'
  <2>1. /\ program.vectors \in Nat /\ at \in Nat /\ at <= program.vectors + 1
        /\ bounds.transitions \in Nat
    BY <1>1, Parameters
  <2>2. /\ explored \in Nat /\ evaluated \in Nat /\ Len(queue) \in Nat
        /\ Cardinality(seen) \in Nat
    BY <1>1, FS_CardinalityType DEF TypeOK
  <2>3. /\ explored + Len(queue) = Cardinality(seen)
        /\ evaluated + Untried = explored * (program.vectors + 1)
    <3>1. ~transitionLimit /\ phase # "failed"
      BY <1>1, <1>2 DEF CountsInv
    <3> QED
      BY <1>1, <3>1 DEF CountsInv
  <2>4. Untried \in Nat \ {0} /\ explored <= Cardinality(seen)
    <3>1. Untried = program.vectors + 2 - at
      BY <1>2 DEF Untried
    <3> QED
      BY <2>1, <2>2, <2>3, <3>1
  <2>5. (program.vectors + 1) * Cardinality(seen) > evaluated
    BY <2>1, <2>2, <2>3, <2>4, CandidatesOfSeen
  <2>6. (program.vectors + 1) * Cardinality(seen) > bounds.transitions
    <3>1. (program.vectors + 1) * Cardinality(seen) \in Nat
      BY <2>1, <2>2
    <3> HIDE DEF StopAtTransitionLimit
    <3> QED
      BY <1>2, <2>1, <2>2, <2>5, <3>1
  <2> QED
    BY <1>2, <2>6, KeptStateLimit DEF LimitsAreReal
<1> QED
  BY <1>3, <1>5, <1>6, <1>7, <1>8, <1>9 DEF SearchInv

(* The node taken is never too deep: it would not have been queued.        *)
LEMMA Taken ==
  ASSUME SearchInv, TakeNode
  PROVE  /\ queue # <<>> /\ ~Expanding /\ Expanding'
         /\ node' = Head(queue) /\ queue' = Tail(queue) /\ at' = 1
         /\ explored' = explored + 1
         /\ program' = program /\ bounds' = bounds /\ phase' = phase
         /\ seen' = seen /\ witness' = witness /\ evaluated' = evaluated
         /\ stateLimit' = stateLimit /\ transitionLimit' = transitionLimit
         /\ depthFrontier' \in BOOLEAN
         /\ Head(queue) \in Waiting /\ Waiting' \subseteq Waiting
         /\ Entries(queue) \subseteq Entries(queue') \cup {node'}
<1>1. TypeOK /\ PathsInv
  BY DEF SearchInv
<1>2. /\ queue # <<>> /\ ~Expanding
      /\ queue' = Tail(queue) /\ at' = 1
      /\ explored' = explored + 1
      /\ program' = program /\ bounds' = bounds /\ phase' = phase
      /\ seen' = seen /\ witness' = witness /\ evaluated' = evaluated
      /\ stateLimit' = stateLimit /\ transitionLimit' = transitionLimit
  BY DEF TakeNode, documents
<1>3. /\ Entries(Tail(queue)) \subseteq Entries(queue)
      /\ Head(queue) \in Entries(queue)
      /\ Entries(queue) \subseteq Entries(Tail(queue)) \cup {Head(queue)}
  BY <1>1, <1>2, EntriesTail DEF TypeOK
<1>4. Head(queue) \in Waiting
  BY <1>3 DEF Waiting
<1>5. Len(Head(queue).path) < bounds.depth /\ Head(queue).state # Raised
  BY <1>1, <1>4 DEF PathsInv
<1>6. Len(Head(queue).path) \in 0..(bounds.depth - 1) /\ bounds.depth \in Nat
  BY <1>1, <1>4, WaitingInLayer, Parameters
<1>7. ~(Len(Head(queue).path) >= bounds.depth)
  BY <1>5, <1>6
<1>8. node' = Head(queue) /\ depthFrontier' \in BOOLEAN
  BY <1>7 DEF TakeNode
<1>9. Expanding'
  BY <1>5, <1>8 DEF Expanding
<1>10. Waiting' \subseteq Waiting
  BY <1>2, <1>3, <1>8 DEF Waiting, Entries
<1> QED
  BY <1>2, <1>3, <1>4, <1>8, <1>9, <1>10

(* Taking a node of the next level: the queue holds nothing of the level   *)
(* before, so that everything one cycle away from it is seen.              *)
LEMMA TakeLevel ==
  ASSUME SearchInv, TakeNode, NEW l \in 0..(bounds.depth - 1), Level(l)
  PROVE  \E m \in 0..(bounds.depth - 1) : Level(m)'
<1>1. TypeOK /\ PathsInv
  BY DEF SearchInv
<1>2. /\ queue # <<>> /\ ~Expanding /\ Expanding'
      /\ node' = Head(queue) /\ queue' = Tail(queue) /\ at' = 1
      /\ program' = program /\ bounds' = bounds
      /\ seen' = seen /\ witness' = witness
      /\ Head(queue) \in Waiting /\ Waiting' \subseteq Waiting
      /\ Entries(queue) \subseteq Entries(queue') \cup {node'}
  BY Taken
<1>3. /\ \A i \in 1..Len(queue) : Len(queue[i].path) \in {l, l + 1}
      /\ \A i, j \in 1..Len(queue) :
           i < j => Len(queue[i].path) <= Len(queue[j].path)
      /\ \A k \in 0..l : Layer(program)[k] \subseteq seen
      /\ \A q \in Waiting : \A k \in 0..(Len(q.path) - 1) :
           q.state \notin Layer(program)[k]
      /\ \A state \in seen, c \in Candidates(program) :
           Pending(state, c) \/ Settled(state, c, l)
  BY DEF Level
<1>4. /\ Len(queue) \in Nat \ {0} /\ Head(queue) = queue[1]
      /\ Len(Tail(queue)) = Len(queue) - 1
      /\ \A i \in 1..(Len(queue) - 1) : Tail(queue)[i] = queue[i + 1]
  BY <1>1, <1>2 DEF TypeOK
<1>5. PICK m \in 0..(bounds.depth - 1) :
        /\ m = Len(Head(queue).path) /\ bounds.depth \in Nat
        /\ Head(queue).state \in Layer(program)[m]
  BY <1>1, <1>2, WaitingInLayer, Parameters
<1>6. m = l \/ m = l + 1
  <2>1. 1 \in 1..Len(queue)
    BY <1>4
  <2> QED
    BY <1>3, <1>4, <1>5, <2>1
<1>7. \A i \in 1..Len(queue) :
        Len(queue[i].path) \in {m, m + 1} /\ Len(queue[i].path) <= l + 1
  <2> SUFFICES ASSUME NEW i \in 1..Len(queue)
               PROVE  /\ Len(queue[i].path) \in {m, m + 1}
                      /\ Len(queue[i].path) <= l + 1
    OBVIOUS
  <2>1. Len(queue[i].path) \in {l, l + 1} /\ 1 \in 1..Len(queue)
    BY <1>3, <1>4
  <2>2. m <= Len(queue[i].path)
    <3>1. CASE i = 1
      BY <1>4, <1>5, <3>1
    <3>2. CASE 1 < i
      BY <1>3, <1>4, <1>5, <2>1, <3>2
    <3> QED
      BY <3>1, <3>2
  <2> QED
    BY <1>6, <2>1, <2>2
<1>8. /\ \A i \in 1..Len(queue') : Len(queue'[i].path) \in {m, m + 1}
      /\ \A i, j \in 1..Len(queue') :
           i < j => Len(queue'[i].path) <= Len(queue'[j].path)
  <2>1. \A i \in 1..Len(queue') : i + 1 \in 1..Len(queue) /\ queue'[i] = queue[i + 1]
    BY <1>2, <1>4
  <2>2. ASSUME NEW i \in 1..Len(queue'), NEW j \in 1..Len(queue'), i < j
        PROVE  Len(queue'[i].path) <= Len(queue'[j].path)
    <3>1. /\ i + 1 \in 1..Len(queue) /\ j + 1 \in 1..Len(queue) /\ i + 1 < j + 1
          /\ queue'[i] = queue[i + 1] /\ queue'[j] = queue[j + 1]
      BY <2>1, <2>2
    <3> QED
      BY <1>3, <3>1
  <2> QED
    BY <1>7, <2>1, <2>2
<1>9. \A k \in 0..m : Layer(program)[k] \subseteq seen
  <2> SUFFICES ASSUME NEW k \in 0..m, NEW state \in Layer(program)[k]
               PROVE  state \in seen
    OBVIOUS
  <2>1. CASE k \in 0..l
    BY <1>3, <2>1
  <2>2. CASE m = l + 1 /\ k = l + 1
    <3>1. PICK before \in Layer(program)[l], c \in Candidates(program) :
            state = program.next[<<before, c>>] /\ state # Raised
      BY <2>2, LayerBack
    <3>2. before \in seen
      BY <1>3
    <3>3. ~Pending(before, c)
      <4> SUFFICES ASSUME Pending(before, c) PROVE FALSE
        OBVIOUS
      <4>1. PICK q \in Entries(queue) : q.state = before
        BY <1>2 DEF Pending
      <4>2. PICK i \in 1..Len(queue) : q = queue[i]
        BY DEF Entries
      <4>3. Len(q.path) \in {m, m + 1} /\ Len(q.path) <= l + 1
        BY <1>7, <4>2
      <4>4. Len(q.path) = l + 1
        BY <2>2, <4>3
      <4>5. q \in Waiting /\ l \in 0..(Len(q.path) - 1)
        BY <4>4 DEF Waiting
      <4> QED
        BY <1>3, <4>1, <4>5
    <3>4. Settled(before, c, l)
      BY <1>3, <3>2, <3>3
    <3>5. ~(l + 1 >= bounds.depth)
      BY <1>5, <2>2
    <3> QED
      BY <3>1, <3>4, <3>5 DEF Settled
  <2> QED
    BY <1>6, <2>1, <2>2
<1>10. ASSUME NEW state \in seen, NEW c \in Candidates(program)
       PROVE  Pending(state, c)' \/ Settled(state, c, m)'
  <2>1. CASE Pending(state, c)
    <3>1. PICK q \in Entries(queue) : q.state = state
      BY <1>2, <2>1 DEF Pending
    <3>2. CASE q \in Entries(queue')
      BY <3>1, <3>2 DEF Pending, Entries
    <3>3. CASE q = node'
      <4>1. c >= at'
        BY <1>1, <1>2, Parameters
      <4> QED
        BY <1>2, <3>1, <3>3, <4>1 DEF Pending
    <3> QED
      BY <1>2, <3>1, <3>2, <3>3
  <2>2. CASE Settled(state, c, l)
    <3>1. l + 1 >= bounds.depth => m + 1 >= bounds.depth
      BY <1>5, <1>6
    <3> QED
      BY <1>2, <2>2, <3>1 DEF Settled
  <2> QED
    BY <1>3, <2>1, <2>2
<1>11. Level(m)'
  <2>1. Expanding' => Len(node'.path) = m
    BY <1>2, <1>5
  <2>2. \A q \in Waiting' : \A k \in 0..(Len(q.path) - 1) :
          q.state \notin Layer(program)[k]
    BY <1>2, <1>3
  <2> QED
    BY <1>2, <1>8, <1>9, <1>10, <2>1, <2>2 DEF Level
<1> QED
  BY <1>5, <1>11

LEMMA TakeInv == SearchInv /\ TakeNode => SearchInv'
<1> SUFFICES ASSUME SearchInv, TakeNode PROVE SearchInv'
  OBVIOUS
<1>1. TypeOK /\ CountsInv /\ FrontierInv /\ LimitsAreReal
  BY DEF SearchInv
<1>2. /\ queue # <<>> /\ ~Expanding /\ Expanding'
      /\ node' = Head(queue) /\ queue' = Tail(queue) /\ at' = 1
      /\ explored' = explored + 1
      /\ program' = program /\ bounds' = bounds /\ phase' = phase
      /\ seen' = seen /\ witness' = witness /\ evaluated' = evaluated
      /\ stateLimit' = stateLimit /\ transitionLimit' = transitionLimit
      /\ depthFrontier' \in BOOLEAN
      /\ Waiting' \subseteq Waiting
  BY Taken
<1>3. /\ queue \in Seq(QueueNodes(program)) /\ Len(queue) \in Nat
      /\ Head(queue) \in QueueNodes(program) /\ Tail(queue) \in Seq(QueueNodes(program))
      /\ Len(Tail(queue)) = Len(queue) - 1
  BY <1>1, <1>2 DEF TypeOK
<1>4. /\ program.vectors \in Nat \ {0} /\ 1 \in Candidates(program)
  BY <1>1, Parameters
<1>5. TypeOK'
  <2>1. explored' \in Nat
    BY <1>1, <1>2 DEF TypeOK
  <2> QED
    BY <1>1, <1>2, <1>3, <1>4, <2>1 DEF TypeOK
<1>6. PathsInv'
  BY <1>2, KeptPaths
<1>7. CountsInv'
  <2>1. ~transitionLimit /\ phase # "reported"
    BY <1>1, <1>2 DEF CountsInv
  <2>2. explored \in Nat /\ evaluated \in Nat
    BY <1>1 DEF TypeOK
  <2>3. explored' + Len(queue') = Cardinality(seen')
    <3>1. explored + Len(queue) = Cardinality(seen)
      BY <1>1, <2>1 DEF CountsInv
    <3> QED
      BY <1>2, <1>3, <2>2, <3>1
  <2>4. phase' # "failed" =>
          evaluated' + Untried' = explored' * (program'.vectors + 1)
    <3> SUFFICES ASSUME phase' # "failed"
                 PROVE  evaluated' + Untried' = explored' * (program'.vectors + 1)
      OBVIOUS
    <3>1. evaluated + Untried = explored * (program.vectors + 1)
      BY <1>1, <1>2, <2>1 DEF CountsInv
    <3>2. Untried = 0 /\ Untried' = program.vectors + 2 - 1
      BY <1>2 DEF Untried
    <3>3. (explored + 1) * (program.vectors + 1)
            = explored * (program.vectors + 1) + (program.vectors + 1)
      BY <1>4, <2>2, OneMore
    <3>4. evaluated = explored * (program.vectors + 1)
      BY <2>2, <3>1, <3>2
    <3> QED
      BY <1>2, <1>4, <2>2, <3>2, <3>3, <3>4
  <2> QED
    BY <1>2, <2>1, <2>3, <2>4 DEF CountsInv
<1>8. FrontierInv'
  BY <1>1, <1>2, TakeLevel DEF FrontierInv, Truncated
<1>9. WitnessesReplay' /\ WitnessesShortest'
  BY <1>2, KeptWitnesses
<1>10. LimitsAreReal'
  <2>1. transitionLimit' =>
          (program.vectors + 1) * Cardinality(seen) > bounds.transitions
    BY <1>1, <1>2 DEF LimitsAreReal
  <2> QED
    BY <1>2, <2>1, KeptStateLimit DEF LimitsAreReal
<1> QED
  BY <1>5, <1>6, <1>7, <1>8, <1>9, <1>10 DEF SearchInv

-----------------------------------------------------------------------------
(* The step that evaluates a cycle                                         *)

Kept == Fresh /\ Room

Found == [state |-> program.next[Cycle], path |-> NewPath]

(* The node in the step is in the layer of its path.                       *)
LEMMA Evaluated ==
  ASSUME SearchInv, Evaluate
  PROVE  /\ program' = program /\ bounds' = bounds /\ phase' = phase
         /\ explored' = explored /\ evaluated' = evaluated + 1
         /\ transitionLimit' = transitionLimit /\ depthFrontier' = depthFrontier
         /\ phase = "searching" /\ Expanding /\ ~transitionLimit
         /\ program.next[Cycle] # Raised /\ Cycle = <<node.state, at>>
         /\ stateLimit' = LimitAfter /\ witness' = Record
         /\ IF LastCandidate THEN ~Expanding' /\ at' = 1 /\ node' = NoNode
            ELSE Expanding' /\ at' = at + 1 /\ node' = node
         /\ Kept => seen' = seen \cup {program.next[Cycle]}
         /\ Kept => queue' = Append(queue, Found)
         /\ ~Kept => seen' = seen /\ queue' = queue
<1>1. TypeOK /\ CountsInv
  BY DEF SearchInv
<1>2. ~transitionLimit
  BY <1>1 DEF CountsInv, Evaluate
<1>3. IF LastCandidate THEN ~Expanding' /\ at' = 1 /\ node' = NoNode
      ELSE Expanding' /\ at' = at + 1 /\ node' = node
  <2>1. CASE LastCandidate
    BY <2>1 DEF Evaluate, Expanding, NoNode
  <2>2. CASE ~LastCandidate
    BY <2>2 DEF Evaluate, Expanding
  <2> QED
    BY <2>1, <2>2
<1>4. /\ Kept => seen' = seen \cup {program.next[Cycle]}
      /\ Kept => queue' = Append(queue, Found)
      /\ ~Kept => seen' = seen /\ queue' = queue
  BY DEF Evaluate, Kept, Found
<1>5. /\ program' = program /\ bounds' = bounds /\ phase' = phase
      /\ explored' = explored /\ evaluated' = evaluated + 1
      /\ transitionLimit' = transitionLimit /\ depthFrontier' = depthFrontier
      /\ phase = "searching" /\ Expanding
      /\ program.next[Cycle] # Raised /\ stateLimit' = LimitAfter
      /\ witness' = Record
  BY DEF Evaluate, documents
<1> QED
  BY <1>2, <1>3, <1>4, <1>5 DEF Cycle

LEMMA CycleFacts ==
  ASSUME SearchInv, Expanding
  PROVE  /\ node \in Waiting /\ at \in Candidates(program)
         /\ node.state \in seen
         /\ Len(node.path) \in 0..(bounds.depth - 1)
         /\ node.state \in Layer(program)[Len(node.path)]
         /\ Leads(program, node.path, node.state)
         /\ <<node.state, at>> \in DOMAIN program.next
         /\ NewPath \in Seq(Candidates(program))
         /\ Len(NewPath) = Len(node.path) + 1
         /\ Found \in QueueNodes(program)
         /\ Found.state = program.next[<<node.state, at>>]
         /\ Found.path = NewPath
<1>1. TypeOK /\ PathsInv
  BY DEF SearchInv
<1>2. node \in Waiting
  BY DEF Waiting
<1>3. node.path \in Seq(Candidates(program)) /\ at \in Candidates(program)
  BY <1>1 DEF TypeOK, QueueNodes
<1>4. NewPath \in Seq(Candidates(program)) /\ Len(NewPath) = Len(node.path) + 1
  BY <1>3 DEF NewPath
<1>5. /\ Len(node.path) \in 0..(bounds.depth - 1)
      /\ node.state \in Layer(program)[Len(node.path)]
      /\ <<node.state, at>> \in DOMAIN program.next
  BY <1>1, <1>2, <1>3, WaitingInLayer
<1>6. Leads(program, node.path, node.state) /\ node.state \in seen
  BY <1>1, <1>2 DEF PathsInv
<1>7. program.next[<<node.state, at>>] \in States(program)
  BY <1>5 DEF States
<1>8. /\ Found \in QueueNodes(program)
      /\ Found.state = program.next[<<node.state, at>>]
      /\ Found.path = NewPath
  BY <1>4, <1>7 DEF Found, QueueNodes, Cycle
<1> QED
  BY <1>2, <1>3, <1>4, <1>5, <1>6, <1>8

(* A new event is recorded with the new path, and only then.               *)
LEMMA Recorded ==
  ASSUME SearchInv, Evaluate
  PROVE  /\ DOMAIN witness' = DOMAIN witness \cup program.events[Cycle]
         /\ \A e \in DOMAIN witness : witness'[e] = witness[e]
         /\ \A e \in DOMAIN witness' :
              e \notin DOMAIN witness => e \in program.events[Cycle]
                                          /\ witness'[e] = NewPath
<1>1. witness' = Record
  BY DEF Evaluate
<1> QED
  BY <1>1 DEF Record

LEMMA EvaluateTypes == SearchInv /\ Evaluate => TypeOK'
<1> SUFFICES ASSUME SearchInv, Evaluate PROVE TypeOK'
  OBVIOUS
<1>1. TypeOK
  BY DEF SearchInv
<1>2. /\ program' = program /\ bounds' = bounds /\ phase' = phase
      /\ explored' = explored /\ evaluated' = evaluated + 1
      /\ transitionLimit' = transitionLimit /\ depthFrontier' = depthFrontier
      /\ Expanding
  BY Evaluated
<1>3. at' \in Candidates(program)
  <2>1. CASE LastCandidate
    <3>1. at' = 1
      BY <2>1, Evaluated
    <3> QED
      BY <1>1, <3>1, Parameters
  <2>2. CASE ~LastCandidate
    <3>1. at' = at + 1
      BY <2>2, Evaluated
    <3> QED
      BY <1>1, <2>2, <3>1, Parameters DEF LastCandidate
  <2> QED
    BY <2>1, <2>2
<1>4. node' \in QueueNodes(program)
  <2>1. node' = node \/ node' = NoNode
    BY Evaluated
  <2>2. NoNode \in QueueNodes(program)
    BY DEF NoNode, QueueNodes, States
  <2> QED
    BY <1>1, <2>1, <2>2 DEF TypeOK
<1>5. queue' \in Seq(QueueNodes(program))
  <2>1. queue' = queue \/ queue' = Append(queue, Found)
    BY Evaluated
  <2>2. Found \in QueueNodes(program) /\ queue \in Seq(QueueNodes(program))
    BY <1>1, <1>2, CycleFacts DEF TypeOK
  <2> QED
    BY <2>1, <2>2
<1>6. IsFiniteSet(seen')
  <2>1. seen' = seen \/ seen' = seen \cup {program.next[Cycle]}
    BY Evaluated
  <2>2. IsFiniteSet(seen)
    BY <1>1 DEF TypeOK
  <2>3. IsFiniteSet(seen \cup {program.next[Cycle]})
    BY <2>2, FS_AddElement
  <2> QED
    BY <2>1, <2>2, <2>3
<1>7. \A e \in DOMAIN witness' : witness'[e] \in Seq(Candidates(program))
  <2>1. NewPath \in Seq(Candidates(program))
    BY <1>2, CycleFacts
  <2>2. \A e \in DOMAIN witness : witness[e] \in Seq(Candidates(program))
    BY <1>1 DEF TypeOK
  <2> QED
    BY <2>1, <2>2, Recorded
<1>8. stateLimit' \in BOOLEAN
  <2>1. stateLimit' = LimitAfter
    BY Evaluated
  <2> QED
    BY <2>1 DEF LimitAfter
<1>9. evaluated' \in Nat /\ explored' \in Nat
  BY <1>1, <1>2 DEF TypeOK
<1> QED
  BY <1>1, <1>2, <1>3, <1>4, <1>5, <1>6, <1>7, <1>8, <1>9 DEF TypeOK

(* What waits after the step.                                              *)
LEMMA WaitingAfter ==
  ASSUME SearchInv, Evaluate
  PROVE  /\ Entries(queue) \subseteq Entries(queue')
         /\ Kept => Found \in Entries(queue')
         /\ Waiting' \subseteq Waiting \cup {q \in {Found} : Kept}
         /\ seen \subseteq seen'
         /\ seen' \subseteq seen \cup {s \in {program.next[Cycle]} : Kept}
<1>1. queue \in Seq(QueueNodes(program)) /\ Expanding
  BY Evaluated DEF SearchInv, TypeOK
<1>2. Found \in QueueNodes(program)
  BY <1>1, CycleFacts
<1>3. Entries(Append(queue, Found)) = Entries(queue) \cup {Found}
  BY <1>1, <1>2, EntriesAppend
<1>4. /\ Kept => queue' = Append(queue, Found)
      /\ ~Kept => queue' = queue
      /\ Kept => seen' = seen \cup {program.next[Cycle]}
      /\ ~Kept => seen' = seen
      /\ Expanding' => node' = node
  BY Evaluated
<1>5. Entries(queue') = Entries(queue) \cup {q \in {Found} : Kept}
  <2>1. CASE Kept
    BY <1>3, <1>4, <2>1
  <2>2. CASE ~Kept
    BY <1>4, <2>2
  <2> QED
    BY <2>1, <2>2
<1>6. Waiting' = Entries(queue') \cup {q \in {node'} : Expanding'}
  BY DEF Waiting, Entries
<1>7. Waiting' \subseteq Waiting \cup {q \in {Found} : Kept}
  BY <1>1, <1>4, <1>5, <1>6 DEF Waiting
<1>8. /\ seen \subseteq seen'
      /\ seen' \subseteq seen \cup {s \in {program.next[Cycle]} : Kept}
  BY <1>4
<1> QED
  BY <1>5, <1>7, <1>8

(* A state is kept only where one more cycle fits.                         *)
LEMMA FoundFits ==
  ASSUME SearchInv, Evaluate, Fresh
  PROVE  /\ Len(NewPath) \in 0..(bounds.depth - 1)
         /\ program.next[Cycle] \in Layer(program)[Len(NewPath)]
         /\ program.next[Cycle] \in ReachableWithin(bounds.depth - 1)
         /\ program.next[Cycle] \notin seen
         /\ Leads(program, NewPath, program.next[Cycle])
<1>1. /\ at \in Candidates(program)
      /\ Len(node.path) \in 0..(bounds.depth - 1)
      /\ node.state \in Layer(program)[Len(node.path)]
      /\ Leads(program, node.path, node.state)
      /\ Len(NewPath) = Len(node.path) + 1
      /\ program.next[Cycle] # Raised /\ Cycle = <<node.state, at>>
      /\ bounds.depth \in Nat
  <2>1. Expanding /\ program.next[Cycle] # Raised /\ Cycle = <<node.state, at>>
    BY Evaluated
  <2>2. bounds.depth \in Nat
    BY Parameters DEF SearchInv
  <2> QED
    BY <2>1, <2>2, CycleFacts
<1>2. Len(NewPath) < bounds.depth /\ program.next[Cycle] \notin seen
  BY DEF Fresh
<1>3. Len(NewPath) \in 0..(bounds.depth - 1)
  BY <1>1, <1>2
<1>4. program.next[Cycle] \in Layer(program)[Len(NewPath)]
  BY <1>1, LayerStep
<1>5. Leads(program, NewPath, program.next[Cycle])
  BY <1>1, LeadsFurther DEF NewPath
<1> QED
  BY <1>2, <1>3, <1>4, <1>5 DEF ReachableWithin

LEMMA EvaluatePaths == SearchInv /\ Evaluate => PathsInv'
<1> SUFFICES ASSUME SearchInv, Evaluate PROVE PathsInv'
  OBVIOUS
<1>1. /\ TypeOK /\ PathsInv
      /\ program' = program /\ bounds' = bounds
      /\ Expanding /\ program.next[Cycle] # Raised /\ Cycle = <<node.state, at>>
  BY Evaluated DEF SearchInv
<1>2. ASSUME NEW q \in Waiting'
      PROVE  /\ q.state \in seen' /\ q.state # Raised
             /\ Len(q.path) < bounds.depth
             /\ Leads(program, q.path, q.state)
  <2>1. CASE q \in Waiting
    <3>1. /\ q.state \in seen /\ q.state # Raised
          /\ Len(q.path) < bounds.depth
          /\ Leads(program, q.path, q.state)
      BY <1>1, <2>1 DEF PathsInv
    <3> QED
      BY <3>1, WaitingAfter
  <2>2. CASE Kept /\ q = Found
    <3>1. Fresh /\ seen' = seen \cup {program.next[Cycle]}
      BY <2>2, Evaluated DEF Kept
    <3>2. q.state = program.next[Cycle] /\ q.path = NewPath
      BY <1>1, <2>2, CycleFacts
    <3>3. /\ Len(NewPath) \in 0..(bounds.depth - 1) /\ bounds.depth \in Nat
          /\ Leads(program, NewPath, program.next[Cycle])
      BY <1>1, <3>1, FoundFits, Parameters
    <3>4. Len(NewPath) < bounds.depth
      BY <3>3
    <3> QED
      BY <1>1, <3>1, <3>2, <3>3, <3>4
  <2> QED
    BY <2>1, <2>2, WaitingAfter
<1>3. seen' \subseteq ReachableWithin(bounds.depth - 1)
  <2>1. seen \subseteq ReachableWithin(bounds.depth - 1)
    BY <1>1 DEF PathsInv
  <2>2. Kept => program.next[Cycle] \in ReachableWithin(bounds.depth - 1)
    BY FoundFits DEF Kept
  <2> QED
    BY <2>1, <2>2, WaitingAfter
<1>4. DOMAIN witness' \subseteq EventWithin(bounds.depth)
  <2>1. DOMAIN witness \subseteq EventWithin(bounds.depth)
    BY <1>1 DEF PathsInv
  <2>2. /\ node.state \in ReachableWithin(bounds.depth - 1)
        /\ at \in Candidates(program)
    BY <1>1, CycleFacts DEF ReachableWithin
  <2>3. program.events[Cycle] \subseteq EventWithin(bounds.depth)
    BY <1>1, <2>2 DEF EventWithin
  <2> QED
    BY <2>1, <2>3, Recorded
<1>5. /\ ReachableWithin(bounds.depth - 1)' = ReachableWithin(bounds.depth - 1)
      /\ EventWithin(bounds.depth)' = EventWithin(bounds.depth)
  BY <1>1 DEF EventWithin, ReachableWithin
<1> QED
  BY <1>1, <1>2, <1>3, <1>4, <1>5 DEF PathsInv

LEMMA EvaluateReplays == SearchInv /\ Evaluate => WitnessesReplay'
<1> SUFFICES ASSUME SearchInv, Evaluate,
                    NEW e \in DOMAIN witness'
             PROVE  /\ Reproduces(witness[e], e)'
                    /\ Len(witness'[e]) <= bounds'.depth
  BY DEF WitnessesReplay
<1>1. /\ TypeOK /\ WitnessesReplay
      /\ program' = program /\ bounds' = bounds
      /\ Expanding /\ program.next[Cycle] # Raised /\ Cycle = <<node.state, at>>
  BY Evaluated DEF SearchInv
<1>2. CASE e \in DOMAIN witness
  <2>1. witness'[e] = witness[e]
    BY <1>2, Recorded
  <2>2. Reproduces(witness[e], e) /\ Len(witness[e]) <= bounds.depth
    BY <1>1, <1>2 DEF WitnessesReplay
  <2> QED
    BY <1>1, <2>1, <2>2 DEF Reproduces, Replay
<1>3. CASE e \notin DOMAIN witness
  <2>1. e \in program.events[Cycle] /\ witness'[e] = NewPath
    BY <1>3, Recorded
  <2>2. /\ at \in Candidates(program)
        /\ Len(node.path) \in 0..(bounds.depth - 1)
        /\ Leads(program, node.path, node.state)
        /\ Len(NewPath) = Len(node.path) + 1
    BY <1>1, CycleFacts
  <2>3. /\ NewPath # <<>> /\ NewPath[Len(NewPath)] = at
        /\ After(program, NewPath)[Len(NewPath) - 1] = node.state
        /\ \A n \in 1..Len(NewPath) : After(program, NewPath)[n] # Raised
    BY <1>1, <2>2, ReplayFurther DEF NewPath
  <2>4. Len(NewPath) <= bounds.depth
    BY <1>1, <2>2, Parameters
  <2>5. Reproduces(witness[e], e)'
    BY <1>1, <2>1, <2>3 DEF Reproduces, Replay
  <2> QED
    BY <1>1, <2>1, <2>4, <2>5
<1> QED
  BY <1>2, <1>3

LEMMA EvaluateCounts == SearchInv /\ Evaluate => CountsInv'
<1> SUFFICES ASSUME SearchInv, Evaluate PROVE CountsInv'
  OBVIOUS
<1>1. /\ TypeOK /\ CountsInv
      /\ program' = program /\ bounds' = bounds /\ phase' = phase
      /\ explored' = explored /\ evaluated' = evaluated + 1
      /\ transitionLimit' = transitionLimit
      /\ phase = "searching" /\ Expanding /\ ~transitionLimit
  BY Evaluated DEF SearchInv
<1>2. /\ explored \in Nat /\ evaluated \in Nat /\ IsFiniteSet(seen)
      /\ queue \in Seq(QueueNodes(program)) /\ Len(queue) \in Nat
      /\ Cardinality(seen) \in Nat
  BY <1>1, FS_CardinalityType DEF TypeOK
<1>3. explored' + Len(queue') = Cardinality(seen')
  <2>1. explored + Len(queue) = Cardinality(seen)
    BY <1>1 DEF CountsInv
  <2>2. CASE Kept
    <3>1. program.next[Cycle] \notin seen
      BY <2>2 DEF Kept, Fresh
    <3>2. Cardinality(seen \cup {program.next[Cycle]}) = Cardinality(seen) + 1
      BY <1>2, <3>1, FS_AddElement
    <3>3. Found \in QueueNodes(program)
      BY <1>1, CycleFacts
    <3>4. Len(Append(queue, Found)) = Len(queue) + 1
      BY <1>2, <3>3
    <3>5. seen' = seen \cup {program.next[Cycle]} /\ queue' = Append(queue, Found)
      BY <2>2, Evaluated
    <3> QED
      BY <1>1, <1>2, <2>1, <3>2, <3>4, <3>5
  <2>3. CASE ~Kept
    <3>1. seen' = seen /\ queue' = queue
      BY <2>3, Evaluated
    <3> QED
      BY <1>1, <2>1, <3>1
  <2> QED
    BY <2>2, <2>3
<1>4. evaluated' + Untried' = explored' * (program'.vectors + 1)
  <2>1. evaluated + Untried = explored * (program.vectors + 1)
    BY <1>1 DEF CountsInv
  <2>2. /\ program.vectors \in Nat /\ at \in Nat /\ at <= program.vectors + 1
    BY <1>1, Parameters
  <2>3. Untried = program.vectors + 2 - at
    BY <1>1 DEF Untried
  <2>4. Untried' = Untried - 1
    <3>1. CASE LastCandidate
      <4>1. ~Expanding' /\ at = program.vectors + 1
        BY <3>1, Evaluated DEF LastCandidate
      <4>2. Untried' = 0
        BY <4>1 DEF Untried
      <4> QED
        BY <2>2, <2>3, <4>1, <4>2
    <3>2. CASE ~LastCandidate
      <4>1. Expanding' /\ at' = at + 1
        BY <3>2, Evaluated
      <4>2. Untried' = program'.vectors + 2 - at'
        BY <4>1 DEF Untried
      <4> QED
        BY <1>1, <2>2, <2>3, <4>1, <4>2
    <3> QED
      BY <3>1, <3>2
  <2> QED
    BY <1>1, <1>2, <2>1, <2>2, <2>3, <2>4
<1> QED
  BY <1>1, <1>3, <1>4 DEF CountsInv

LEMMA EvaluateLimits == SearchInv /\ Evaluate => LimitsAreReal'
<1> SUFFICES ASSUME SearchInv, Evaluate PROVE LimitsAreReal'
  OBVIOUS
<1>1. /\ TypeOK /\ PathsInv /\ LimitsAreReal
      /\ program' = program /\ bounds' = bounds
      /\ transitionLimit' = transitionLimit /\ ~transitionLimit
      /\ stateLimit' = LimitAfter
  BY Evaluated DEF SearchInv
<1>2. stateLimit' =>
        Cardinality(ReachableWithin(bounds.depth - 1)) > bounds.states
  <2>1. CASE stateLimit
    BY <1>1, <2>1 DEF LimitsAreReal
  <2>2. CASE Fresh /\ Cardinality(seen) >= bounds.states
    <3> DEFINE larger == seen \cup {program.next[Cycle]}
               reach == ReachableWithin(bounds.depth - 1)
    <3>1. /\ program.vectors \in Nat /\ bounds.states \in Nat
          /\ bounds.depth - 1 \in Nat
      BY <1>1, Parameters
    <3>2. IsFiniteSet(seen) /\ Cardinality(seen) \in Nat
      BY <1>1, FS_CardinalityType DEF TypeOK
    <3>3. program.next[Cycle] \notin seen /\ program.next[Cycle] \in reach
      BY <2>2, FoundFits
    <3>4. Cardinality(larger) = Cardinality(seen) + 1
      BY <3>2, <3>3, FS_AddElement
    <3>5. reach = Within(program, bounds.depth - 1)
      BY DEF ReachableWithin, Within
    <3>6. IsFiniteSet(reach)
      BY <3>1, <3>5, WithinFinite
    <3>7. larger \in SUBSET reach
      BY <1>1, <3>3 DEF PathsInv
    <3> HIDE DEF larger, reach
    <3>8. Cardinality(larger) <= Cardinality(reach) /\ Cardinality(reach) \in Nat
      BY <3>6, <3>7, FS_Subset, FS_CardinalityType
    <3>9. Cardinality(reach) > bounds.states
      BY <2>2, <3>1, <3>2, <3>4, <3>8
    <3> QED
      BY <3>9 DEF reach
  <2> QED
    BY <1>1, <2>1, <2>2 DEF LimitAfter
<1> QED
  BY <1>1, <1>2 DEF LimitsAreReal, ReachableWithin

(* A search that dropped no state, at its level, with the cycle evaluated. *)
LEMMA EvaluateLevel ==
  ASSUME SearchInv, Evaluate, ~stateLimit',
         NEW l \in 0..(bounds.depth - 1), Level(l)
  PROVE  Level(l)'
<1>1. /\ TypeOK
      /\ program' = program /\ bounds' = bounds
      /\ Expanding /\ program.next[Cycle] # Raised /\ Cycle = <<node.state, at>>
      /\ stateLimit' = LimitAfter
      /\ Kept => queue' = Append(queue, Found)
      /\ Kept => seen' = seen \cup {program.next[Cycle]}
      /\ ~Kept => queue' = queue
      /\ Expanding' => node' = node
  BY Evaluated DEF SearchInv
<1>2. /\ Len(node.path) = l
      /\ \A i \in 1..Len(queue) : Len(queue[i].path) \in {l, l + 1}
      /\ \A i, j \in 1..Len(queue) :
           i < j => Len(queue[i].path) <= Len(queue[j].path)
      /\ \A k \in 0..l : Layer(program)[k] \subseteq seen
      /\ \A q \in Waiting : \A k \in 0..(Len(q.path) - 1) :
           q.state \notin Layer(program)[k]
      /\ \A state \in seen, c \in Candidates(program) :
           Pending(state, c) \/ Settled(state, c, l)
  BY <1>1 DEF Level
<1>3. /\ Found \in QueueNodes(program) /\ Found.path = NewPath
      /\ Found.state = program.next[Cycle]
      /\ Len(NewPath) = l + 1
      /\ queue \in Seq(QueueNodes(program))
  BY <1>1, <1>2, CycleFacts DEF TypeOK
<1>4. /\ Entries(queue) \subseteq Entries(queue')
      /\ Kept => Found \in Entries(queue')
      /\ Waiting' \subseteq Waiting \cup {q \in {Found} : Kept}
      /\ seen \subseteq seen'
      /\ seen' \subseteq seen \cup {s \in {program.next[Cycle]} : Kept}
  BY WaitingAfter
<1>5. /\ \A i \in 1..Len(queue') : Len(queue'[i].path) \in {l, l + 1}
      /\ \A i, j \in 1..Len(queue') :
           i < j => Len(queue'[i].path) <= Len(queue'[j].path)
  <2>1. CASE Kept
    <3>1. /\ Len(queue') = Len(queue) + 1 /\ Len(queue) \in Nat
          /\ \A i \in 1..Len(queue) : queue'[i] = queue[i]
          /\ queue'[Len(queue) + 1] = Found
      <4>1. queue' = Append(queue, Found)
        BY <1>1, <2>1
      <4>2. /\ Len(Append(queue, Found)) = Len(queue) + 1 /\ Len(queue) \in Nat
            /\ \A i \in 1..Len(queue) : Append(queue, Found)[i] = queue[i]
            /\ Append(queue, Found)[Len(queue) + 1] = Found
        BY <1>3
      <4> QED
        BY <4>1, <4>2
    <3>2. \A i \in 1..Len(queue') : i \in 1..Len(queue) \/ i = Len(queue) + 1
      BY <3>1
    <3>3. \A i \in 1..Len(queue') : Len(queue'[i].path) \in {l, l + 1}
      BY <1>2, <1>3, <3>1, <3>2
    <3>4. ASSUME NEW i \in 1..Len(queue'), NEW j \in 1..Len(queue'), i < j
          PROVE  Len(queue'[i].path) <= Len(queue'[j].path)
      <4>1. i \in 1..Len(queue)
        BY <3>1, <3>4
      <4>2. CASE j \in 1..Len(queue)
        BY <1>2, <3>1, <3>4, <4>1, <4>2
      <4>3. CASE j = Len(queue) + 1
        <5>1. Len(queue'[j].path) = l + 1 /\ Len(queue'[i].path) \in {l, l + 1}
          BY <1>3, <3>1, <3>3, <4>3
        <5> QED
          BY <5>1
      <4> QED
        BY <3>2, <4>2, <4>3
    <3> QED
      BY <3>3, <3>4
  <2>2. CASE ~Kept
    BY <1>1, <1>2, <2>2
  <2> QED
    BY <2>1, <2>2
<1>6. \A k \in 0..l : Layer(program)[k] \subseteq seen'
  BY <1>2, <1>4
<1>7. ASSUME NEW q \in Waiting', NEW k \in 0..(Len(q.path) - 1)
      PROVE  q.state \notin Layer(program)[k]
  <2>1. CASE q \in Waiting
    BY <1>2, <2>1
  <2>2. CASE Kept /\ q = Found
    <3>1. q.state = program.next[Cycle] /\ k \in 0..l
      BY <1>3, <2>2
    <3>2. program.next[Cycle] \notin seen
      BY <2>2 DEF Kept, Fresh
    <3> QED
      BY <1>2, <3>1, <3>2
  <2> QED
    BY <1>4, <2>1, <2>2
<1>8. ASSUME NEW state \in seen', NEW c \in Candidates(program)
      PROVE  Pending(state, c)' \/ Settled(state, c, l)'
  <2>1. CASE state \in seen /\ Settled(state, c, l)
    BY <1>1, <1>4, <2>1, Recorded DEF Settled
  <2>2. CASE \E q \in Entries(queue) : q.state = state
    BY <1>4, <2>2 DEF Pending, Entries
  <2>3. CASE state = node.state /\ c = at
    <3>1. program.next[Cycle] \in seen' \/ l + 1 >= bounds.depth
      <4>1. CASE Kept
        BY <1>1, <4>1
      <4>2. CASE ~Fresh
        <5>1. program.next[Cycle] \in seen \/ ~(l + 1 < bounds.depth)
          BY <1>3, <4>2 DEF Fresh
        <5> QED
          BY <1>1, <1>4, <5>1, Parameters
      <4>3. CASE Fresh /\ ~Room
        <5>1. ~(Cardinality(seen) >= bounds.states)
          BY <1>1, <4>3 DEF LimitAfter
        <5>2. Cardinality(seen) \in Nat /\ bounds.states \in Nat
          BY <1>1, FS_CardinalityType, Parameters DEF TypeOK
        <5> QED
          BY <4>3, <5>1, <5>2 DEF Room
      <4> QED
        BY <4>1, <4>2, <4>3 DEF Kept
    <3>2. program.events[Cycle] \subseteq DOMAIN witness'
      BY Recorded
    <3> QED
      BY <1>1, <2>3, <3>1, <3>2 DEF Settled
  <2>4. CASE state = node.state /\ c >= at /\ c # at
    <3>1. /\ at \in Nat /\ c \in Nat /\ c <= program.vectors + 1
          /\ program.vectors \in Nat
      BY <1>1, Parameters
    <3>2. ~LastCandidate /\ c >= at + 1
      BY <2>4, <3>1 DEF LastCandidate
    <3>3. Expanding' /\ at' = at + 1 /\ node' = node
      BY <3>2, Evaluated
    <3> QED
      BY <2>4, <3>2, <3>3 DEF Pending
  <2>5. CASE Kept /\ state = program.next[Cycle]
    <3>1. Found \in Entries(queue') /\ Found.state = state
      BY <1>3, <1>4, <2>5
    <3> QED
      BY <3>1 DEF Pending, Entries
  <2>6. state \in seen => Pending(state, c) \/ Settled(state, c, l)
    BY <1>2
  <2> QED
    BY <1>4, <2>1, <2>2, <2>3, <2>4, <2>5, <2>6 DEF Pending
<1>9. Expanding' => Len(node'.path) = l
  BY <1>1, <1>2
<1> QED
  BY <1>1, <1>5, <1>6, <1>7, <1>8, <1>9 DEF Level

(* Nothing shorter shows a new event: its cycles would be settled.         *)
LEMMA EvaluateShortest == SearchInv /\ Evaluate => WitnessesShortest'
<1> SUFFICES ASSUME SearchInv, Evaluate, ~stateLimit',
                    NEW e \in DOMAIN witness',
                    NEW n \in 1..(Len(witness'[e]) - 1)
             PROVE  ~EventAt(e, n)'
  BY DEF WitnessesShortest
<1>1. /\ FrontierInv /\ WitnessesShortest
      /\ program' = program /\ Expanding /\ ~transitionLimit
      /\ stateLimit' = LimitAfter
  BY Evaluated DEF SearchInv
<1>2. ~stateLimit
  BY <1>1 DEF LimitAfter
<1>3. EventAt(e, n)' <=> EventAt(e, n)
  BY <1>1 DEF EventAt
<1>4. CASE e \in DOMAIN witness
  <2>1. witness'[e] = witness[e]
    BY <1>4, Recorded
  <2> QED
    BY <1>1, <1>2, <1>3, <1>4, <2>1 DEF WitnessesShortest
<1>5. CASE e \notin DOMAIN witness
  <2>1. PICK l \in 0..(bounds.depth - 1) : Level(l)
    BY <1>1, <1>2 DEF FrontierInv, Truncated
  <2>2. /\ Len(node.path) = l
        /\ \A i \in 1..Len(queue) : Len(queue[i].path) \in {l, l + 1}
        /\ \A k \in 0..l : Layer(program)[k] \subseteq seen
        /\ \A q \in Waiting : \A k \in 0..(Len(q.path) - 1) :
             q.state \notin Layer(program)[k]
        /\ \A state \in seen, c \in Candidates(program) :
             Pending(state, c) \/ Settled(state, c, l)
    BY <1>1, <2>1 DEF Level
  <2>3. witness'[e] = NewPath
    BY <1>5, Recorded
  <2>4. Len(NewPath) = l + 1
    BY <1>1, <2>2, CycleFacts
  <2>5. n - 1 \in 0..(l - 1) /\ n - 1 \in 0..l
    BY <2>3, <2>4
  <2>6. ASSUME NEW state \in Layer(program)[n - 1], NEW c \in Candidates(program)
        PROVE  Settled(state, c, l)
    <3>1. state \in seen
      BY <2>2, <2>5
    <3>2. ~Pending(state, c)
      <4>1. ASSUME NEW q \in Entries(queue), q.state = state PROVE FALSE
        <5>1. PICK i \in 1..Len(queue) : q = queue[i]
          BY DEF Entries
        <5>2. Len(q.path) \in {l, l + 1} /\ q \in Waiting
          BY <2>2, <5>1 DEF Waiting
        <5>3. n - 1 \in 0..(Len(q.path) - 1)
          BY <2>5, <5>2
        <5> QED
          BY <2>2, <4>1, <5>2, <5>3
      <4>2. node.state # state
        <5>1. node \in Waiting /\ n - 1 \in 0..(Len(node.path) - 1)
          BY <1>1, <2>2, <2>5 DEF Waiting
        <5> QED
          BY <2>2, <5>1
      <4> QED
        BY <4>1, <4>2 DEF Pending
    <3> QED
      BY <2>2, <3>1, <3>2
  <2>7. ~EventAt(e, n)
    BY <1>5, <2>6 DEF EventAt, Settled
  <2> QED
    BY <1>3, <2>7
<1> QED
  BY <1>4, <1>5

LEMMA EvaluateInv == SearchInv /\ Evaluate => SearchInv'
<1> SUFFICES ASSUME SearchInv, Evaluate PROVE SearchInv'
  OBVIOUS
<1>1. FrontierInv'
  <2> SUFFICES ASSUME ~stateLimit', ~transitionLimit'
               PROVE  \E l \in 0..(bounds'.depth - 1) : Level(l)'
    BY DEF FrontierInv, Truncated
  <2>1. /\ FrontierInv /\ bounds' = bounds
        /\ ~transitionLimit /\ stateLimit' = LimitAfter
    BY Evaluated DEF SearchInv
  <2>2. PICK l \in 0..(bounds.depth - 1) : Level(l)
    BY <2>1 DEF FrontierInv, Truncated, LimitAfter
  <2>3. Level(l)'
    BY <2>2, EvaluateLevel
  <2> QED
    BY <2>1, <2>3
<1> QED
  BY <1>1, EvaluateTypes, EvaluatePaths, EvaluateCounts, EvaluateReplays,
     EvaluateShortest, EvaluateLimits DEF SearchInv

LEMMA NextInv == SearchInv /\ [Next]_vars => SearchInv'
<1> SUFFICES ASSUME SearchInv, [Next]_vars PROVE SearchInv'
  OBVIOUS
<1>1. phase \in {"checking", "searching", "reported", "failed"}
  BY DEF SearchInv, TypeOK
<1>2. CASE Reject
  <2>1. /\ program' = program /\ bounds' = bounds /\ UNCHANGED <<search, limits>>
        /\ phase' = "failed"
    BY <1>2 DEF Reject, documents
  <2> QED
    BY <2>1, PhaseStep
<1>3. CASE Accept
  <2>1. /\ program' = program /\ bounds' = bounds /\ UNCHANGED <<search, limits>>
        /\ phase = "checking" /\ phase' = "searching"
    BY <1>3 DEF Accept, documents
  <2> QED
    BY <2>1, PhaseStep
<1>4. CASE TakeNode
  BY <1>4, TakeInv
<1>5. CASE StopAtTransitionLimit
  BY <1>5, StopInv
<1>6. CASE Abort
  BY <1>6, AbortInv
<1>7. CASE Evaluate
  BY <1>7, EvaluateInv
<1>8. CASE Report
  <2>1. /\ program' = program /\ bounds' = bounds /\ UNCHANGED <<search, limits>>
        /\ phase = "searching" /\ phase' = "reported"
        /\ ~Expanding /\ queue = <<>>
    BY <1>8 DEF Report, documents
  <2> QED
    BY <2>1, PhaseStep
<1>9. CASE UNCHANGED vars
  <2>1. /\ program' = program /\ bounds' = bounds /\ UNCHANGED <<search, limits>>
        /\ phase' = phase
    BY <1>9 DEF vars, documents
  <2>2. phase = "reported" => ~Expanding /\ queue = <<>>
    BY DEF SearchInv, CountsInv
  <2> QED
    BY <1>1, <2>1, <2>2, PhaseStep
<1> QED
  BY <1>2, <1>3, <1>4, <1>5, <1>6, <1>7, <1>8, <1>9 DEF Next

LEMMA Invariance == Spec => []SearchInv
BY InitInv, NextInv, PTL DEF Spec

-----------------------------------------------------------------------------
(* The verdict                                                             *)

(* When nothing waits in a search that was not truncated, it has seen all  *)
(* that it can within the depth.                                           *)
LEMMA AllSeen ==
  ASSUME SearchInv, ~Truncated, ~Expanding, queue = <<>>
  PROVE  EventWithin(bounds.depth) \subseteq DOMAIN witness
<1>1. TypeOK /\ FrontierInv
  BY DEF SearchInv
<1>2. bounds.depth \in Nat \ {0}
  BY <1>1, Parameters
<1>3. PICK l \in 0..(bounds.depth - 1) : Level(l)
  BY <1>1 DEF FrontierInv
<1>4. /\ \A k \in 0..l : Layer(program)[k] \subseteq seen
      /\ \A state \in seen, c \in Candidates(program) : Settled(state, c, l)
  <2>1. \A state, c : ~Pending(state, c)
    BY EntriesEmpty DEF Pending
  <2> QED
    BY <1>3, <2>1 DEF Level
<1> DEFINE Inside == {n \in Nat : n < bounds.depth => Layer(program)[n] \subseteq seen}
<1>5. 0 \in Inside
  BY <1>4
<1>6. ASSUME NEW n \in Nat, n \in Inside
      PROVE  n + 1 \in Inside
  <2> SUFFICES ASSUME n + 1 < bounds.depth, NEW state \in Layer(program)[n + 1]
               PROVE  state \in seen
    OBVIOUS
  <2>1. CASE l + 1 >= bounds.depth
    <3>1. n + 1 \in 0..l
      BY <1>2, <2>1
    <3> QED
      BY <1>4, <3>1
  <2>2. CASE ~(l + 1 >= bounds.depth)
    <3>1. PICK before \in Layer(program)[n], c \in Candidates(program) :
            state = program.next[<<before, c>>] /\ state # Raised
      BY LayerBack
    <3>2. before \in seen
      BY <1>2, <1>6
    <3>3. Settled(before, c, l)
      BY <1>4, <3>2
    <3> QED
      BY <2>2, <3>1, <3>3 DEF Settled
  <2> QED
    BY <2>1, <2>2
<1> HIDE DEF Inside
<1>7. \A n \in Nat : n \in Inside
  BY <1>5, <1>6, SetInduction
<1>8. ASSUME NEW n \in 0..(bounds.depth - 1)
      PROVE  Layer(program)[n] \subseteq seen
  <2>1. n \in Nat /\ n < bounds.depth
    BY <1>2
  <2> QED
    BY <1>7, <2>1 DEF Inside
<1>9. ReachableWithin(bounds.depth - 1) \subseteq seen
  BY <1>8 DEF ReachableWithin
<1> QED
  BY <1>4, <1>9 DEF EventWithin, Settled

LEMMA SearchInvVerdict == SearchInv => VerdictIsRight
<1> SUFFICES ASSUME SearchInv, phase = "reported"
             PROVE  /\ Covered \subseteq Attainable
                    /\ ~Truncated => Covered = Attainable
                    /\ Passed => Attainable = Obligations
  BY DEF VerdictIsRight
<1>1. DOMAIN witness \subseteq EventWithin(bounds.depth)
  BY DEF SearchInv, PathsInv
<1>2. Covered \subseteq Attainable
  BY <1>1 DEF Covered, Attainable
<1>3. ASSUME ~Truncated PROVE Covered = Attainable
  <2>1. ~Expanding /\ queue = <<>>
    BY DEF SearchInv, CountsInv
  <2>2. DOMAIN witness = EventWithin(bounds.depth)
    BY <1>1, <1>3, <2>1, AllSeen
  <2> QED
    BY <2>2 DEF Covered, Attainable
<1> QED
  BY <1>2, <1>3 DEF Passed

-----------------------------------------------------------------------------
(* The theorems                                                            *)

(* Every variable of synthesize keeps its type: queue and node hold paths  *)
(* of candidates, and seen_states stays finite.                            *)
THEOREM TypeCorrect == Spec => []TypeOK
<1>1. SearchInv => TypeOK
  BY DEF SearchInv
<1> QED
  BY <1>1, Invariance, PTL

(* Every synthesized scenario, run by itself from the initial state, is    *)
(* accepted cycle by cycle and shows the event it was kept for in its last *)
(* cycle: queue and witness_paths never mix up two paths.                  *)
THEOREM WitnessesGenuine == Spec => []WitnessesReplay
<1>1. SearchInv => WitnessesReplay
  BY DEF SearchInv
<1> QED
  BY <1>1, Invariance, PTL

(* The scenario kept for an event is one of the shortest that show it,     *)
(* unless a state was dropped at the state limit: the order of the queue   *)
(* and setdefault give what the document calls a shortest witness.         *)
THEOREM WitnessesMinimal == Spec => []WitnessesShortest
<1>1. SearchInv => WitnessesShortest
  BY DEF SearchInv
<1> QED
  BY <1>1, Invariance, PTL

(* The classification of the obligations in the report is that of the      *)
(* program: nothing covered is unattainable, and a search that reports no  *)
(* limit covers all that is attainable within the declared depth.          *)
THEOREM VerdictCorrect == Spec => []VerdictIsRight
BY Invariance, SearchInvVerdict, PTL

(* state_limit_reached and transition_limit_reached are set only where     *)
(* more states or more evaluations than allowed were there to be made.     *)
THEOREM LimitsGenuine == Spec => []LimitsAreReal
<1>1. SearchInv => LimitsAreReal
  BY DEF SearchInv
<1> QED
  BY <1>1, Invariance, PTL
-----------------------------------------------------------------------------
(* The declared bounds, and the end of the search                          *)

(* No more states are kept than bounds.states, none is taken up twice, and *)
(* no more cycles are run than bounds.transitions.                         *)
WithinBounds ==
  /\ Cardinality(seen) <= bounds.states
  /\ explored <= Cardinality(seen)
  /\ evaluated <= bounds.transitions

(* The amounts that the bounds leave, as numbers.                          *)
LEMMA Amounts ==
  ASSUME SearchInv
  PROVE  /\ bounds.states \in Nat \ {0} /\ bounds.transitions \in Nat \ {0}
         /\ explored \in Nat /\ evaluated \in Nat
         /\ IsFiniteSet(seen) /\ Cardinality(seen) \in Nat
<1>1. TypeOK
  BY DEF SearchInv
<1> QED
  BY <1>1, Parameters, FS_CardinalityType DEF TypeOK

LEMMA InitWithinBounds == Init => WithinBounds
<1> SUFFICES ASSUME Init PROVE WithinBounds
  OBVIOUS
<1>1. Cardinality(seen) = 1
  BY FS_Singleton DEF Init
<1>2. bounds.states \in Nat \ {0} /\ bounds.transitions \in Nat \ {0}
  BY BoundsAssumption DEF Init
<1> QED
  BY <1>1, <1>2 DEF Init, WithinBounds

(* The steps that neither take up a state nor run a cycle.                 *)
LEMMA WithinBoundsKept ==
  ASSUME WithinBounds, UNCHANGED <<bounds, seen, explored, evaluated>>
  PROVE  WithinBounds'
BY DEF WithinBounds

(* The declared search bounds hold throughout synthesize: the tests before *)
(* a state is kept and before a cycle is run are enough, and the count of  *)
(* explored states is one of different states.                             *)
THEOREM BoundsRespected == Spec => []WithinBounds
<1>1. ASSUME SearchInv, WithinBounds, [Next]_vars PROVE WithinBounds'
  <2> USE DEF WithinBounds
  <2>1. CASE Reject \/ Accept \/ Report \/ UNCHANGED vars
    BY <1>1, <2>1, WithinBoundsKept
       DEF Reject, Accept, Report, vars, documents, search
  <2>2. CASE StopAtTransitionLimit
    BY <1>1, <2>2, WithinBoundsKept DEF StopAtTransitionLimit, documents
  <2>3. CASE TakeNode
    <3>1. queue # <<>> /\ explored' = explored + 1
          /\ bounds' = bounds /\ seen' = seen /\ evaluated' = evaluated
      BY <1>1, <2>3, Taken
    <3>2. explored + Len(queue) = Cardinality(seen)
      BY <1>1, <3>1 DEF SearchInv, CountsInv, TypeOK
    <3>3. Len(queue) \in Nat \ {0}
      BY <1>1, <3>1 DEF SearchInv, TypeOK
    <3> QED
      BY <1>1, <3>1, <3>2, <3>3, Amounts
  <2>4. CASE Abort
    BY <1>1, <2>4, Amounts DEF Abort, documents
  <2>5. CASE Evaluate
    <3>1. /\ bounds' = bounds /\ explored' = explored
          /\ evaluated' = evaluated + 1 /\ evaluated < bounds.transitions
      BY <1>1, <2>5, Evaluated DEF Evaluate
    <3>2. Cardinality(seen') \in Nat /\ Cardinality(seen) <= Cardinality(seen')
          /\ Cardinality(seen') <= bounds.states
      <4>1. CASE Kept
        <5>1. seen' = seen \cup {program.next[Cycle]}
          BY <1>1, <2>5, <4>1, Evaluated
        <5>2. program.next[Cycle] \notin seen /\ Cardinality(seen) < bounds.states
          BY <4>1 DEF Kept, Fresh, Room
        <5>3. Cardinality(seen') = Cardinality(seen) + 1
          BY <1>1, <5>1, <5>2, Amounts, FS_AddElement
        <5> QED
          BY <1>1, <5>2, <5>3, Amounts
      <4>2. CASE ~Kept
        <5>1. seen' = seen
          BY <1>1, <2>5, <4>2, Evaluated
        <5> QED
          BY <1>1, <5>1, Amounts
      <4> QED
        BY <4>1, <4>2
    <3> QED
      BY <1>1, <3>1, <3>2, Amounts
  <2> QED
    BY <1>1, <2>1, <2>2, <2>3, <2>4, <2>5 DEF Next
<1> QED
  BY <1>1, InitWithinBounds, Invariance, PTL DEF Spec

(* What the bounds leave to do, and the ends of the checks and the search. *)
Rank ==
  IF phase = "checking" THEN 3
  ELSE IF phase # "searching" THEN 0
  ELSE IF transitionLimit THEN 1 ELSE 2

Work ==
  (bounds.states - explored) + (bounds.transitions - evaluated) + Rank

(* Every step of synthesize takes work off a finite amount of it.          *)
WorkDecreases == [][Work' \in Nat /\ Work' < Work]_vars

(* WorkDecreases for every program and bounds: whatever the transition     *)
(* function, the search ends after at most as many steps as its bounds     *)
(* allow.                                                                  *)
THEOREM WorkIsBounded == Spec => WorkDecreases
<1>1. ASSUME SearchInv, WithinBounds, WithinBounds', [Next]_vars
      PROVE  [Work' \in Nat /\ Work' < Work]_vars
  <2> DEFINE Left == (bounds.states - explored) + (bounds.transitions - evaluated)
  <2>1. Left \in Nat
    BY <1>1, Amounts DEF WithinBounds
  <2>2. CASE Reject \/ Accept \/ Report
    <3>1. UNCHANGED <<bounds, explored, evaluated, transitionLimit>>
      BY <2>2 DEF Reject, Accept, Report, documents, search, limits
    <3>2. Rank' \in Nat /\ Rank' < Rank
      BY <2>2, <3>1 DEF Reject, Accept, Report, Rank
    <3>3. Rank \in Nat
      BY DEF Rank
    <3> QED
      BY <2>1, <3>1, <3>2, <3>3 DEF Work
  <2>3. CASE StopAtTransitionLimit
    <3>1. UNCHANGED <<bounds, explored, evaluated>>
      BY <2>3 DEF StopAtTransitionLimit, documents
    <3>2. ~transitionLimit
      BY <1>1, <2>3 DEF StopAtTransitionLimit, SearchInv, CountsInv
    <3>3. Rank = 2 /\ Rank' = 1
      BY <2>3, <3>2 DEF StopAtTransitionLimit, Rank
    <3> QED
      BY <2>1, <3>1, <3>3 DEF Work
  <2>4. CASE TakeNode
    <3>1. /\ explored' = explored + 1 /\ bounds' = bounds
          /\ evaluated' = evaluated /\ Rank' = Rank
          /\ Cardinality(seen') = Cardinality(seen)
      BY <1>1, <2>4, Taken DEF Rank
    <3>2. Rank \in Nat
      BY DEF Rank
    <3>3. explored + 1 <= Cardinality(seen)
      BY <1>1, <3>1 DEF WithinBounds
    <3>4. explored + 1 <= bounds.states
      BY <1>1, <3>3, Amounts DEF WithinBounds
    <3> QED
      BY <1>1, <3>1, <3>2, <3>4, Amounts DEF Work, WithinBounds
  <2>5. CASE Abort \/ Evaluate
    <3>1. /\ evaluated' = evaluated + 1 /\ evaluated < bounds.transitions
          /\ bounds' = bounds /\ explored' = explored
          /\ transitionLimit' = transitionLimit /\ phase = "searching"
          /\ phase' \in {"searching", "failed"}
      BY <2>5 DEF Abort, Evaluate, documents, limits
    <3>2. Rank \in Nat /\ Rank' \in Nat /\ Rank' <= Rank
      BY <3>1 DEF Rank
    <3> QED
      BY <1>1, <3>1, <3>2, Amounts DEF Work, WithinBounds
  <2> QED
    BY <1>1, <2>2, <2>3, <2>4, <2>5 DEF Next
<1> QED
  BY <1>1, BoundsRespected, Invariance, PTL DEF Spec, WorkDecreases
=============================================================================
