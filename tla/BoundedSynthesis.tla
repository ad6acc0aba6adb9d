--------------------------- MODULE BoundedSynthesis ---------------------------
(***************************************************************************)
(* The bounded breadth-first search for assurance scenarios, synthesize    *)
(* of src/tools/assurance_test_synthesizer.py.  The AIR program is a       *)
(* deterministic transition function on retained states; a candidate is an *)
(* input vector, or the blocking fault run with the first vector.  An      *)
(* event of a cycle is an obligation it hits or a decision observation;    *)
(* an MC/DC obligation is covered by two observations that form its pair.  *)
(***************************************************************************)
EXTENDS Integers, Sequences, FiniteSets

CONSTANTS
  Raised,   \* the result of a cycle the executor refuses
  Programs  \* what the search is run on: records with
            \*   next, events  the final state and the events of a cycle
            \*   initial       the AIR initializers
            \*   vectors       the number of input vectors of the domain
            \*   direct        the obligations that single cycles hit
            \*   mcdc          the MC/DC pair obligations
            \*   pairs         the observation pairs that satisfy each
            \*   documents     whether the documents are well-formed
            \*   bounds        declared search_bounds

ASSUME ProgramsAssumption ==
  \A p \in Programs :
    /\ p.vectors \in Nat \ {0}
    /\ DOMAIN p.next = DOMAIN p.events
    /\ p.initial # Raised
    /\ p.mcdc \cap p.direct = {}
    /\ DOMAIN p.pairs = p.mcdc
ASSUME BoundsAssumption ==
  \A p \in Programs : \A b \in p.bounds :
    b.depth \in Nat \ {0} /\ b.states \in Nat \ {0}
    /\ b.transitions \in Nat \ {0}

VARIABLES
  wellFormed,       \* the documents pass every structural check
  program,          \* the AIR under search
  bounds,           \* domain["search_bounds"]
  phase,            \* where synthesize is
  queue,            \* queue: states to expand, with the path to each
  node,             \* the node being expanded, none between two
  at,               \* its next candidate
  seen,             \* seen_states
  witness,          \* witness_paths and decision_observations
  explored,         \* states_explored
  evaluated,        \* transitions_explored
  stateLimit,       \* state_limit_reached
  transitionLimit,  \* transition_limit_reached
  depthFrontier     \* depth_frontier_remaining

Obligations == program.direct \cup program.mcdc

documents == <<wellFormed, program, bounds>>
limits == <<stateLimit, transitionLimit, depthFrontier>>
search == <<queue, node, at, seen, witness, explored, evaluated>>
vars == <<documents, phase, search, limits>>

NoNode == [state |-> Raised, path |-> <<>>]

Expanding == node.state # Raised

Init ==
  /\ program \in Programs
  /\ wellFormed \in program.documents
  /\ bounds \in program.bounds
  /\ phase = "checking"
  /\ queue = <<[state |-> program.initial, path |-> <<>>]>>
  /\ node = NoNode
  /\ at = 1
  /\ seen = {program.initial}
  /\ witness = [e \in {} |-> <<>>]
  /\ explored = 0
  /\ evaluated = 0
  /\ stateLimit = FALSE
  /\ transitionLimit = FALSE
  /\ depthFrontier = FALSE

(* validate_domain compares the bounds without the fault candidate.        *)
BoundsAccepted == program.vectors * bounds.states <= bounds.transitions

Reject ==
  /\ phase = "checking"
  /\ ~wellFormed \/ ~BoundsAccepted
  /\ phase' = "failed"
  /\ UNCHANGED <<documents, search, limits>>

Accept ==
  /\ phase = "checking"
  /\ wellFormed
  /\ BoundsAccepted
  /\ phase' = "searching"
  /\ UNCHANGED <<documents, search, limits>>

(* Defect: the search works as a stack.                                    *)
TakeLast ==
  /\ phase = "searching" /\ ~Expanding /\ queue # <<>>
  /\ node' = queue[Len(queue)]
  /\ queue' = SubSeq(queue, 1, Len(queue) - 1)
  /\ at' = 1
  /\ explored' = explored + 1
  /\ UNCHANGED <<documents, phase, seen, witness, evaluated, limits>>

(* queue.popleft and the depth test.                                       *)
TakeNode ==
  /\ phase = "searching" /\ ~Expanding /\ queue # <<>>
  /\ queue' = Tail(queue)
  /\ explored' = explored + 1
  /\ LET tooDeep == Len(Head(queue).path) >= bounds.depth
     IN  /\ node' = IF tooDeep THEN NoNode ELSE Head(queue)
         /\ depthFrontier' = (depthFrontier \/ tooDeep)
  /\ at' = 1
  /\ UNCHANGED <<documents, phase, seen, witness, evaluated, stateLimit,
                 transitionLimit>>

(* Defect: the limit noted, the loop not left.                             *)
NoteTransitionLimit ==
  /\ phase = "searching" /\ Expanding
  /\ evaluated >= bounds.transitions
  /\ transitionLimit' = TRUE
  /\ UNCHANGED <<documents, phase, search, stateLimit, depthFrontier>>

StopAtTransitionLimit ==
  /\ phase = "searching" /\ Expanding
  /\ evaluated >= bounds.transitions
  /\ transitionLimit' = TRUE
  /\ queue' = <<>>
  /\ node' = NoNode
  /\ UNCHANGED <<documents, phase, at, seen, witness, explored, evaluated,
                 stateLimit, depthFrontier>>

Cycle == <<node.state, at>>

(* Defect: the path of the expanded node recorded, without the cycle.      *)
PathOfNode == node.path

NewPath == Append(node.path, at)

(* An ExecutorError ends the synthesis.                                    *)
Abort ==
  /\ phase = "searching" /\ Expanding
  /\ evaluated < bounds.transitions
  /\ program.next[Cycle] = Raised
  /\ phase' = "failed"
  /\ evaluated' = evaluated + 1
  /\ UNCHANGED <<documents, queue, node, at, seen, witness, explored, limits>>

(* setdefault: the first path to an event is kept.                         *)
Record ==
  [e \in DOMAIN witness \cup program.events[Cycle] |->
     IF e \in DOMAIN witness THEN witness[e] ELSE NewPath]

Fresh == program.next[Cycle] \notin seen /\ Len(NewPath) < bounds.depth

(* Defect: states beyond the limit dropped without a word.                 *)
NoLimitReported == stateLimit

(* Defect: a full set of states taken for a reached limit.                 *)
LimitWhenFull == stateLimit \/ Cardinality(seen) >= bounds.states

LimitAfter == stateLimit \/ (Fresh /\ Cardinality(seen) >= bounds.states)

Room == Cardinality(seen) < bounds.states

(* Defect: the fault is never tried.                                       *)
FaultSkipped == at = program.vectors

LastCandidate == at = program.vectors + 1

(* One candidate of the node: a cycle, its events, and its final state.    *)
Evaluate ==
  /\ phase = "searching" /\ Expanding
  /\ evaluated < bounds.transitions
  /\ program.next[Cycle] # Raised
  /\ evaluated' = evaluated + 1
  /\ witness' = Record
  /\ LET reached == program.next[Cycle]
         kept == Fresh /\ Room
     IN  /\ seen' = IF kept THEN seen \cup {reached} ELSE seen
         /\ queue' = IF kept
                     THEN Append(queue, [state |-> reached, path |-> NewPath])
                     ELSE queue
  /\ stateLimit' = LimitAfter
  /\ node' = IF LastCandidate THEN NoNode ELSE node
  /\ at' = IF LastCandidate THEN 1 ELSE at + 1
  /\ UNCHANGED <<documents, phase, explored, transitionLimit, depthFrontier>>

Report ==
  /\ phase = "searching" /\ ~Expanding /\ queue = <<>>
  /\ phase' = "reported"
  /\ UNCHANGED <<documents, search, limits>>

Next ==
  \/ Reject
  \/ Accept
  \/ TakeNode
  \/ StopAtTransitionLimit
  \/ Abort
  \/ Evaluate
  \/ Report

Spec == Init /\ [][Next]_vars

(* synthesize is a sequential function: it runs until it returns.          *)
FairSpec == Spec /\ WF_vars(Next)

(* The obligations of the scenario document.                               *)
Covered ==
  {o \in program.direct : o \in DOMAIN witness}
    \cup {m \in program.mcdc : \E pair \in program.pairs[m] : pair \subseteq DOMAIN witness}

Truncated == stateLimit \/ transitionLimit

(* search_summary.termination_reason                                       *)
TerminationReason ==
  CASE transitionLimit -> "transition-limit-reached"
    [] ~transitionLimit /\ stateLimit -> "state-limit-reached"
    [] ~Truncated /\ depthFrontier -> "bounded-depth-exhausted"
    [] ~Truncated /\ ~depthFrontier -> "reachable-frontier-exhausted"

Passed == Covered = Obligations /\ ~Truncated

-----------------------------------------------------------------------------
(* The reference: the program itself, without queue, limits or memory.     *)

Candidates(p) == 1..(p.vectors + 1)

Reached(p, states) ==
  {p.next[cell] : cell \in states \X Candidates(p)} \ {Raised}

(* The states that some sequence of exactly n cycles ends in.              *)
Layer(p) ==
  LET layer[n \in Nat] ==
        IF n = 0 THEN {p.initial} ELSE Reached(p, layer[n - 1])
  IN  layer

(* A program is a function wherever a search within a declared depth goes. *)
ASSUME LookedUpAssumption ==
  \A p \in Programs : \A b \in p.bounds : \A n \in 0..(b.depth - 1) :
    Layer(p)[n] \X Candidates(p) \subseteq DOMAIN p.next

EventAt(e, n) == \E cell \in Layer(program)[n - 1] \X Candidates(program) :
                   e \in program.events[cell] /\ program.next[cell] # Raised

ReachableWithin(n) == UNION {Layer(program)[k] : k \in 0..n}

EventWithin(n) ==
  UNION {program.events[cell] :
           cell \in {cell \in ReachableWithin(n - 1) \X Candidates(program) :
                      program.next[cell] # Raised}}

(* The obligations that sequences within the declared depth satisfy.       *)
Attainable ==
  LET events == EventWithin(bounds.depth)
  IN  {o \in program.direct : o \in events}
        \cup {m \in program.mcdc : \E pair \in program.pairs[m] : pair \subseteq events}

(* The state after each cycle of a path.                                   *)
After(p, path) ==
  LET after[n \in 0..Len(path)] ==
        IF n = 0 THEN p.initial ELSE p.next[<<after[n - 1], path[n]>>]
  IN  after

Replay(path) == After(program, path)

Reproduces(path, e) ==
  /\ path # <<>>
  /\ \A n \in 1..Len(path) : Replay(path)[n] # Raised
  /\ e \in program.events[<<Replay(path)[Len(path) - 1], path[Len(path)]>>]

-----------------------------------------------------------------------------

(* A synthesized scenario is genuine: run from the initial state, its      *)
(* cycles are accepted and the last one shows the event it was kept for,   *)
(* and its length is within the declared depth.                            *)
WitnessesReplay ==
  \A e \in DOMAIN witness :
    Reproduces(witness[e], e) /\ Len(witness[e]) <= bounds.depth

(* No shorter sequence shows the event, unless a reached state had to be   *)
(* dropped at the state limit.                                             *)
WitnessesShortest ==
  ~stateLimit => \A e \in DOMAIN witness :
                   \A n \in 1..(Len(witness[e]) - 1) : ~EventAt(e, n)

(* A report covers nothing unattainable, and one that calls its search     *)
(* complete misses nothing attainable: what it then counts as unreachable  *)
(* within the bound really is.                                             *)
VerdictIsRight ==
  phase = "reported" =>
    /\ Covered \subseteq Attainable
    /\ ~Truncated => Covered = Attainable
    /\ Passed => Attainable = Obligations

(* A limit is reported only where it was in the way: more states within    *)
(* reach than allowed, more candidates to try than evaluations left.       *)
LimitsAreReal ==
  /\ stateLimit =>
       Cardinality(ReachableWithin(bounds.depth - 1)) > bounds.states
  /\ transitionLimit =>
       (program.vectors + 1) * Cardinality(seen) > bounds.transitions

(* synthesize returns or raises.                                           *)
Terminates == <>(phase \in {"reported", "failed"})

(* specs/bounded-input-domain.md section 8: reaching a bound is reported   *)
(* explicitly.  A search that reports an exhausted frontier has taken up   *)
(* every state that its sequences reach.                                   *)
DepthBoundReported ==
  phase = "reported" /\ TerminationReason = "reachable-frontier-exhausted"
    => ReachableWithin(bounds.depth) \subseteq seen
=============================================================================
