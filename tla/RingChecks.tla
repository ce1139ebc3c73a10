------------------------------- MODULE RingChecks ------------------------------
(***************************************************************************)
(* What the repository itself computes about the ring: the transition      *)
(* system and its verdicts (state_machine.c, self_stabilization.c), the    *)
(* measures of a configuration and the attractors (convergence.c).         *)
(***************************************************************************)
EXTENDS DijkstraRing, SequencesExt

VARIABLES ring,        \* the configuration under examination
          graph, index, lowlink, stack, frames, attractors    \* Tarjan's search

searchVars == <<graph, index, lowlink, stack, frames, attractors>>

\* config_index_to_states and config_states_to_index
ConfigId == 0 .. K^N - 1
IndexToStates(id) == [i \in Machine |-> (id \div K^i) % K]
StatesToIndex(s) == FoldFunction(+, 0, [i \in Machine |-> s[i] * K^i])

\* ss_build_transition_system: the successors of every configuration, a move of
\* one privileged machine each.
Transitions ==
  [c \in ConfigId |->
     LET s == IndexToStates(c) IN {StatesToIndex(Step(s, i)) : i \in Privileges(s)}]

\* ss_config_is_legitimate counts the 3-state privileges, whatever the variant.
IsLegitimate(c) ==
  LET s == IndexToStates(c)
  IN  Cardinality({i \in Machine : IF i = 0 THEN s[0] = s[N-1] ELSE s[i] # s[i-1]}) = 1

\* ss_verify_closure_exhaustive
ClosureExhaustive == \A c \in ConfigId : IsLegitimate(c) => \A t \in Transitions[c] : IsLegitimate(t)

\* The configurations that some execution leads to a legitimate one in at most
\* d steps.  ss_max_convergence_steps searches backwards from all legitimate
\* ones, ss_verify_convergence_exhaustive forwards from each configuration.
Within[d \in Nat] ==
  IF d = 0 THEN {c \in ConfigId : IsLegitimate(c)}
  ELSE LET nearer == Within[d - 1]
       IN  nearer \cup {c \in ConfigId : Transitions[c] \cap nearer # {}}

\* The distance of a configuration: K^N if no execution is good.
Distance(c) ==
  LET near == {d \in 0 .. N * N : c \in Within[d]}
  IN  IF near = {} THEN K^N ELSE CHOOSE d \in near : \A e \in near : d <= e

\* The configurations ss_check_convergence goes through: the first privileged
\* machine moves until the configuration is legitimate.
Path(s) ==
  LET path[d \in 0 .. N * N] ==
        IF d = 0 THEN s
        ELSE LET p == path[d - 1]
             IN  IF Legitimate(p) \/ Privileges(p) = {} THEN p
                 ELSE Step(p, CHOOSE i \in Privileges(p) : \A j \in Privileges(p) : i <= j)
  IN  path

ConvergenceSteps(s) == Cardinality({d \in 0 .. N * N - 1 : ~Legitimate(Path(s)[d])})

\* ss_check_closure, ring_verify_closure
CheckClosure(s) == Legitimate(s) /\ \A i \in Privileges(s) : Legitimate(Step(s, i))

\* convergence_fault_distance
FaultDistance(s) ==
  LET p == Cardinality(Privileges(s)) IN IF p = 0 THEN 1 ELSE p - 1

\* Mutant: one move is allowed for each unit of distance, not a round of N.
MovePerToken(distance) == distance

\* convergence_time_adaptive_bound
AdaptiveBound(distance) == IF distance > N THEN N * N ELSE distance * N

\* convergence_classify_snap_fault
SnapClass(s) ==
  LET p == Cardinality(Privileges(s))
  IN  IF p = 1 THEN "IMMEDIATE" ELSE IF p = 2 THEN "FAST" ELSE "STANDARD"

\* convergence_energy_squared_sum and convergence_energy_token_misplacement
SquaredSum(s) == FoldFunction(+, 0, [i \in Machine |-> s[i] * s[i]])
TokenMisplacement(s) ==
  LET freq(v) == Cardinality({i \in Machine : s[i] = v})
  IN  N - freq(CHOOSE v \in LocalState : \A w \in LocalState : freq(v) >= freq(w))

\* ss_lemma_symmetry_breaking: from a uniform ring the first privileged machine
\* moves until two machines differ.
SymmetryBroken(s) == \E i \in Machine : Step(s, CHOOSE j \in Privileges(s) :
                                              \A k \in Privileges(s) : j <= k)[i] # s[0]

\* fault_exhaustive_test: one wrong state in a uniform ring.
SingleFaults(s) ==
  {[s EXCEPT ![i] = v] : i \in Machine, v \in LocalState} \ {s}

\* fault_cascade_analysis: a machine of a legitimate ring is off by one and the
\* ring moves in synchronous rounds; the configurations that follow.
Cascade(s, fault_machine) ==
  LET round[r \in 0 .. 2 * N] ==
        IF r = 0 THEN [s EXCEPT ![fault_machine] = Inc(@)] ELSE SynchronousRound(round[r - 1])
  IN  {round[r] : r \in 0 .. 2 * N}

--------------------------------------------------------------------------------
\* convergence_find_attractors: Tarjan's search of a transition system, given as
\* the successors of each node, its recursion a stack of frames [node, rest].
Nodes == DOMAIN graph
Ascending(S) == SetToSortSeq(S, <)
Lower(a, b) == IF a < b THEN a ELSE b
Visited == {v \in Nodes : index[v] >= 0}

SearchInit(graphs) ==
  /\ graph \in graphs
  /\ index = [v \in Nodes |-> -1] /\ lowlink = [v \in Nodes |-> 0]
  /\ stack = <<>> /\ frames = <<>> /\ attractors = {}

\* The first lines of tarjan_strongconnect.
Enter(v) ==
  /\ index' = [index EXCEPT ![v] = Cardinality(Visited)]
  /\ lowlink' = [lowlink EXCEPT ![v] = Cardinality(Visited)]
  /\ stack' = Append(stack, v)
  /\ frames' = Append(frames, [node |-> v, rest |-> Ascending(graph[v])])
  /\ UNCHANGED <<graph, attractors>>

StartSearch ==
  /\ frames = <<>> /\ Visited # Nodes
  /\ Enter(CHOOSE v \in Nodes \ Visited : \A w \in Nodes \ Visited : v <= w)

\* Mutant: an edge to a finished component lowers the link too.
LinkFinished(v, w) == Lower(lowlink[v], index[w])

\* The link of v after an edge to a node that was visited before.
LinkTo(v, w) == IF Contains(stack, w) THEN Lower(lowlink[v], index[w]) ELSE lowlink[v]

Scan ==
  /\ frames # <<>> /\ Last(frames).rest # <<>>
  /\ LET v == Last(frames).node
         w == Head(Last(frames).rest)
     IN  IF w \notin Visited THEN Enter(w)
         ELSE /\ lowlink' = [lowlink EXCEPT ![v] = LinkTo(v, w)]
              /\ frames' = [frames EXCEPT ![Len(frames)].rest = Tail(@)]
              /\ UNCHANGED <<graph, index, stack, attractors>>

\* The root of a component takes it off the stack; one that no transition leaves
\* is an attractor.  The caller goes on with v's link.
Leave ==
  /\ frames # <<>> /\ Last(frames).rest = <<>>
  /\ LET v == Last(frames).node
         from == CHOOSE k \in DOMAIN stack : stack[k] = v
         component == {stack[k] : k \in from .. Len(stack)}
         isBottom == \A w \in component : graph[w] \subseteq component
         callers == Front(frames)
     IN  /\ IF lowlink[v] = index[v]
            THEN /\ stack' = SubSeq(stack, 1, from - 1)
                 /\ attractors' = IF isBottom THEN attractors \cup {component} ELSE attractors
            ELSE UNCHANGED <<stack, attractors>>
         /\ IF callers = <<>> THEN frames' = <<>> /\ UNCHANGED lowlink
            ELSE /\ lowlink' = [lowlink EXCEPT ![Last(callers).node] = Lower(@, lowlink[v])]
                 /\ frames' = [callers EXCEPT ![Len(callers)].rest = Tail(@)]
  /\ UNCHANGED <<graph, index>>

SearchStep == StartSearch \/ Scan \/ Leave
================================================================================
