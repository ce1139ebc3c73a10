------------------------------ MODULE LocalProblems ----------------------------
(***************************************************************************)
(* The algorithms of mini-local-model-port-numbering (graph_problems.c,    *)
(* algorithms.c) on a context (local_model.c).  A call of a round function *)
(* is one step; where the function sweeps over the nodes and a later node  *)
(* reads what an earlier one wrote, the step is a fold in their order.     *)
(***************************************************************************)
EXTENDS PortNumbering
LOCAL INSTANCE FiniteSetsExt
LOCAL INSTANCE SequencesExt

CONSTANTS LocalGraphs,     \* for the problems on any graph
          Rings,           \* sizes of the rings of the ring problems
          Draw1,           \* what gp_rand and the other generators may draw
          RoundBound       \* calls of local_execute_round

VARIABLES problem,         \* the algorithm that runs
          graph,           \* ctx->nodes[..].neighbors
          out,             \* colour, status or value of every node
          partner,         \* of a matched node
          rounds,          \* calls or iterations so far
          returned,        \* the algorithm has returned
          terminated, terminated_count, current_round   \* of the context

contextVars == <<terminated, terminated_count, current_round>>
localVars == <<problem, graph, out, partner, rounds, returned, contextVars>>

Undecided == -1            \* UINT32_MAX, MIS_UNDECIDED, MM_UNMATCHED
Outside == 0               \* MIS_OUT_SET
Inside == 1                \* MIS_IN_SET, MM_MATCHED

GraphProblems == {"vertex_coloring", "luby_mis_full", "mis_random_priority", "mm_full_random", "weak_2coloring",
                  "dominating_set_greedy", "linial_delta_plus_one", "sinkless", "distance2_coloring",
                  "bfs_broadcast", "bfs_convergecast", "execute_rounds", "ring_sort"}
RingProblems == {"ring_3color", "cv_full_reduction"}

Node1 == DOMAIN graph

\* What each algorithm starts from.
StartOf(p, g) ==
  CASE p \in {"linial_delta_plus_one", "ring_3color", "cv_full_reduction", "bfs_convergecast"} -> {[u \in DOMAIN g |-> uid(u)]}
    [] p = "weak_2coloring" -> {[u \in DOMAIN g |-> uid(u) % 2]}
    [] p = "ring_sort" -> [DOMAIN g -> Draw1]
    [] OTHER -> {[u \in DOMAIN g |-> Undecided]}

LocalInit ==
  /\ problem \in GraphProblems \cup RingProblems
  /\ graph \in IF problem \in RingProblems THEN {local_make_cycle(n) : n \in Rings} ELSE LocalGraphs
  /\ problem \in {"bfs_broadcast", "bfs_convergecast"} => local_is_connected(graph)
  /\ out \in StartOf(problem, graph)
  /\ partner = [u \in DOMAIN graph |-> Undecided]
  /\ rounds = 0 /\ returned = FALSE
  /\ terminated = {} /\ terminated_count = 0 /\ current_round = 0

--------------------------------------------------------------------------------
local_get_state ==
  IF terminated_count = Size(graph) THEN "all_terminated" ELSE IF current_round > 0 THEN "running" ELSE "init"

\* The round function, which the caller supplies, may end any of the nodes it is
\* called for; the count is taken afterwards.
local_execute_round ==
  /\ problem \in {"execute_rounds", "vertex_coloring"} /\ local_get_state # "all_terminated" /\ current_round < RoundBound
  /\ \E more \in IF problem = "execute_rounds" THEN SUBSET (Node1 \ terminated) ELSE {{}} :
       /\ terminated' = terminated \cup more
       /\ terminated_count' = Cardinality(terminated')
  /\ current_round' = current_round + 1
  /\ UNCHANGED <<problem, graph, out, partner, rounds, returned>>

\* A context is reset, and its states are created anew.
local_reset ==
  /\ problem = "execute_rounds" /\ rounds = 0 /\ current_round > 0
  /\ terminated' = {} /\ terminated_count' = 0 /\ current_round' = 0 /\ rounds' = 1
  /\ UNCHANGED <<problem, graph, out, partner, returned>>

--------------------------------------------------------------------------------
Calls(p) == problem = p /\ ~returned /\ UNCHANGED <<problem, graph, contextVars>>

\* Every node without a colour tries one; then each, in order, gives its colour up
\* if a neighbour has it, or keeps it and terminates.
vcol_reduce_round ==
  /\ problem = "vertex_coloring" /\ ~returned
  /\ \E pick \in [Node1 -> 0 .. local_max_degree(graph)] :
       LET Tried(u) == IF u \notin terminated /\ out[u] = Undecided THEN pick[u] ELSE out[u]
           Settle(color, u) ==
             IF u \notin terminated /\ \E w \in graph[u] : color[w] = color[u]
             THEN [color EXCEPT ![u] = Undecided] ELSE color
       IN  /\ \A u \in Node1 : u \in terminated \/ out[u] # Undecided => pick[u] = 0
           /\ out' = Sweep(Settle, graph, [u \in Node1 |-> Tried(u)])
  /\ terminated' = {u \in Node1 : out'[u] # Undecided}
  /\ returned' = (terminated' = Node1)
  /\ UNCHANGED <<problem, graph, partner, rounds, terminated_count, current_round>>

Open1 == {u \in Node1 : out[u] = Undecided}

\* The open nodes beside one inside leave.
Exclude(status) ==
  [u \in Node1 |-> IF status[u] = Undecided /\ \E w \in graph[u] : status[w] = Inside THEN Outside ELSE status[u]]

\* Mutant: a tie is won by the node with the larger number too.
TieWonByBoth(prio, u) == \A w \in graph[u] \cap Open1 : prio[w] <= prio[u]

\* All priorities are compared before anyone joins; a tie goes to the smaller uid.
LocalMaximum(prio, u) ==
  \A w \in graph[u] \cap Open1 : prio[w] < prio[u] \/ (prio[w] = prio[u] /\ uid(u) < uid(w))

\* The sweep luby_mis_full falls back to: each open node joins unless it is beside
\* one inside.
MisFallback(status, u) ==
  IF status[u] # Undecided THEN status
  ELSE [status EXCEPT ![u] = IF \E w \in graph[u] : status[w] = Inside THEN Outside ELSE Inside]

\* mis_luby_round, until a round changes nothing.
luby_mis_full ==
  /\ Calls("luby_mis_full")
  /\ \E prio \in [Open1 -> Draw1] :
       LET joined == {u \in Open1 : LocalMaximum(prio, u)}
       IN  IF joined = {}
           THEN returned' = TRUE /\ out' = Sweep(MisFallback, graph, out)
           ELSE returned' = FALSE /\ out' = Exclude([u \in Node1 |-> IF u \in joined THEN Inside ELSE out[u]])
  /\ rounds' = rounds + 1
  /\ UNCHANGED partner

\* In this one a node that joined no longer counts for the nodes after it: they
\* compare their priority with the open ones that are left.
mis_random_priority_round ==
  /\ Calls("mis_random_priority")
  /\ \E prio \in [Open1 -> Draw1] :
       LET Join(status, u) ==
             IF /\ status[u] = Undecided
                /\ \A w \in graph[u] : status[w] = Undecided => prio[w] < prio[u] \/ (prio[w] = prio[u] /\ u < w)
             THEN [status EXCEPT ![u] = Inside] ELSE status
       IN  out' = Exclude(Sweep(Join, graph, out))
  /\ returned' = (Open1' = {})
  /\ rounds' = rounds + 1
  /\ UNCHANGED partner

\* A node proposes to a neighbour that is still unmatched, not one that already
\* proposes.
Proposals ==
  LET Free(p, u) == {w \in graph[u] : out[w] # Inside /\ ~(w < u /\ p[w] # Undecided)}
      Asks(p, u) == IF out[u] = Inside \/ Free(p, u) = {} THEN p[u] = Undecided ELSE p[u] \in Free(p, u)
  IN  {p \in [Node1 -> Node1 \cup {Undecided}] : \A u \in Node1 : Asks(p, u)}

Pair(match, u, w) == [match EXCEPT ![u] = w, ![w] = u]

\* Mutant: only the proposer is recorded.
PairOne(match, u) ==
  LET free == {w \in graph[u] : match[w] = Undecided}
  IN  IF match[u] # Undecided \/ free = {} THEN match ELSE [match EXCEPT ![u] = Min(free)]

\* The greedy pass: every unmatched node takes its first unmatched neighbour.
PairGreedily(match, u) ==
  LET free == {w \in graph[u] : match[w] = Undecided}
  IN  IF match[u] # Undecided \/ free = {} THEN match ELSE Pair(match, u, Min(free))

\* mm_matching_round until a round matches nobody, then the greedy pass.
mm_full_random ==
  /\ Calls("mm_full_random")
  /\ \E p \in Proposals :
       LET mutual == {u \in Node1 : p[u] # Undecided /\ p[p[u]] = u}
       IN  IF mutual # {}
           THEN returned' = FALSE /\ partner' = [u \in Node1 |-> IF u \in mutual THEN p[u] ELSE partner[u]]
           ELSE returned' = TRUE /\ partner' = Sweep(PairGreedily, graph, partner)
  /\ out' = [u \in Node1 |-> IF partner'[u] = Undecided THEN Undecided ELSE Inside]
  /\ rounds' = rounds + 1

vc_from_matching == {u \in Node1 : out[u] = Inside}

\* All nodes that agree with all their neighbours change at once, 100 times at most.
weak_2coloring ==
  /\ Calls("weak_2coloring")
  /\ out' = [u \in Node1 |-> IF graph[u] # {} /\ \A w \in graph[u] : out[w] = out[u] THEN 1 - out[u] ELSE out[u]]
  /\ rounds' = rounds + 1
  /\ returned' = (out' = out \/ rounds' = 100)
  /\ UNCHANGED partner

\* The first of the undominated nodes that would dominate most.
dominating_set_greedy ==
  LET chosen == {u \in Node1 : out[u] = Inside}
      undominated == {u \in Node1 : u \notin chosen /\ graph[u] \cap chosen = {}}
      Benefit(u) == 1 + Cardinality(graph[u] \cap undominated)
      best == {u \in undominated : \A w \in undominated : Benefit(w) <= Benefit(u)}
  IN  /\ Calls("dominating_set_greedy")
      /\ IF undominated = {} \/ rounds = 2 * Size(graph)
         THEN returned' = TRUE /\ UNCHANGED <<out, rounds>>
         ELSE /\ out' = [out EXCEPT ![Min(best)] = Inside]
              /\ rounds' = rounds + 1 /\ UNCHANGED returned
      /\ UNCHANGED partner

LeastUnused(used) == Min((0 .. Cardinality(used)) \ used)

Palette1 == IF rounds = 0 THEN Size(graph) ELSE 1 + Max({out[u] : u \in Node1})

\* Every node takes the least colour none of its neighbours had.  The arrays change
\* places in every round; the one that is freed at the end is the caller's if the
\* number of rounds is odd (linial_delta_plus_one_coloring).
linial_color_reduce ==
  /\ Calls("linial_delta_plus_one")
  /\ IF Palette1 > local_max_degree(graph) + 1 /\ rounds <= 100
     THEN /\ out' = [u \in Node1 |-> LeastUnused({out[w] : w \in graph[u]})]
          /\ rounds' = rounds + 1 /\ UNCHANGED returned
     ELSE returned' = TRUE /\ UNCHANGED <<out, rounds>>
  /\ UNCHANGED partner

Return(value, calls) == out' = value /\ returned' = TRUE /\ rounds' = calls /\ UNCHANGED partner

\* The height of the breadth-first tree.
Height(root) == Max({local_distance(graph, root, u) : u \in Node1})

\* Every node claims some of its edges as outgoing, at least one.
sinkless_round ==
  /\ Calls("sinkless")
  /\ \E claims \in [Node1 -> SUBSET Node1] :
       /\ \A u \in Node1 : claims[u] \subseteq graph[u] /\ (graph[u] = {} <=> claims[u] = {})
       /\ Return(claims, 1)

\* Mutant: only the neighbours are asked.
ColorBeside(color, u) == [color EXCEPT ![u] = LeastUnused({color[w] : w \in graph[u]} \ {Undecided})]

\* In order, the least colour unused at distance one and two.
ColorApart(color, u) ==
  LET near == UNION {{w} \cup graph[w] : w \in graph[u]} \ {u}
  IN  [color EXCEPT ![u] = LeastUnused({color[w] : w \in near} \ {Undecided})]

distance2_coloring == Calls("distance2_coloring") /\ Return(Sweep(ColorApart, graph, out), 1)

\* The root has the value; in one sweep a node takes its parent's if that has it.
bfs_broadcast ==
  /\ Calls("bfs_broadcast")
  /\ \E root \in Node1 :
       LET parent == bfs_parent(graph, root)
           Forward(value, u) ==
             IF u # root /\ parent[u] # PortNone /\ value[parent[u]] # Undecided
             THEN [value EXCEPT ![u] = value[parent[u]]] ELSE value
       IN  Return(Sweep(Forward, graph, [u \in Node1 |-> IF u = root THEN root ELSE Undecided]), Height(root))

\* Every node adds to its parent what it had before the sweep began; the order of the
\* levels makes no difference to a sum.
bfs_convergecast ==
  /\ Calls("bfs_convergecast")
  /\ \E root \in Node1 :
       LET Children(u) == {w \in Node1 \ {u} : bfs_parent(graph, root)[w] = u}
       IN  Return([u \in Node1 |-> out[u] + SumSet({out[w] : w \in Children(u)})], Height(root))

--------------------------------------------------------------------------------
\* Port 1 of the ring's ports: the larger neighbour.
Successor(u) == port_assign_ring_orientation(graph)[u][2]

Bit(x, k) == (x \div 2^k) % 2

\* Position of the lowest bit in which two colours differ (div_bit_idx).
diff_bit_index(a, b) == Min({k \in 0 .. 20 : Bit(a, k) # Bit(b, k)})

\* Mutant: the position alone.
CvPosition(u) == LET s == out[Successor(u)] IN IF out[u] = s THEN s ELSE diff_bit_index(out[u], s)

\* The position and the own bit there (cv_reduce_colors).
CvColor(u) ==
  LET s == out[Successor(u)]
      k == diff_bit_index(out[u], s)
  IN  IF out[u] = s THEN s ELSE 2 * k + Bit(out[u], k)

max_rounds == iterated_log2(Size(graph)) + 10

\* cv_reduce_colors until six colours are left.
cv_full_reduction ==
  /\ Calls("cv_full_reduction")
  /\ out' = [u \in Node1 |-> CvColor(u)]
  /\ rounds' = rounds + 1
  /\ returned' = (rounds' = max_rounds \/ \A u \in Node1 : out'[u] <= 5)
  /\ UNCHANGED partner

Next1(u) == (u + 1) % Size(graph)
Prev1(u) == (u + Size(graph) - 1) % Size(graph)

\* The first node that agrees with the next one takes a third colour; ten times.
Repair(color, attempt) ==
  LET clashes == {u \in Node1 : color[u] = color[Next1(u)]}
      u == Min(clashes)
  IN  IF clashes = {} THEN color
      ELSE [color EXCEPT ![u] = Min((0 .. 2) \ {color[Prev1(u)], color[Next1(u)]})]

ring_3color_cole_vishkin ==
  /\ Calls("ring_3color")
  /\ LET reduced == [u \in Node1 |-> CvColor(u)]
     IN  IF \A u \in Node1 : reduced[u] <= 5
         THEN returned' = TRUE
              /\ out' = FoldLeft(Repair, [u \in Node1 |-> reduced[u] % 3], [k \in 1 .. 10 |-> k])
         ELSE returned' = FALSE /\ out' = reduced
  /\ rounds' = rounds + 1
  /\ UNCHANGED partner

\* One phase: the disjoint pairs that begin at nodes of the phase's parity.
SortPhase(f, phase) ==
  [u \in DOMAIN f |->
     IF u % 2 = phase THEN (IF u + 1 \in DOMAIN f /\ f[u] > f[u + 1] THEN f[u + 1] ELSE f[u])
     ELSE (IF u - 1 \in DOMAIN f /\ f[u - 1] > f[u] THEN f[u - 1] ELSE f[u])]

Sorted(f) == \A u, w \in DOMAIN f : u < w => f[u] <= f[w]

\* Two phases; the second begins its pairs at node 1.
ring_sort ==
  /\ Calls("ring_sort")
  /\ out' = SortPhase(SortPhase(out, 0), 1)
  /\ rounds' = rounds + 2
  /\ returned' = ((out' = out /\ Sorted(out')) \/ rounds' >= 2 * Size(graph))
  /\ UNCHANGED partner

LocalNext ==
  \/ local_execute_round \/ local_reset
  \/ vcol_reduce_round \/ luby_mis_full \/ mis_random_priority_round \/ mm_full_random
  \/ weak_2coloring \/ dominating_set_greedy \/ linial_color_reduce \/ sinkless_round
  \/ distance2_coloring \/ bfs_broadcast \/ bfs_convergecast
  \/ cv_full_reduction \/ ring_3color_cole_vishkin \/ ring_sort

--------------------------------------------------------------------------------
Agree(c) == \E u \in Node1 : \E w \in graph[u] : c[u] = c[w]

\* The repository's verifiers, of the result in out.
vcol_is_proper == ~Agree(out)

mis_is_valid ==
  /\ \A u \in Node1 : out[u] = Inside => \A w \in graph[u] : out[w] # Inside
  /\ Open1 = {}
  /\ \A u \in Node1 : out[u] = Outside => \E w \in graph[u] : out[w] = Inside

mm_is_valid ==
  /\ \A u \in Node1 : out[u] = Inside => out[partner[u]] = Inside /\ partner[partner[u]] = u
  /\ \A u \in Node1 : out[u] = Undecided => \A w \in graph[u] : out[w] # Undecided

vc_is_valid == \A u \in Node1 : u \in vc_from_matching \/ graph[u] \subseteq vc_from_matching

weak_2coloring_verify == \A u \in Node1 : graph[u] = {} \/ \E w \in graph[u] : out[w] # out[u]

domset_is_valid == \A u \in Node1 : out[u] = Inside \/ \E w \in graph[u] : out[w] = Inside

ring_3color_verify == \A u \in Node1 : out[u] # out[Next1(u)] /\ out[u] <= 2

\* What each algorithm returns is what the repository's verifiers accept:
\* vcol_is_proper, mis_is_valid, mm_is_valid and vc_is_valid, weak_2coloring_verify
\* unless the limit stopped it, domset_is_valid, a proper colouring of the square of
\* the graph, ring_3color_verify on rings with at most ten clashes to repair, sorted
\* values.  The rounds of mis_random_priority_round dominate every node; Linial's
\* reduction, when it has to do anything, gives all nodes one colour; a broadcast
\* reaches all nodes if and only if every parent but the root is numbered below its
\* children, and a convergecast gathers the sum if and only if all are the root's.
Outcome1 ==
  CASE problem = "vertex_coloring" -> vcol_is_proper
    [] problem = "luby_mis_full" -> mis_is_valid
    [] problem = "mis_random_priority" -> \A u \in Node1 : out[u] = Outside => \E w \in graph[u] : out[w] = Inside
    [] problem = "mm_full_random" ->
         /\ mm_is_valid /\ vc_is_valid
         /\ \A u \in Node1 : partner[u] # Undecided => partner[u] \in graph[u]
         /\ rounds = 1
    [] problem = "weak_2coloring" -> rounds < 100 => weak_2coloring_verify
    [] problem = "dominating_set_greedy" -> domset_is_valid
    [] problem = "linial_delta_plus_one" -> IF rounds = 0 THEN ~Agree(out) ELSE rounds = 1 /\ \A u \in Node1 : out[u] = 0
    [] problem = "sinkless" -> \A u \in Node1 : graph[u] # {} => out[u] # {}
    [] problem = "distance2_coloring" -> vcol_is_proper /\ \A u \in Node1 : \A w, x \in graph[u] : w # x => out[w] # out[x]
    [] problem = "bfs_broadcast" ->
         LET root == Max({out[u] : u \in Node1})
             parent == bfs_parent(graph, root)
         IN  (\A u \in Node1 : out[u] = root) <=> (\A u \in Node1 : parent[u] = root \/ parent[u] < u)
    [] problem = "bfs_convergecast" -> (\E u \in Node1 : out[u] = SumSet({uid(w) : w \in Node1})) <=> rounds <= 1
    [] problem = "ring_3color" -> ring_3color_verify
    [] problem = "cv_full_reduction" -> \A u \in Node1 : out[u] <= 5
    [] problem = "ring_sort" -> Sorted(out)
    [] OTHER -> TRUE

\* The algorithms return solutions; while Cole and Vishkin's reduction runs, a node
\* never has its successor's colour; what is excluded or coloured stays so.
ProblemsSolved ==
  /\ returned => Outcome1
  /\ problem \in {"ring_3color", "cv_full_reduction"} /\ ~returned => \A u \in Node1 : out[u] # out[Successor(u)]
  /\ problem = "vertex_coloring" => \A u, w \in terminated : w \in graph[u] => out[u] # out[w]
  /\ problem = "luby_mis_full" => \A u \in Node1 : out[u] = Inside => \A w \in graph[u] : out[w] = Outside
  /\ terminated_count <= Cardinality(terminated)
  /\ local_get_state = "all_terminated" => terminated = Node1
================================================================================
