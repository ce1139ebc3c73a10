------------------------------- MODULE LocalGraph ------------------------------
(***************************************************************************)
(* The graphs of mini-local-model-port-numbering (local_model.c) and what  *)
(* the context computes from them.  A graph is the function from a node    *)
(* 0 .. n-1 to the set of its neighbours; the code keeps them ascending.   *)
(***************************************************************************)
EXTENDS Integers, FiniteSets, Sequences
LOCAL INSTANCE FiniteSetsExt
LOCAL INSTANCE SequencesExt

Unreached == 1000                    \* UINT32_MAX, as a distance

Size(g) == Cardinality(DOMAIN g)

\* The nodes in the order of the code's loops.
InOrder(g) == [k \in 1 .. Size(g) |-> k - 1]

\* A loop over the nodes that updates what it reads.
Sweep(step(_, _), g, start) == FoldLeft(step, start, InOrder(g))

uid(i) == i + 1

--------------------------------------------------------------------------------
\* Every edge in both directions, no loops, nothing out of range.
local_build_from_edges(n, edges) ==
  [u \in 0 .. n - 1 |-> {w \in 0 .. n - 1 : w # u /\ (<<u, w>> \in edges \/ <<w, u>> \in edges)}]

local_make_path(n) == local_build_from_edges(n, {<<i, i + 1>> : i \in 0 .. n - 2})

local_make_cycle(n) == local_build_from_edges(n, {<<i, (i + 1) % n>> : i \in 0 .. n - 1})

local_make_clique(n) == local_build_from_edges(n, (0 .. n - 1) \X (0 .. n - 1))

\* The root has d children and every inner node d - 1; nodes are numbered level by level.
local_make_regular_tree(d, h) ==
  LET level[l \in 1 .. h] == IF l = 1 THEN d ELSE level[l - 1] * (d - 1)
      total == 1 + FoldLeft(LAMBDA sum, l : sum + level[l], 0, [l \in 1 .. h |-> l])
      Parent(k) == IF k <= d THEN 0 ELSE ((k - 1 - d) \div (d - 1)) + 1
  IN  local_build_from_edges(total, {<<Parent(k), k>> : k \in 1 .. total - 1})

\* Each pair of nodes is an edge or not.
local_make_random_graph(n) ==
  {local_build_from_edges(n, edges) : edges \in SUBSET {e \in (0 .. n - 1) \X (0 .. n - 1) : e[1] < e[2]}}

--------------------------------------------------------------------------------
\* Breadth first from source, one layer after the other.
bfs_distances(g, source) ==
  LET layers[k \in 0 .. Size(g)] ==
        IF k = 0 THEN [v \in DOMAIN g |-> IF v = source THEN 0 ELSE Unreached]
        ELSE LET dist == layers[k - 1]
             IN  [v \in DOMAIN g |-> IF dist[v] = Unreached /\ \E u \in g[v] : dist[u] = k - 1
                                     THEN k ELSE dist[v]]
  IN  layers[Size(g)]

\* Mutant: the nodes at distance r are left out.
neighborhood_open(g, u, r) == {v \in DOMAIN g : bfs_distances(g, u)[v] < r}

local_r_neighborhood(g, u, r) == {v \in DOMAIN g : bfs_distances(g, u)[v] <= r}

local_distance(g, u, v) == bfs_distances(g, u)[v]

\* The longest distance between two nodes that reach each other.
local_diameter(g) ==
  Max(UNION {{bfs_distances(g, u)[v] : v \in DOMAIN g} : u \in DOMAIN g} \ {Unreached})

local_is_connected(g) == \A v \in DOMAIN g : bfs_distances(g, 0)[v] # Unreached

local_max_degree(g) == Max({Cardinality(g[u]) : u \in DOMAIN g})

local_min_degree(g) == Min({Cardinality(g[u]) : u \in DOMAIN g})

local_edge_count(g) == Cardinality({e \in (DOMAIN g) \X (DOMAIN g) : e[1] < e[2] /\ e[2] \in g[e[1]]})

\* For every edge, the distance of its ends without it closes the shortest cycle
\* through it.
local_girth(g) ==
  LET Without(u, w) == [x \in DOMAIN g |-> IF x = u THEN g[x] \ {w}
                                           ELSE IF x = w THEN g[x] \ {u} ELSE g[x]]
      around == {local_distance(Without(e[1], e[2]), e[1], e[2]) :
                   e \in {p \in (DOMAIN g) \X (DOMAIN g) : p[1] < p[2] /\ p[2] \in g[p[1]]}}
                \ {Unreached}
  IN  IF around = {} THEN Unreached ELSE Min(around) + 1

is_coloring_valid(g, colors) == \A u \in DOMAIN g : \A w \in g[u] : colors[u] # colors[w]

\* The least number of colours the backtracking finds a colouring for.
local_chromatic_number(g) ==
  Min({k \in 1 .. Size(g) : \E c \in [DOMAIN g -> 0 .. k - 1] : is_coloring_valid(g, c)})
================================================================================
