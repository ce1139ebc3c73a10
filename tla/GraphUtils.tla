-------------------------------- MODULE GraphUtils -----------------------------
(***************************************************************************)
(* graph_utils.c of mini-coloring-mis-lower-bounds: builders, views,       *)
(* verifiers and measures, and how they agree with those the LOCAL model   *)
(* computes in other ways (LocalGraph, PortNumbering).                     *)
(***************************************************************************)
EXTENDS PortNumbering, TLC
LOCAL INSTANCE FiniteSetsExt
LOCAL INSTANCE SequencesExt

\* Each end goes to the back of the other's list, once.
graph_add_edge(adj, e) ==
  IF e[1] = e[2] \/ e[2] \in ToSet(adj[e[1]]) THEN adj
  ELSE [adj EXCEPT ![e[1]] = Append(@, e[2]), ![e[2]] = Append(@, e[1])]

\* A graph from its edges in the order in which they are added.
AddAll(n, edges) == FoldLeft(graph_add_edge, [u \in 0 .. n - 1 |-> <<>>], edges)

graph_create_ring(n) == AddAll(n, [k \in 1 .. n |-> <<k - 1, k % n>>])

graph_create_complete(n) ==
  AddAll(n, FlattenSeq([i \in 1 .. n |-> [k \in 1 .. n - i |-> <<i - 1, i + k - 1>>]]))

graph_create_tree(parent) == AddAll(Cardinality(DOMAIN parent) + 1, [k \in DOMAIN parent |-> <<k, parent[k]>>])

graph_create_bipartite(a, b) == AddAll(a + b, [k \in 1 .. a * b |-> <<(k - 1) \div b, a + ((k - 1) % b)>>])

\* Row by row, the edge to the right before the one down.
graph_create_grid(rows, cols) ==
  LET Cell(k) == (IF (k % cols) + 1 < cols THEN <<<<k, k + 1>>>> ELSE <<>>)
                 \o (IF k + cols < rows * cols THEN <<<<k, k + cols>>>> ELSE <<>>)
  IN  AddAll(rows * cols, FlattenSeq([k \in 1 .. rows * cols |-> Cell(k - 1)]))

\* d stubs at each vertex are paired at random: a loop or a double edge is lost.
graph_create_random_regular(n, d) ==
  LET Stub(k) == (k - 1) \div d
  IN  {AddAll(n, [k \in 1 .. (n * d) \div 2 |-> <<Stub(s[2 * k - 1]), Stub(s[2 * k])>>]) :
         s \in SetToSeqs(1 .. n * d)}

\* Vertex by vertex, some partners are tried; an edge is added while both ends have
\* degree below d.
graph_create_bounded_degree(n, d) ==
  LET Try(u, a, j) == IF Len(a[u]) < d /\ j # u /\ Len(a[j]) < d THEN graph_add_edge(a, <<u, j>>) ELSE a
      Tries(graphs, u) == {FoldLeft(LAMBDA a, j : Try(u, a, j), adj, js) :
                             adj \in graphs, js \in [1 .. 2 * d -> 0 .. n - 1]}
  IN  FoldLeft(Tries, {AddAll(n, <<>>)}, [k \in 1 .. n |-> k - 1])

GraphOf(adj) == [u \in DOMAIN adj |-> ToSet(adj[u])]

\* The ports are the lists, and the reverse port is where the other list has u.
port_numbering_create(adj) ==
  [u \in DOMAIN adj |-> [p \in DOMAIN adj[u] |->
     <<adj[u][p], Min({q \in DOMAIN adj[adj[u][p]] : adj[adj[u][p]][q] = u}) - 1>>]]

--------------------------------------------------------------------------------
\* The distances up to k from u.
neighborhood_view(g, u, k) ==
  LET ball[j \in 0 .. k] == IF j = 0 THEN {u} ELSE ball[j - 1] \cup UNION {g[w] : w \in ball[j - 1]}
  IN  [w \in ball[k] |-> Min({j \in 0 .. k : w \in ball[j]})]

\* As many vertices at every distance.
neighborhood_views_isomorphic(a, b) ==
  \A d \in 0 .. 20 : Cardinality({w \in DOMAIN a : a[w] = d}) = Cardinality({w \in DOMAIN b : b[w] = d})

max_neighborhood_size(g, k) == Max({Cardinality(DOMAIN neighborhood_view(g, u, k)) : u \in DOMAIN g})

\* The first vertices of their kind.
count_distinct_k_views(g, k) ==
  Cardinality({u \in DOMAIN g : \A w \in DOMAIN g :
                 w < u => ~neighborhood_views_isomorphic(neighborhood_view(g, u, k), neighborhood_view(g, w, k))})

coloring_is_proper(g, c) == \A u \in DOMAIN g : c[u] >= 0 => \A w \in g[u] : c[w] # c[u]

coloring_count_conflicts(g, c) ==
  Cardinality({e \in (DOMAIN g) \X (DOMAIN g) : e[1] < e[2] /\ e[2] \in g[e[1]] /\ c[e[1]] >= 0 /\ c[e[1]] = c[e[2]]})

\* The first coloured vertex with most conflicts, -1 if none has a colour.
coloring_max_conflict_vertex(g, c) ==
  LET Clashes(u) == Cardinality({w \in g[u] : c[w] = c[u]})
      colored == {u \in DOMAIN g : c[u] >= 0}
  IN  IF colored = {} THEN -1 ELSE Min({u \in colored : \A w \in colored : Clashes(w) <= Clashes(u)})

mis_is_independent(g, set) == \A u \in set : g[u] \cap set = {}

mis_is_maximal(g, set) == mis_is_independent(g, set) /\ \A u \in DOMAIN g \ set : g[u] \cap set # {}

mis_dominating_count(g, set) == Cardinality({u \in DOMAIN g : u \in set \/ g[u] \cap set # {}})

graph_diameter(g) == Max(UNION {Range(neighborhood_view(g, u, Size(g))) : u \in DOMAIN g})

graph_independence_number(g) == Max({Cardinality(set) : set \in {s \in SUBSET DOMAIN g : mis_is_independent(g, s)}})

\* Vertex after vertex takes one of k colours none of its predecessors has.
Extensions(g, k) ==
  LET Extend(partial, u) == {c @@ (u :> x) : c \in partial, x \in 0 .. k - 1}
      Fits(c, u) == \A w \in g[u] : w < u => c[w] # c[u]
      Step(partial, u) == {c \in Extend(partial, u) : Fits(c, u)}
  IN  Sweep(Step, g, {<<>>})

graph_chromatic_number(g) == Min({k \in 1 .. Size(g) : Extensions(g, k) # {}})

\* Connected pairs of neighbours.
LinksAround(g, u) == {e \in g[u] \X g[u] : e[1] < e[2] /\ e[2] \in g[e[1]]}

\* In percent.
graph_clustering_coeff(g, u) ==
  LET d == Cardinality(g[u])
  IN  IF d < 2 THEN 0 ELSE (200 * Cardinality(LinksAround(g, u))) \div (d * (d - 1))

\* Mutant: every edge closes a cycle, those of the tree too.
TreeEdgesToo(parent, u, w) == FALSE

InTree(parent, u, w) == parent[u] = w \/ parent[w] = u

\* From every source, the shortest way around through an edge that is not in its
\* breadth-first tree.
graph_girth(g) ==
  LET Around(src) ==
        LET dist == bfs_distances(g, src)
            parent == bfs_parent(g, src)
        IN  {dist[e[1]] + dist[e[2]] + 1 :
               e \in {p \in (DOMAIN g) \X (DOMAIN g) :
                        p[2] \in g[p[1]] /\ dist[p[1]] # Unreached /\ ~InTree(parent, p[1], p[2])}}
      cycles == UNION {Around(src) : src \in DOMAIN g}
  IN  IF cycles = {} THEN -1 ELSE Min(cycles)

\* The parity of the distance from the first vertex of the component colours it.
graph_is_bipartite(g) ==
  LET First1(u) == Min({w \in DOMAIN g : bfs_distances(g, u)[w] # Unreached})
      color1 == [u \in DOMAIN g |-> bfs_distances(g, First1(u))[u] % 2]
  IN  coloring_is_proper(g, color1)

max_component_size(g) == max_neighborhood_size(g, Size(g))

\* Position of the highest one bit, until one is left; at least 1.
log_star(n) ==
  LET steps[x \in 0 .. n] == IF x <= 1 THEN 0 ELSE 1 + steps[Log2(x)] IN IF n <= 2 THEN 1 ELSE steps[n]

triangle_count(g) ==
  Cardinality({t \in (DOMAIN g) \X (DOMAIN g) \X (DOMAIN g) :
                 t[1] < t[2] /\ t[2] < t[3] /\ t[2] \in g[t[1]] /\ t[3] \in g[t[1]] /\ t[3] \in g[t[2]]})

symmetry_break_by_id(mine, theirs, smaller_wins) == IF smaller_wins THEN mine < theirs ELSE mine > theirs

\* A tie is won by both.
symmetry_break_random(mine, theirs, largest_wins) == \A x \in theirs : IF largest_wins THEN x <= mine ELSE x >= mine

symmetry_break_id_bits(mine, theirs, round) ==
  LET Bit1(x) == (x \div 2^round) % 2 IN IF \E x \in theirs : Bit1(x) = Bit1(mine) THEN -1 ELSE Bit1(mine)

--------------------------------------------------------------------------------
\* Where a walk that leaves through the given ports ends; PortNone if a port is missing.
WalkEnd(pns, u, ports) ==
  FoldLeft(LAMBDA at, p : IF at = PortNone \/ p > Len(pns[at]) THEN PortNone ELSE pns[at][p], u, ports)

\* No sequence of ports can be walked from one of the two only.
SameWalks(pns, u, w, steps) ==
  \A ports \in UNION {[1 .. k -> 1 .. Size(pns)] : k \in 0 .. steps + 1} :
    (WalkEnd(pns, u, ports) = PortNone) <=> (WalkEnd(pns, w, ports) = PortNone)

\* What the two families compute by different means is the same: the girth by
\* breadth-first trees and by leaving out edges, the chromatic number by extension and
\* by trial, balls by layers and by distances; and the measures bound one another.  A
\* colouring is proper if it has no conflict, and taking the colour from the vertex
\* with most of them makes conflicts fewer; a set is maximal if it dominates.
MeasuresAgree(g) ==
  /\ graph_girth(g) = IF local_girth(g) = Unreached THEN -1 ELSE local_girth(g)
  /\ graph_diameter(g) = local_diameter(g)
  /\ graph_chromatic_number(g) = local_chromatic_number(g)
  /\ graph_is_bipartite(g) <=> graph_chromatic_number(g) <= 2
  /\ graph_girth(g) = 3 <=> triangle_count(g) > 0
  /\ triangle_count(g) > 0 <=> \E u \in DOMAIN g : graph_clustering_coeff(g, u) > 0
  /\ local_is_connected(g) <=> max_component_size(g) = Size(g)
  /\ graph_independence_number(g) * graph_chromatic_number(g) >= Size(g)
  /\ \A k \in 0 .. 3 :
       /\ \A u \in DOMAIN g : DOMAIN neighborhood_view(g, u, k) = local_r_neighborhood(g, u, k)
       /\ k > 0 => count_distinct_k_views(g, k) >= Cardinality({Cardinality(g[u]) : u \in DOMAIN g})
  /\ \A c \in [DOMAIN g -> {-1, 0, 1}] :
       /\ coloring_is_proper(g, c) <=> coloring_count_conflicts(g, c) = 0
       /\ ~coloring_is_proper(g, c) =>
            coloring_count_conflicts(g, [c EXCEPT ![coloring_max_conflict_vertex(g, c)] = -1])
              < coloring_count_conflicts(g, c)
  /\ \A set \in {s \in SUBSET DOMAIN g : mis_is_independent(g, s)} :
       mis_is_maximal(g, set) <=> mis_dominating_count(g, set) = Size(g)

\* Every way to number ports gives each neighbour one port, and the numbers of the
\* two ends of an edge find each other; nodes that the refinement leaves in one class
\* are those no sequence of ports tells apart; the views do not show this, as they
\* hold the nodes' numbers.
PortsAgree(g, pns) ==
  LET dual == port_build_dual_view(pns)
  IN  /\ \A u \in DOMAIN g : port_is_valid(pns[u])
      /\ \A u \in DOMAIN pns : \A p \in DOMAIN pns[u] :
           dual[dual[u][p][1]][dual[u][p][2] + 1] = <<u, p - 1>>
      /\ \A u, w \in DOMAIN g : port_nodes_indistinguishable(pns, u, w, 2) <=> SameWalks(pns, u, w, 2)
      /\ lb_neighborhood_classes(pns, 1) = Size(g)
      /\ port_count_symmetry_classes(pns) >= Cardinality({Cardinality(g[u]) : u \in DOMAIN g})

\* A numbering of the cycle g, taken over by the one that is twice as long.
Lift(pns) ==
  LET n == Size(pns)
      Above(u, w) == CHOOSE x \in 0 .. 2 * n - 1 : x % n = w /\ x \in local_make_cycle(2 * n)[u]
  IN  [u \in 0 .. 2 * n - 1 |-> [p \in 1 .. 2 |-> Above(u, pns[u % n][p])]]

\* The builders make the graphs their names say, with fewer edges where pairs of stubs
\* collide; a port's reverse is the one the dual view finds; a cycle covered by
\* one of twice its length has the same classes in it; the truncated cover looks
\* like the cycle while it does not close; the two forms of Linial's bound agree; and
\* two numbers are told apart by their order, and at one of their bits.
BuildersAgree ==
  /\ \A n \in 3 .. 6 :
       /\ GraphOf(graph_create_ring(n)) = local_make_cycle(n)
       /\ GraphOf(graph_create_complete(n)) = local_make_clique(n)
       /\ LET adj == graph_create_ring(n) IN port_numbering_create(adj) = port_build_dual_view(adj)
       /\ port_is_globally_symmetric(local_make_cycle(n), port_assign_ring_orientation(local_make_cycle(n))) => n % 2 = 0
  /\ \A parent \in {p \in [1 .. 3 -> 0 .. 3] : \A k \in 1 .. 3 : p[k] < k} :
       LET g == GraphOf(graph_create_tree(parent))
       IN  local_is_connected(g) /\ graph_girth(g) = -1 /\ local_edge_count(g) = 3
  /\ \A a, b \in 1 .. 3 :
       /\ graph_is_bipartite(GraphOf(graph_create_bipartite(a, b)))
       /\ local_edge_count(GraphOf(graph_create_bipartite(a, b))) = a * b
       /\ LET grid == GraphOf(graph_create_grid(a, b))
          IN  graph_is_bipartite(grid) /\ local_edge_count(grid) = a * (b - 1) + b * (a - 1)
  /\ \A adj \in graph_create_random_regular(4, 1) \cup graph_create_random_regular(3, 2) :
       local_max_degree(GraphOf(adj)) <= IF Size(adj) = 4 THEN 1 ELSE 2
  /\ \A adj \in graph_create_bounded_degree(4, 2) : local_max_degree(GraphOf(adj)) <= 2
  /\ \A n \in 3 .. 4 : \A pns \in port_assign_random(local_make_cycle(n)) :
       /\ lb_is_covering_graph(local_make_cycle(2 * n), local_make_cycle(n), [u \in 0 .. 2 * n - 1 |-> u % n])
       /\ port_count_symmetry_classes(Lift(pns)) = port_count_symmetry_classes(pns)
  /\ \A n \in 3 .. 7 : \A k \in 1 .. 2 :
       2 * k < n => Size(lb_universal_cover_truncation(local_make_cycle(n), k))
                    = Cardinality(local_r_neighborhood(local_make_cycle(n), 0, k))
  /\ \A n \in {3, 4, 15, 16, 17, 65535, 65536} :
       lb_linial_ring_min_rounds(n, 3) = Min({k \in 0 .. 5 : ~lb_linial_ring_impossible(k, n)})
  /\ \A n \in 2 .. 20 : log_star(n) = iterated_log2(n)
  /\ \A x, y \in 0 .. 7 : x # y =>
       /\ \A first \in BOOLEAN : symmetry_break_by_id(x, y, first) <=> ~symmetry_break_by_id(y, x, first)
       /\ \A first \in BOOLEAN : symmetry_break_random(x, {y}, first) <=> symmetry_break_by_id(x, y, ~first)
       /\ \E r \in 0 .. 2 : {symmetry_break_id_bits(x, {y}, r), symmetry_break_id_bits(y, {x}, r)} = {0, 1}
================================================================================
