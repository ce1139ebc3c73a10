------------------------------ MODULE PortNumbering ----------------------------
(***************************************************************************)
(* Port numberings (port_numbering.c) and what the lower bounds compute    *)
(* from them (lower_bounds.c).  The ports of a node are the sequence of    *)
(* its neighbours: port p is element p + 1, and port_by_neighbor is its    *)
(* inverse.                                                                *)
(***************************************************************************)
EXTENDS LocalGraph
LOCAL INSTANCE FiniteSetsExt
LOCAL INSTANCE SequencesExt

PortNone == -1

Ascending(S) == SetToSortSeq(S, LAMBDA a, b : a < b)

\* Every order the shuffle of port_assign_arbitrary or port_assign_random may give.
port_assign_random(g) ==
  {pns \in [DOMAIN g -> UNION {SetToSeqs(g[u]) : u \in DOMAIN g}] : \A u \in DOMAIN g : pns[u] \in SetToSeqs(g[u])}

port_assign_id_ordered(g) == [u \in DOMAIN g |-> Ascending(g[u])]

\* The larger degree first, then the smaller node.
port_assign_degree_ordered(g) ==
  [u \in DOMAIN g |-> SetToSortSeq(g[u], LAMBDA a, b : \/ Cardinality(g[a]) > Cardinality(g[b])
                                                       \/ Cardinality(g[a]) = Cardinality(g[b]) /\ a < b)]

\* Called an orientation; port 0 is the smaller neighbour, not the predecessor.
port_assign_ring_orientation(g) ==
  [u \in DOMAIN g |-> IF Cardinality(g[u]) = 1 THEN <<>> ELSE SubSeq(Ascending(g[u]), 1, 2)]

\* The parent in the breadth-first tree, which the queue visits in order: of those
\* one layer nearer, the one that came first.
BfsOrder(g, root) ==
  LET Visit(queue, seen) ==
        IF Len(queue) < seen THEN queue
        ELSE LET u == queue[seen] IN queue \o Ascending(g[u] \ ToSet(queue))
  IN  FoldLeft(Visit, <<root>>, [k \in 1 .. Size(g) |-> k])

bfs_parent(g, root) ==
  LET queue == BfsOrder(g, root)
      Rank1(v) == Min({k \in 1 .. Len(queue) : queue[k] \in g[v]})
  IN  [v \in DOMAIN g |-> IF v = root THEN root
                          ELSE IF v \in ToSet(queue) THEN queue[Rank1(v)] ELSE PortNone]

\* The parent first, then the children.
port_assign_bfs_tree(g, root) ==
  LET parent == bfs_parent(g, root)
  IN  [u \in DOMAIN g |->
        (IF u # root /\ parent[u] # PortNone THEN <<parent[u]>> ELSE <<>>)
        \o Ascending({w \in DOMAIN g \ {u} : parent[w] = u})]

--------------------------------------------------------------------------------
port_get_port_for_neighbor(ports, w) ==
  IF w \in ToSet(ports) THEN (CHOOSE p \in DOMAIN ports : ports[p] = w) - 1 ELSE PortNone

port_get_neighbor_for_port(ports, p) == IF p < Len(ports) THEN ports[p + 1] ELSE PortNone

\* Distinct neighbours; the inverse is then well defined.
port_is_valid(ports) == IsInjective(ports)

port_consistency_flip(port, to_deg) == IF port >= to_deg THEN PortNone ELSE to_deg - 1 - port

\* Without a function both ends must have the same number.
port_check_edge_consistency(pns, u, w, flip) ==
  LET there == port_get_port_for_neighbor(pns[u], w)
      back  == port_get_port_for_neighbor(pns[w], u)
  IN  there # PortNone /\ back # PortNone
      /\ (IF flip THEN port_consistency_flip(there, Len(pns[w])) ELSE there) = back

port_is_globally_symmetric(g, pns) ==
  \A u \in DOMAIN g : \A w \in g[u] :
    port_get_port_for_neighbor(pns[u], w) = port_get_port_for_neighbor(pns[w], u)

\* For each node and port the neighbour and its port back.
port_build_dual_view(pns) ==
  [u \in DOMAIN pns |-> [p \in DOMAIN pns[u] |->
     <<pns[u][p], port_get_port_for_neighbor(pns[pns[u][p]], u)>>]]

\* Mutant: the refinement looks at the neighbours without their ports.
RefineUnordered(pns, color) == [u \in DOMAIN pns |-> <<color[u], {color[pns[u][p]] : p \in DOMAIN pns[u]}>>]

\* One refinement: the hash of the own colour and, port by port, the neighbours'
\* colours is taken to be injective.
Refine(pns, color) == [u \in DOMAIN pns |-> <<color[u], [p \in DOMAIN pns[u] |-> color[pns[u][p]]]>>]

RefineColors(pns, rounds) ==
  FoldLeft(LAMBDA color, k : Refine(pns, color), [u \in DOMAIN pns |-> Len(pns[u])], [k \in 1 .. rounds |-> k])

\* More rounds than the code's num_nodes + 10 change nothing, and neither do those
\* beyond num_nodes.
port_count_symmetry_classes(pns) ==
  LET final == RefineColors(pns, Cardinality(DOMAIN pns)) IN Cardinality({final[u] : u \in DOMAIN pns})

port_nodes_indistinguishable(pns, u, w, max_rounds) ==
  u = w \/ LET color == RefineColors(pns, max_rounds) IN color[u] = color[w]

\* The tree of walks of at most r steps that do not turn back, each node with its
\* number.
RECURSIVE port_compute_view(_, _, _, _)
port_compute_view(pns, node, parent, r) ==
  <<node, IF r = 0 THEN <<>>
          ELSE [p \in {k \in DOMAIN pns[node] : pns[node][k] # parent} |->
                  port_compute_view(pns, pns[node][p], node, r - 1)]>>

lb_neighborhood_classes(pns, T) ==
  Cardinality({port_compute_view(pns, u, PortNone, T) : u \in DOMAIN pns})

\* f is onto, keeps degrees, and maps neighbourhoods onto neighbourhoods.
lb_is_covering_graph(g, h, f) ==
  /\ \A w \in DOMAIN h : \E u \in DOMAIN g : f[u] = w
  /\ \A u \in DOMAIN g : /\ Cardinality(g[u]) = Cardinality(h[f[u]])
                         /\ h[f[u]] \subseteq {f[w] : w \in g[u]}

\* Called the universal cover: the regular tree of the graph's degree.
lb_universal_cover_truncation(g, k) == local_make_regular_tree(local_max_degree(g), k)

--------------------------------------------------------------------------------
\* Position of the highest one bit: v >>= 1 until v is 1.
Log2(v) == Max({k \in 0 .. 30 : 2^k <= v})

iterated_log2(n) ==
  LET count[v \in 0 .. n] == IF v <= 1 THEN 0 ELSE 1 + count[Log2(v)] IN count[n]

lb_linial_ring_impossible(rounds, initial_colors) ==
  IF rounds = 0 THEN initial_colors > 3 ELSE rounds + 2 < iterated_log2(initial_colors)

lb_linial_ring_min_rounds(n, target_colors) ==
  LET gap == iterated_log2(n) - iterated_log2(target_colors)
  IN  IF target_colors >= n THEN 0 ELSE IF gap <= 1 THEN 1 ELSE gap - 1
================================================================================
