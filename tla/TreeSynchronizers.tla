--------------------------- MODULE TreeSynchronizers ---------------------------
(***************************************************************************)
(* The beta and gamma synchronizers (beta_synchronizer.c,                  *)
(* gamma_synchronizer.c): the trees and clusters they build when they are  *)
(* initialised, the convergecast and broadcast over such trees that both   *)
(* of them run in every round, and the rounds themselves.                  *)
(***************************************************************************)
EXTENDS SyncNetwork

VARIABLES bfs_parent,      \* None for a root and for a node of no tree
          depth,           \* -1 for a node of no tree
          cluster_leader   \* None where there are no clusters

treeVars == <<bfs_parent, depth, cluster_leader>>

Children(p) == {i \in Node : bfs_parent[i] = p}

InTree(i) == depth[i] >= 0

\* Mutant: the search takes nodes it must not enter.
TakeAnywhere(search, u, v, within, cap) ==
  IF search.depth[v] = -1 /\ Cardinality({w \in Node : search.depth[w] >= 0}) < cap
  THEN [queue |-> Append(search.queue, v),
        parent |-> [search.parent EXCEPT ![v] = u],
        depth |-> [search.depth EXCEPT ![v] = search.depth[u] + 1]]
  ELSE search

\* The search comes from u to its neighbour v: it takes v if v is in within, not
\* yet taken, and fits under the cap.
Take(search, u, v, within, cap) ==
  IF /\ v \in within /\ search.depth[v] = -1
     /\ Cardinality({w \in Node : search.depth[w] >= 0}) < cap
  THEN [queue |-> Append(search.queue, v),
        parent |-> [search.parent EXCEPT ![v] = u],
        depth |-> [search.depth EXCEPT ![v] = search.depth[u] + 1]]
  ELSE search

\* One step of a breadth-first search: the node u at the head of the queue
\* leaves it and looks at its adjacency list, in order.
Expand(search, within, cap) ==
  LET u == Head(search.queue)
      after[k \in 0 .. Len(neighbors[u])] ==
        IF k = 0 THEN [search EXCEPT !.queue = Tail(@)]
        ELSE Take(after[k - 1], u, neighbors[u][k], within, cap)
  IN  after[Len(neighbors[u])]

\* A breadth-first search from root among the nodes of within, of at most cap
\* nodes; each step takes one node off the queue.
Search(root, within, cap) ==
  LET after[k \in 0 .. Cardinality(Node)] ==
        IF k = 0
        THEN [queue |-> <<root>>, parent |-> [v \in Node |-> None],
              depth |-> [v \in Node |-> IF v = root THEN 0 ELSE -1]]
        ELSE LET search == after[k - 1]
             IN  IF search.queue = <<>> THEN search ELSE Expand(search, within, cap)
  IN  after[Cardinality(Node)]

Reached(search) == {v \in Node : search.depth[v] >= 0}

\* partition_clusters: every node in turn that has no cluster leads one of at
\* most k nodes, grown breadth first.
ClusterLeaders(k) ==
  LET after[i \in 0 .. Cardinality(Node)] ==
        IF i = 0 THEN [v \in Node |-> None]
        ELSE LET leader == after[i - 1]
                 free == {v \in Node : leader[v] = None}
                 grown == Reached(Search(i - 1, free, k))
             IN  IF i - 1 \notin free THEN leader
                 ELSE [v \in Node |-> IF v \in grown THEN i - 1 ELSE leader[v]]
  IN  after[Cardinality(Node)]

\* Mutant: only the reports already queued count, not those of this execution.
ReportsQueued ==
  {v \in Alive : /\ InTree(v)
                 /\ Cardinality(Delivered("SAFE_SUBTREE", v, incoming)) >= Cardinality(Children(v))}

\* Convergecast, deepest nodes first: whether v reports its subtree.  It counts
\* the reports in its queue, repeated ones included, and those of this round.
Reports ==
  LET reports[v \in Node] ==
        /\ v \in Alive
        /\ InTree(v)
        /\ Cardinality(Delivered("SAFE_SUBTREE", v, incoming))
             + Cardinality({c \in Children(v) : reports[c] /\ current_round[c] = current_round[v]})
           >= Cardinality(Children(v))
  IN  {v \in Node : reports[v]}

ReportMessages(reporting) ==
  {Msg("SAFE_SUBTREE", v, bfs_parent[v]) : v \in {u \in reporting : bfs_parent[u] # None}}

\* Mutant: a node that reported does not wait for its parent's pulse.
PulsedUnasked(reporting, roots) ==
  {v \in reporting : bfs_parent[v] # None \/ v \in roots}

\* Broadcast, roots first: the nodes of reporting that a pulse reaches, from
\* the roots that start one or from a pulse already in their queue.
Pulsed(reporting, roots) ==
  LET pulsed[v \in Node] ==
        /\ v \in reporting
        /\ IF bfs_parent[v] = None THEN v \in roots
           ELSE \/ bfs_parent[v] \in Heard("NEXT_PULSE", v, incoming)
                \/ pulsed[bfs_parent[v]] /\ current_round[bfs_parent[v]] = current_round[v]
  IN  {v \in Node : pulsed[v]}

PulseMessages(pulsed) ==
  UNION {{Msg("NEXT_PULSE", p, c) : c \in Children(p)} : p \in pulsed}

--------------------------------------------------------------------------------
\* Beta: every round is convergecast to node 0 along one spanning tree, and the
\* next pulse is broadcast down it.

\* synchro_beta_init: the breadth-first tree of node 0.
BetaTrees ==
  LET tree == Search(0, Node, Cardinality(Node))
  IN  /\ bfs_parent = tree.parent
      /\ depth = tree.depth
      /\ cluster_leader = [i \in Node |-> None]

\* beta_execute_round.  Every node that has not crashed runs its protocol, whose
\* result is ignored, and is SAFE.
BetaExecuteRound ==
  LET reporting == Reports
      pulsed == Pulsed(reporting, {v \in reporting : bfs_parent[v] = None})
      resting == [i \in Node |-> IF i \in reporting THEN "WAITING"
                                 ELSE IF i \in Alive THEN "SAFE" ELSE state[i]]
  IN  FinishRound(ReportMessages(reporting) \cup PulseMessages(pulsed), pulsed, resting, Alive)

--------------------------------------------------------------------------------
\* Gamma: a tree in every cluster, and messages between the clusters.

\* synchro_gamma_init: clusters of at most k nodes, a breadth-first tree in each.
GammaTrees(k) ==
  LET leader == ClusterLeaders(k)
      tree[i \in Node] == Search(i, {v \in Node : leader[v] = i}, Cardinality(Node))
  IN  /\ cluster_leader = leader
      /\ bfs_parent = [v \in Node |-> tree[leader[v]].parent[v]]
      /\ depth = [v \in Node |-> tree[leader[v]].depth[v]]

Leaders == {i \in Node : cluster_leader[i] = i}

\* intercluster_nbrs
InterclusterNeighbors(i) == {j \in Neighbors(i) : cluster_leader[j] # cluster_leader[i]}

InterclusterMessages(leaders) ==
  UNION {{Msg("INTERCLUSTER", i, j) : j \in InterclusterNeighbors(i)} : i \in leaders}

\* Mutant: a leader wants more messages than it has such neighbours.
StartPulseLate(waiting, msgs) ==
  {i \in waiting : Cardinality(Delivered("INTERCLUSTER", i, msgs))
                     > Cardinality(InterclusterNeighbors(i))}

\* A waiting leader starts the pulse when it has as many messages as neighbours
\* in other clusters: the messages go to those neighbours, not to their leaders.
StartPulse(waiting, msgs) ==
  {i \in waiting : Cardinality(Delivered("INTERCLUSTER", i, msgs))
                     >= Cardinality(InterclusterNeighbors(i))}

\* gamma_execute_round.  The cleanup advances SAFE and WAITING nodes as well as
\* READY ones: every node that has not crashed, whatever reached it.
GammaExecuteRound ==
  LET reporting == Reports
      across == InterclusterMessages(reporting \cap Leaders)
      roots == StartPulse(reporting \cap Leaders, incoming \cup across)
      pulsed == Pulsed(reporting, roots)
  IN  FinishRound(ReportMessages(reporting) \cup across \cup PulseMessages(pulsed),
                  Alive, state, Alive)
================================================================================
