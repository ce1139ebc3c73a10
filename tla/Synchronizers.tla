------------------------------ MODULE Synchronizers ----------------------------
(***************************************************************************)
(* The alpha synchronizer (alpha_synchronizer.c), where a node leaves a    *)
(* round when all its neighbours told it that they and their neighbours    *)
(* are done, and a network under one of the three synchronizers, driven by *)
(* calls of synchro_execute_round, with nodes that crash between the calls.*)
(***************************************************************************)
EXTENDS TreeSynchronizers

CONSTANTS Graphs,        \* the adjacency lists network_add_edge may have built
          Synchronizer,  \* the values of synchro_type to consider
          ClusterSize    \* the cluster sizes gamma is initialised with

\* network_add_edge puts each end of an edge into the other's list, and takes no edge
\* from a node to itself.
ASSUME SynchronizerAssumption ==
  /\ Graphs \subseteq [Node -> Seq(Node)]
  /\ \A g \in Graphs : \A i, j \in Node :
       (\E k \in DOMAIN g[i] : g[i][k] = j) => i # j /\ (\E k \in DOMAIN g[j] : g[j][k] = i)
  /\ Synchronizer \subseteq {"ALPHA", "BETA", "GAMMA"}
  /\ ClusterSize \subseteq Nat \ {0}

VARIABLE synchro_type

vars == <<netVars, treeVars, neighbors, synchro_type>>

\* What each node i of senders sends to all its neighbours.
ToNeighbors(type, senders) ==
  UNION {{Msg(type, i, j) : j \in Neighbors(i)} : i \in senders}

\* Phase 1: the nodes whose protocol returned 0 become SAFE.
AfterProtocol(done) ==
  [i \in Node |-> IF i \in done THEN "SAFE" ELSE state[i]]

\* Phase 2: every SAFE node tells its neighbours.
SafeMessages(st) == ToNeighbors("SAFE", {i \in Node : st[i] = "SAFE"})

\* Phase 3: the SAFE nodes all of whose neighbours are SAFE start waiting.
\* (Only neighbours send to a node, so "as many as degree" is "all".)
StartWaiting(st, msgs) ==
  {i \in Node : /\ Neighbors(i) # {}
                /\ st[i] = "SAFE"
                /\ Neighbors(i) \subseteq Heard("SAFE", i, msgs)}

\* Mutant: a waiting node does not wait for acknowledgements.
AlphaReadyUnacknowledged(waiting, msgs) ==
  {i \in Node : Neighbors(i) = {} \/ i \in waiting}

\* Phases 3 and 4: a node without neighbours is ready whatever its state, any
\* other when it waits and all its neighbours acknowledged.
AlphaReady(waiting, msgs) ==
  {i \in Node : \/ Neighbors(i) = {}
                \/ i \in waiting /\ Neighbors(i) \subseteq Heard("ACK", i, msgs)}

\* alpha_execute_round, where the protocol returns 0 at the nodes of done.
AlphaExecuteRound(done) ==
  LET st == AfterProtocol(done)
      safes == SafeMessages(st)
      starting == StartWaiting(st, incoming \cup safes)
      acks == ToNeighbors("ACK", starting)
      waiting == starting \cup {i \in Node : st[i] = "WAITING"}
      resting == [i \in Node |-> IF i \in waiting THEN "WAITING" ELSE st[i]]
  IN  /\ done \subseteq Alive
      /\ FinishRound(safes \cup acks, AlphaReady(waiting, incoming \cup acks), resting, done)

--------------------------------------------------------------------------------
NoTrees ==
  /\ bfs_parent = [i \in Node |-> None]
  /\ depth = [i \in Node |-> -1]
  /\ cluster_leader = [i \in Node |-> None]

Init ==
  /\ neighbors \in Graphs
  /\ synchro_type \in Synchronizer
  /\ NetInit
  /\ \/ synchro_type = "ALPHA" /\ NoTrees
     \/ synchro_type = "BETA" /\ BetaTrees
     \/ synchro_type = "GAMMA" /\ \E k \in ClusterSize : GammaTrees(k)

\* synchro_execute_round; done: the nodes whose protocol returns 0.
ExecuteRound ==
  \/ synchro_type = "ALPHA" /\ \E done \in SUBSET Alive : AlphaExecuteRound(done)
  \/ synchro_type = "BETA" /\ BetaExecuteRound
  \/ synchro_type = "GAMMA" /\ GammaExecuteRound

Next ==
  /\ ExecuteRound \/ \E i \in Node : Crash(i)
  /\ UNCHANGED <<treeVars, neighbors, synchro_type>>

Spec == Init /\ [][Next]_vars

--------------------------------------------------------------------------------
TypeOK ==
  /\ NetTypeOK
  /\ bfs_parent \in [Node -> Node \cup {None}]
  /\ depth \in [Node -> Node \cup {-1}]
  /\ cluster_leader \in [Node -> Node \cup {None}]

\* How many edges away j is from i, searching only through the nodes of within;
\* Cardinality(Node) stands for "not at all".
Distance(i, j, within) ==
  LET ball[d \in 0 .. Cardinality(Node)] ==
        IF d = 0 THEN {i} ELSE ball[d - 1] \cup (within \cap UNION {Neighbors(k) : k \in ball[d - 1]})
      d == {e \in 0 .. Cardinality(Node) - 1 : j \in ball[e]}
  IN  IF d = {} THEN Cardinality(Node) ELSE CHOOSE e \in d : \A f \in d : e <= f

Connected(i, j) == Distance(i, j, Node) < Cardinality(Node)

\* Alpha is a barrier two edges deep: a node enters a round only after each
\* neighbour and each neighbour's neighbour completed the one before, although
\* protocols fail, are called again, and nodes crash (README, Theorem 4, for the
\* nodes whose messages reach i).
AlphaTwoHop ==
  synchro_type = "ALPHA" =>
    \A i \in Node : \A j \in Neighbors(i) : \A k \in Neighbors(j) \cup {j} :
      completed[k] >= current_round[i]

\* Alpha never stalls: while no node has crashed, an execution in which every
\* protocol returns 0 moves the nodes that are furthest behind in their component,
\* whatever earlier executions left in the queues.
AlphaProgress ==
  [][synchro_type = "ALPHA" /\ Alive = Node /\ AlphaExecuteRound(Node) =>
       \A i \in Node :
         (\A j \in Node : Connected(i, j) => current_round[i] <= current_round[j])
           => current_round'[i] = current_round[i] + 1]_vars

\* Beta's tree holds exactly the nodes node 0 reaches, at their true distance,
\* each under a neighbour one closer.  Gamma's clusters are led by their lowest
\* node, and each cluster's tree spans it at the distances inside the cluster.
TreesSpan ==
  /\ synchro_type = "BETA" =>
       \A v \in Node :
         /\ depth[v] = IF Connected(0, v) THEN Distance(0, v, Node) ELSE -1
         /\ depth[v] > 0 => bfs_parent[v] \in Neighbors(v) /\ depth[bfs_parent[v]] = depth[v] - 1
  /\ synchro_type = "GAMMA" =>
       \A v \in Node : LET cluster == {u \in Node : cluster_leader[u] = cluster_leader[v]}
                       IN  /\ v \in Leaders <=> \A u \in cluster : v <= u
                           /\ depth[v] = Distance(cluster_leader[v], v, cluster)
                           /\ v \in Leaders <=> bfs_parent[v] = None

\* While no node has crashed, one execution of beta moves every node of the tree,
\* with one message up and one down each of its edges (README, Theorem 2).
BetaLockStep ==
  [][synchro_type = "BETA" /\ Alive = Node /\ BetaExecuteRound =>
       /\ \A v \in Node : InTree(v) => current_round'[v] = current_round[v] + 1
       /\ total_messages_sent' = total_messages_sent + 2 * (Cardinality({v \in Node : InTree(v)}) - 1)]_vars

\* Even with crashes, reports and pulses that are late or repeated, no node of
\* beta's tree gets ahead of its parent.
BetaParentLeads ==
  synchro_type = "BETA" =>
    \A v \in Node : bfs_parent[v] # None => current_round[v] <= current_round[bfs_parent[v]]

\* While no node has crashed, clusters of one node make gamma send one message
\* each way over every edge, and one cluster makes it send what beta sends.
GammaExtremes ==
  [][synchro_type = "GAMMA" /\ Alive = Node /\ GammaExecuteRound =>
       LET sent == total_messages_sent' - total_messages_sent
       IN  /\ Leaders = Node => sent = Cardinality({e \in Node \X Node : e[2] \in Neighbors(e[1])})
           /\ Cardinality(Leaders) = 1 => sent = 2 * (Cardinality(Node) - 1)]_vars

\* Without faults beta and gamma do what they are built for: their trees span, beta
\* moves in lock step, and gamma costs at its extremes what the two others cost.
TreesCarryRounds == [](TypeOK /\ TreesSpan) /\ BetaLockStep /\ GammaExtremes

--------------------------------------------------------------------------------
\* All graphs of four nodes, with the edges added in one order.
EdgesOfFour == <<<<0, 1>>, <<0, 2>>, <<0, 3>>, <<1, 2>>, <<1, 3>>, <<2, 3>>>>

AllGraphs ==
  {AdjacencyLists(SelectSeq(EdgesOfFour, LAMBDA e : e \in chosen)) :
     chosen \in SUBSET {EdgesOfFour[k] : k \in DOMAIN EdgesOfFour}}
================================================================================
