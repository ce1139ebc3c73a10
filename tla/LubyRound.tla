-------------------------------- MODULE LubyRound ------------------------------
(***************************************************************************)
(* What the symmetry-breaking algorithms of mini-coloring-mis-lower-bounds *)
(* share: a graph and rounds that draw something for every vertex still in *)
(* play, then visit the vertices in order.  A visit sees what the earlier  *)
(* visits of the same round did.                                           *)
(***************************************************************************)
EXTENDS Integers, FiniteSets

CONSTANTS Vertex,   \* 0 .. n - 1
          Graphs,   \* the graphs graph_add_edge may have built: sets of neighbours
          Rank      \* what lcg_random_double may draw; ties are possible

ASSUME GraphAssumption ==
  /\ IsFiniteSet(Vertex) /\ Vertex = 0 .. Cardinality(Vertex) - 1
  /\ \A g \in Graphs : /\ g \in [Vertex -> SUBSET Vertex]
                       /\ \A u, w \in Vertex : u \in g[w] => w \in g[u] /\ u # w
  /\ Rank \subseteq Int

VARIABLES neighbors,  \* the graph
          active,     \* the vertices still in play
          ranks,      \* drawn for the vertices active when the round began
          v           \* the vertex to visit; n after the last, Idle between rounds

roundVars == <<active, ranks, v>>

N == Cardinality(Vertex)
Idle == -1

\* Mutant: a tie counts as a higher rank.
StrictlyMaximal(u) == \A w \in neighbors[u] \cap active : ranks[w] < ranks[u]

\* No neighbour still in play has a higher rank.
LocallyMaximal(u) == \A w \in neighbors[u] \cap active : ranks[w] <= ranks[u]

\* Mutant: the vertex that joins does not take its neighbours out of play.
DeactivateAlone(u) == active' = active \ {u}

\* A vertex that joins takes itself and its neighbours out of play.
Deactivate(u) == active' = active \ (neighbors[u] \cup {u})

RoundInit ==
  /\ neighbors \in Graphs
  /\ active = Vertex
  /\ ranks = <<>>
  /\ v = Idle

Draw ==
  /\ v = Idle
  /\ ranks' \in [active -> Rank]
  /\ v' = 0
  /\ UNCHANGED active

RoundTypeOK ==
  /\ neighbors \in Graphs
  /\ active \subseteq Vertex
  /\ v \in Vertex \cup {Idle, N}
  /\ DOMAIN ranks \subseteq Vertex /\ \A u \in DOMAIN ranks : ranks[u] \in Rank
================================================================================
