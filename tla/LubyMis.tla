--------------------------------- MODULE LubyMis -------------------------------
(* mis_luby_randomized and its round, mis_luby_round (mis_luby.c).              *)
EXTENDS LubyRound

VARIABLES in_mis, mis_size, dominator,
          r,          \* rounds so far
          joined,     \* in the round under way
          finished

misVars == <<in_mis, mis_size, dominator, r, joined, finished>>

MisInit ==
  /\ in_mis = {} /\ mis_size = 0 /\ r = 0 /\ joined = 0
  /\ dominator = [u \in Vertex |-> -1]
  /\ finished = FALSE

max_r == 20 * N

MisDraw ==
  /\ ~finished /\ r < max_r
  /\ Draw
  /\ UNCHANGED misVars

\* Mutant: a vertex that loses its visit leaves the game.
MisVisitOnce ==
  /\ v \in Vertex
  /\ IF v \in active /\ LocallyMaximal(v)
     THEN /\ in_mis' = in_mis \cup {v}
          /\ joined' = joined + 1
          /\ Deactivate(v)
     ELSE /\ active' = active \ {v}
          /\ UNCHANGED <<in_mis, joined>>
  /\ v' = v + 1
  /\ UNCHANGED <<ranks, r, mis_size, dominator, finished>>

MisVisit ==
  /\ v \in Vertex
  /\ IF v \in active /\ LocallyMaximal(v)
     THEN /\ in_mis' = in_mis \cup {v}
          /\ joined' = joined + 1
          /\ Deactivate(v)
     ELSE UNCHANGED <<in_mis, joined, active>>
  /\ v' = v + 1
  /\ UNCHANGED <<ranks, r, mis_size, dominator, finished>>

\* The vertices outside the set note a neighbour inside, if they have one.
Dominators(f) ==
  \A u \in Vertex : LET inside == neighbors[u] \cap in_mis
                    IN  IF u \in in_mis \/ inside = {} THEN f[u] = -1 ELSE f[u] \in inside

MisEndRound ==
  /\ v = N
  /\ v' = Idle /\ ranks' = <<>> /\ joined' = 0
  /\ IF joined = 0 /\ active = {}
     THEN /\ finished' = TRUE
          /\ dominator' \in {f \in [Vertex -> Vertex \cup {-1}] : Dominators(f)}
          /\ UNCHANGED <<r, mis_size>>
     ELSE /\ r' = r + 1
          /\ mis_size' = mis_size + joined
          /\ UNCHANGED <<finished, dominator>>
  /\ UNCHANGED <<active, in_mis>>

\* The loop may also end because it ran max_r rounds.
MisGiveUp ==
  /\ v = Idle /\ r = max_r /\ ~finished
  /\ finished' = TRUE
  /\ dominator' \in {f \in [Vertex -> Vertex \cup {-1}] : Dominators(f)}
  /\ UNCHANGED <<roundVars, in_mis, mis_size, r, joined>>

MisNext == MisDraw \/ MisVisit \/ MisEndRound \/ MisGiveUp

MisSpec == RoundInit /\ MisInit /\ [][MisNext /\ UNCHANGED neighbors]_<<roundVars, misVars, neighbors>>

--------------------------------------------------------------------------------
\* The set stays independent although a vertex joins while later vertices of the
\* round hold ranks drawn before its neighbours left the round.
Independent == \A u \in in_mis : neighbors[u] \cap in_mis = {}

\* When the algorithm stops, the set is maximal and every vertex outside knows a
\* neighbour inside (mis.h: Maximal Independent Set, dominating set).
Maximal ==
  finished => \A u \in Vertex \ in_mis : dominator[u] \in neighbors[u] \cap in_mis

\* Every round puts a vertex in the set, ties or not: the loop never needs its
\* limit of 20 n rounds, and the size it counts is the size of the set.
RoundsBounded ==
  /\ r <= mis_size
  /\ mis_size + joined = Cardinality(in_mis)
================================================================================
