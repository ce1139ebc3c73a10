----------------------------- MODULE RingApplications --------------------------
(***************************************************************************)
(* The applications of applications.c that keep a state of their own:      *)
(* distance-vector routing and a spanning tree on a line of N nodes, and   *)
(* clocks on a ring, each repaired round by round after a fault.  (The     *)
(* others run the token ring: RingRecovery.)                               *)
(***************************************************************************)
EXTENDS DijkstraRing

CONSTANTS MaxClock,      \* bound: initial clocks (10000 in the code)
          MaxAppRounds   \* max_rounds
ASSUME AppBounds == MaxClock \in Nat /\ MaxAppRounds \in Nat

VARIABLES application, app_round, ended,
          distance,    \* routing: [node][destination]; tree: distance_to_root
          via,         \* routing_table; parent_id
          clock        \* logical_clock

appVars == <<application, app_round, ended, distance, via, clock>>

Line(i) == {i - 1, i + 1} \cap Machine
Apart(i, j) == IF i < j THEN j - i ELSE i - j
Toward(i, j) == IF j < i THEN i - 1 ELSE IF j > i THEN i + 1 ELSE i

\* Mutant: the first neighbour below the limit is taken for the best.
FirstNeighbor(i, value, limit) ==
  {n \in Line(i) : value[n] < limit /\ \A m \in Line(i) : value[m] < limit => n <= m}

\* The neighbour offering the least of values, the first of them; none if no
\* value is below limit.
BestNeighbor(i, value, limit) ==
  {n \in Line(i) : /\ value[n] < limit
                   /\ \A m \in Line(i) : value[n] < value[m] \/ (value[n] = value[m] /\ n <= m)}

\* The set-up of ss_app_routing_recovery: tables are right but for at most
\* N/2 + 1 entries, whose distance is far off and whose next hop is anything.
RoutingInit ==
  /\ application = "ROUTING" /\ clock = <<>>
  /\ \E bad \in {b \in SUBSET {p \in Machine \X Machine : p[1] # p[2]} :
                   Cardinality(b) <= N \div 2 + 1} :
       /\ distance = [i \in Machine |->
                        [j \in Machine |-> IF <<i, j>> \in bad THEN 10 * N ELSE Apart(i, j)]]
       /\ \E hop \in [bad -> Machine] :
            via = [i \in Machine |->
                     [j \in Machine |-> IF <<i, j>> \in bad THEN hop[<<i, j>>] ELSE Toward(i, j)]]

\* best_dist < nodes[i].distance[j]
Improves(offer, known) == offer < known

\* The neighbour through which node i gets closer to j, if its offer is better.
Better(d, i, j) ==
  {n \in BestNeighbor(i, [m \in Machine |-> 1 + d[m][j]], 20 * N) :
     i # j /\ Improves(1 + d[n][j], d[i][j])}

TakeOffers(t, i) ==
  LET better(j) == Better(t.dist, i, j)
      from(j) == CHOOSE n \in better(j) : TRUE
  IN  [dist |-> [t.dist EXCEPT ![i] = [j \in Machine |->
                    IF better(j) = {} THEN t.dist[i][j] ELSE 1 + t.dist[from(j)][j]]],
       hop |-> [t.hop EXCEPT ![i] = [j \in Machine |->
                    IF better(j) = {} THEN t.hop[i][j] ELSE from(j)]]]

\* A round: the nodes in turn take the better offers of their neighbours.
RoutingTurn[k \in 0 .. N] ==
  IF k = 0 THEN [dist |-> distance, hop |-> via] ELSE TakeOffers(RoutingTurn[k - 1], k - 1)

RoutingRound ==
  /\ application = "ROUTING"
  /\ distance' = RoutingTurn[N].dist /\ via' = RoutingTurn[N].hop
  /\ ended' = (distance' = distance)            \* updated == 0
  /\ UNCHANGED clock

\* ss_app_spanning_tree starts from any parents of lower identifiers and any
\* distances; what matters is whether a distance is below N.
TreeInit ==
  /\ application = "TREE" /\ clock = <<>>
  /\ distance \in [Machine -> 0 .. N] /\ distance[0] = 0
  /\ via \in [Machine -> Machine] /\ via[0] = 0 /\ \A i \in Machine \ {0} : via[i] < i

\* A node joins the neighbour closest to the root among those below N.
JoinClosest(t, i) ==
  LET best == BestNeighbor(i, t.dist, N)
      parent == CHOOSE n \in best : TRUE
  IN  IF best = {} THEN t
      ELSE [dist |-> [t.dist EXCEPT ![i] = 1 + t.dist[parent]],
            hop |-> [t.hop EXCEPT ![i] = parent]]

\* A round: every node but the root, in turn.
TreeTurn[k \in 0 .. N-1] ==
  IF k = 0 THEN [dist |-> distance, hop |-> via] ELSE JoinClosest(TreeTurn[k - 1], k)

TreeRound ==
  /\ application = "TREE"
  /\ distance' = TreeTurn[N-1].dist /\ via' = TreeTurn[N-1].hop
  /\ ended' = (distance' = distance /\ via' = via /\ \A i \in Machine : distance[i] = i)
  /\ UNCHANGED clock

\* ss_app_time_sync on a ring.
SyncInit ==
  /\ application = "SYNC" /\ distance = <<>> /\ via = <<>>
  /\ clock \in [Machine -> 0 .. MaxClock]

SpreadOf(c) == Apart(CHOOSE v \in {c[i] : i \in Machine} : \A i \in Machine : v >= c[i],
                     CHOOSE v \in {c[i] : i \in Machine} : \A i \in Machine : v <= c[i])

\* A tick, and half the way to the largest clock in sight.  The drift of a clock
\* below 20000 is cut off to nothing.  The tolerance is 0.
SyncRound ==
  LET sees(i) == {clock[i], clock[Prev(i)], clock[NextTo(i)]}
      largest(i) == CHOOSE v \in sees(i) : \A w \in sees(i) : w <= v
  IN  /\ application = "SYNC"
      /\ clock' = [i \in Machine |-> (clock[i] + 1 + largest(i) + 1) \div 2]
      /\ ended' = (SpreadOf(clock') = 0)
      /\ UNCHANGED <<distance, via>>

AppInit == app_round = 0 /\ ended = FALSE /\ (RoutingInit \/ TreeInit \/ SyncInit)

AppStep ==
  /\ ~ended /\ app_round < MaxAppRounds
  /\ app_round' = app_round + 1
  /\ RoutingRound \/ TreeRound \/ SyncRound
  /\ UNCHANGED application

\* ss_app_leader_election: the first privileged machine of the converged ring.
Leader(s) ==
  CHOOSE i \in Machine : Privileged(s, i) /\ \A j \in Machine : Privileged(s, j) => i <= j
================================================================================
