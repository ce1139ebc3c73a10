--------------------------- MODULE SequentialColoring --------------------------
(***************************************************************************)
(* The deterministic and sequential algorithms of                          *)
(* mini-coloring-mis-lower-bounds, and its LOCAL simulator running a       *)
(* flooding algorithm.                                                     *)
(***************************************************************************)
EXTENDS GraphUtils
LOCAL INSTANCE FiniteSetsExt
LOCAL INSTANCE SequencesExt
LOCAL INSTANCE Combinatorics

CONSTANTS TaskGraphs,      \* graphs built with graph_add_edge
          TaskRings,       \* sizes n of rings
          MaxRounds        \* LocalConfig.max_rounds

VARIABLES task,            \* the function that runs
          links,           \* the graph
          colorOf,         \* Coloring.colors; the ids of a ring's vertices at first
          palette,         \* Coloring.num_colors
          mis, dominatorOf,
          known,           \* what each node of the simulator has heard of
          live,            \* the nodes that have not terminated
          simRound,        \* rounds of the simulator; 1 once Linial's rounds are over
          done

taskVars == <<task, links, colorOf, palette, mis, dominatorOf, known, live, simRound, done>>

Blank == -1                \* INVALID_COLOR, INVALID_NODE

Tasks == {"greedy", "planar_6coloring", "distributed_greedy", "mis_greedy", "cole_vishkin", "mis_linial",
          "local_simulator"}
RingTasks == {"ring_3coloring", "mis_ring"}

Vertices == DOMAIN links
Delta == local_max_degree(links)
Orders(g) == {o \in [1 .. Size(g) -> DOMAIN g] : IsInjective(o)}

\* ring_3coloring_lower_bound_ids: vertex u gets 2^t shifted by u, and the bits of u
\* that are not in it.
ring_3coloring_lower_bound_ids(n, t) ==
  [u \in 0 .. n - 1 |-> LET shifted == 2^(t + u)
                        IN  shifted + u - IF (u \div shifted) % 2 = 1 THEN shifted ELSE 0]

\* The ids of a caller: any order of 0 .. n-1, or those of the lower bound.
RingIds(n) ==
  {f \in [0 .. n - 1 -> 0 .. n - 1] : IsInjective(f)} \cup {ring_3coloring_lower_bound_ids(n, t) : t \in 1 .. 2}

TaskInit ==
  /\ task \in Tasks \cup RingTasks
  /\ links \in IF task \in Tasks THEN TaskGraphs ELSE {local_make_cycle(n) : n \in TaskRings}
  /\ colorOf \in CASE task \in RingTasks -> RingIds(Size(links))
                   [] task \in {"cole_vishkin", "mis_linial"} -> {[u \in DOMAIN links |-> u]}
                   [] OTHER -> {[u \in DOMAIN links |-> Blank]}
  /\ palette = IF task \in {"cole_vishkin", "mis_linial"} THEN Size(links) ELSE 0
  /\ mis = {} /\ dominatorOf = [u \in DOMAIN links |-> Blank]
  /\ known = [u \in DOMAIN links |-> {u}]
  /\ live = DOMAIN links
  /\ simRound = 0 /\ done = FALSE

Runs(t) == task = t /\ ~done /\ UNCHANGED <<task, links>>

--------------------------------------------------------------------------------
\* coloring_smallest_last_order: again and again a vertex of least degree among those
\* left is removed; the first removed comes last.
Removals(g) ==
  LET TakeOut(gone, k) ==
        LET left == DOMAIN g \ ToSet(gone)
            Left(u) == Cardinality(g[u] \cap left)
        IN  Append(gone, Min({u \in left : \A w \in left : Left(u) <= Left(w)}))
  IN  FoldLeft(TakeOut, <<>>, [k \in 1 .. Size(g) |-> k])

coloring_smallest_last_order(g) == Reverse(Removals(g))

\* The largest degree at which a vertex is removed.
Degeneracy(g) ==
  Max({Cardinality(g[Removals(g)[k]] \ {Removals(g)[j] : j \in 1 .. k}) : k \in 1 .. Size(g)})

\* qsort leaves vertices of one degree in any order.
coloring_largest_first_order(g) ==
  {o \in Orders(g) : \A j, k \in DOMAIN o : j < k => Cardinality(g[o[j]]) >= Cardinality(g[o[k]])}

FirstFree(used) == Min((0 .. Cardinality(used)) \ used)

\* Mutant: the vertex looks at the neighbours before it in number, not in the order.
PaintByNumber(c, u) == [c EXCEPT ![u] = FirstFree({c[w] : w \in {x \in links[u] : x < u}} \ {Blank})]

\* The least colour no neighbour has.
Paint(c, u) == [c EXCEPT ![u] = FirstFree({c[w] : w \in links[u]} \ {Blank})]

Painted(order) == FoldLeft(Paint, [u \in Vertices |-> Blank], order)

Colored1(c, size) == colorOf' = c /\ palette' = size /\ done' = TRUE
                     /\ UNCHANGED <<mis, dominatorOf, known, live, simRound>>

Used(c) == 1 + Max({c[u] : u \in DOMAIN c})

coloring_greedy_sequential ==
  Runs("greedy") /\ \E order \in Orders(links) : Colored1(Painted(order), Used(Painted(order)))

\* The order is taken from its end, so a vertex removed early is coloured early.
planar_6coloring ==
  /\ Runs("planar_6coloring")
  /\ IF Size(links) >= 3 /\ local_edge_count(links) > 3 * Size(links) - 6
     THEN done' = TRUE /\ UNCHANGED <<colorOf, palette, mis, dominatorOf, known, live, simRound>>
     ELSE Colored1(Painted(Reverse(coloring_smallest_last_order(links))), 6)

\* A vertex waits for its neighbours with smaller numbers; in the order of the sweep
\* they are done.
distributed_greedy_coloring == Runs("distributed_greedy") /\ Colored1(Painted(InOrder(links)), Used(Painted(InOrder(links))))

--------------------------------------------------------------------------------
\* A vertex joins unless a neighbour did, and dominates the neighbours that have no
\* dominator yet.
Join(m, u) ==
  IF links[u] \cap m.set # {} THEN m
  ELSE [set |-> m.set \cup {u},
        by  |-> [w \in Vertices |-> IF w \in links[u] /\ m.by[w] = Blank THEN u ELSE m.by[w]]]

Joined(order) == FoldLeft(Join, [set |-> {}, by |-> [u \in Vertices |-> Blank]], order)

\* In the given order, a random one or that of the degrees.
mis_greedy_sequential ==
  /\ Runs("mis_greedy")
  /\ \E order \in Orders(links) : mis' = Joined(order).set /\ dominatorOf' = Joined(order).by
  /\ done' = TRUE /\ UNCHANGED <<colorOf, palette, known, live, simRound>>

\* The least number t of colours with t * binomial(t - 1, Delta) >= K.
linial_bound(k) ==
  LET enough == {t \in Delta + 1 .. k : t * choose(t - 1, Delta) >= k}
  IN  IF Delta = 0 \/ enough = {} THEN k ELSE Min(enough)

Target(t) == IF t > Size(links) THEN Size(links) ELSE t

\* Every vertex hashes its colour and its neighbours' colours, sorted: any function
\* of these.
linial_one_round_reduction(size) ==
  {c \in [Vertices -> 0 .. size - 1] :
     \A u, w \in Vertices :
       colorOf[u] = colorOf[w] /\ (\A k \in 0 .. palette : Cardinality({x \in links[u] : colorOf[x] = k})
                                                         = Cardinality({x \in links[w] : colorOf[x] = k}))
       => c[u] = c[w]}

\* cole_vishkin_reduce: rounds of Linial's reduction while they help.
cole_vishkin_reduce ==
  LET size == linial_bound(Used(colorOf))
  IN  /\ task \in {"cole_vishkin", "mis_linial"} /\ ~done
      /\ simRound = 0 /\ palette > Target(Delta * Delta + 1) /\ size < palette
      /\ colorOf' \in linial_one_round_reduction(size)
      /\ palette' = size
      /\ UNCHANGED <<task, links, mis, dominatorOf, known, live, simRound, done>>

\* Mutant: the vertices of the colour choose before the others of it have given it up.
RepaintTogether(gone) ==
  [u \in Vertices |-> IF colorOf[u] = gone THEN FirstFree({colorOf[w] : w \in links[u]} \ {gone}) ELSE colorOf[u]]

\* coloring_reduce_by_one: the vertices of the highest colour take, one after the
\* other, the least one no neighbour has.
Repaint(gone) ==
  LET Take(c, u) == IF colorOf[u] # gone THEN c ELSE Paint(c, u)
  IN  Sweep(Take, links, [u \in Vertices |-> IF colorOf[u] = gone THEN Blank ELSE colorOf[u]])

Reduced == simRound = 1 \/ palette <= Target(Delta * Delta + 1) \/ linial_bound(Used(colorOf)) >= palette

reduce_by_one ==
  /\ task \in {"cole_vishkin", "mis_linial"} /\ ~done
  /\ Reduced /\ palette > Delta + 1
  /\ colorOf' = Repaint(palette - 1)
  /\ palette' = Used(colorOf') /\ simRound' = 1
  /\ UNCHANGED <<task, links, mis, dominatorOf, known, live, done>>

cole_vishkin_coloring ==
  Runs("cole_vishkin") /\ Reduced /\ palette <= Delta + 1 /\ Colored1(colorOf, palette)

\* Colour by colour the vertices join.
mis_linial_deterministic ==
  /\ Runs("mis_linial") /\ Reduced /\ palette <= Delta + 1
  /\ LET order == SetToSortSeq(Vertices, LAMBDA a, b : colorOf[a] < colorOf[b] \/ (colorOf[a] = colorOf[b] /\ a < b))
     IN  mis' = Joined(order).set /\ dominatorOf' = Joined(order).by
  /\ done' = TRUE /\ UNCHANGED <<colorOf, palette, known, live, simRound>>

--------------------------------------------------------------------------------
After(u) == (u + 1) % Size(links)
Behind(u) == (u + Size(links) - 1) % Size(links)

\* n sweeps in which a vertex below both its neighbours joins, if none of them has.
mis_ring_deterministic ==
  LET Enter(m, u) ==
        IF m \cap {Behind(u), After(u)} = {} /\ colorOf[u] < colorOf[Behind(u)] /\ colorOf[u] < colorOf[After(u)]
        THEN m \cup {u} ELSE m
      Again(m, k) == Sweep(Enter, links, m)
  IN  /\ Runs("mis_ring")
      /\ mis' = FoldLeft(Again, {}, InOrder(links))
      /\ dominatorOf' = [w \in Vertices |-> Max(({Behind(w), After(w)} \cap mis') \cup {Blank})]
      /\ done' = TRUE /\ UNCHANGED <<colorOf, palette, known, live, simRound>>

BitOf(x, k) == (x \div 2^k) % 2

\* The first position at which a vertex differs from either neighbour, up to the
\* number of bits of the greatest colour; and its own bit there.
BitColor(u) ==
  LET bits == Max({k \in 0 .. 30 : 2^k <= Used(colorOf) - 1}) + 1
      Here(k) == {BitOf(colorOf[Behind(u)], k), BitOf(colorOf[u], k), BitOf(colorOf[After(u)], k)}
      bp == Min({k \in 0 .. bits - 1 : Cardinality(Here(k)) = 2} \cup {bits})
  IN  2 * bp + BitOf(colorOf[u], bp)

\* In order: the remainder, one more if the left neighbour has it, then one more if
\* the right one does; a vertex without a colour yet does not count.
Remainder(c, u) ==
  LET Bump(x, w) == IF c[w] = x THEN (x + 1) % 3 ELSE x
  IN  [c EXCEPT ![u] = Bump(Bump(colorOf[u] % 3, Behind(u)), After(u))]

ring_3coloring_cole_vishkin ==
  /\ task = "ring_3coloring" /\ ~done
  /\ IF Used(colorOf) > 6 /\ simRound < log_star(Size(links)) + 5
     THEN colorOf' = [u \in Vertices |-> BitColor(u)] /\ simRound' = simRound + 1 /\ UNCHANGED <<palette, done>>
     ELSE colorOf' = Sweep(Remainder, links, [u \in Vertices |-> Blank]) /\ palette' = 3 /\ done' = TRUE
          /\ UNCHANGED simRound
  /\ UNCHANGED <<task, links, mis, dominatorOf, known, live>>

--------------------------------------------------------------------------------
\* A node takes in its inbox and sends what it knows to its neighbours, where it
\* arrives at once (local_state_receive).
RoundFn(nodes, u) ==
  LET now == nodes.knows[u] \cup nodes.inbox[u]
  IN  IF u \notin live THEN nodes
      ELSE [knows |-> [nodes.knows EXCEPT ![u] = now],
            inbox |-> [w \in Vertices |-> IF w \in links[u] THEN nodes.inbox[w] \cup now ELSE nodes.inbox[w]]]

\* Some of the nodes that run may terminate; what is left in the inboxes is cleared.
local_simulator_round ==
  /\ Runs("local_simulator") /\ live # {} /\ simRound < MaxRounds
  /\ known' = Sweep(RoundFn, links, [knows |-> known, inbox |-> [u \in Vertices |-> {}]]).knows
  /\ \E stop \in SUBSET live : live' = live \ stop
  /\ simRound' = simRound + 1
  /\ UNCHANGED <<colorOf, palette, mis, dominatorOf, done>>

local_simulator_run ==
  /\ Runs("local_simulator") /\ (live = {} \/ simRound = MaxRounds)
  /\ done' = TRUE /\ UNCHANGED <<colorOf, palette, mis, dominatorOf, known, live, simRound>>

TaskNext ==
  \/ coloring_greedy_sequential \/ planar_6coloring \/ distributed_greedy_coloring \/ mis_greedy_sequential
  \/ cole_vishkin_reduce \/ reduce_by_one \/ cole_vishkin_coloring \/ mis_linial_deterministic
  \/ mis_ring_deterministic \/ ring_3coloring_cole_vishkin \/ local_simulator_round \/ local_simulator_run

--------------------------------------------------------------------------------
\* The vertices from which numbers ascend along a path to u.
RECURSIVE Ascents(_)
Ascents(u) == {u} \cup UNION {Ascents(w) : w \in {x \in links[u] : x < u}}

Alike(c) == {e \in Vertices \X Vertices : e[2] \in links[e[1]] /\ c[e[1]] = c[e[2]]}

\* An independent set in which every vertex outside has a neighbour inside, which
\* dominatorOf names.
Dominated ==
  \A u \in Vertices : IF u \in mis THEN links[u] \cap mis = {} /\ dominatorOf[u] = Blank
                      ELSE dominatorOf[u] \in links[u] \cap mis

\* What the sequential algorithms promise, and what is left of it where the code does
\* less: greedy colourings are proper with at most Delta + 1 colours (coloring.h), and
\* a smallest-last order needs one more than the degeneracy; reducing a colouring by
\* one makes no new conflict and settles those of the colour that goes, so
\* cole_vishkin_coloring is proper if the rounds of hashing were, and has Delta + 1
\* colours; the greedy sets are maximal and independent.  A ring's set is that of its
\* local minima; its colouring can fail only between the last two vertices.  In the
\* simulator a node hears, within one round, of everything below it, and never of
\* anything above.
SequentialSolved ==
  /\ done /\ task \in {"greedy", "distributed_greedy"} => Alike(colorOf) = {} /\ Used(colorOf) <= Delta + 1
  /\ done /\ task = "greedy" => Used(Painted(coloring_smallest_last_order(links))) <= Degeneracy(links) + 1
  /\ palette = 6 /\ task = "planar_6coloring" => Alike(colorOf) = {}
  /\ done /\ task = "cole_vishkin" => Used(colorOf) <= Delta + 1
  /\ task \in {"cole_vishkin", "mis_linial"} /\ Reduced /\ palette > Delta + 1 =>
       Alike(Repaint(palette - 1)) \subseteq {e \in Alike(colorOf) : colorOf[e[1]] # palette - 1}
  /\ done /\ task \in {"mis_greedy", "mis_linial"} => Dominated
  /\ done /\ task = "mis_ring" =>
       mis = {u \in Vertices : colorOf[u] < colorOf[Behind(u)] /\ colorOf[u] < colorOf[After(u)]}
  /\ done /\ task = "ring_3coloring" =>
       \A e \in Alike(colorOf) : {e[1], e[2]} = {Size(links) - 2, Size(links) - 1}
  /\ simRound > 0 /\ task = "local_simulator" => \A u \in Vertices : known[u] = Ascents(u)
================================================================================
