------------------------------- MODULE LubyProofs ------------------------------
(***************************************************************************)
(* Theorems about LubyMis and LubyColoring for every                       *)
(* finite graph and all draws, ties included.                              *)
(***************************************************************************)
EXTENDS LubyMis, LubyColoring, FiniteSetTheorems, NaturalsInduction, WellFoundedInduction, TLAPS

\* The state is well typed, and the vertices in play have a rank in a round.
Typed ==
  /\ neighbors \in Graphs
  /\ active \subseteq Vertex /\ in_mis \subseteq Vertex
  /\ v \in Vertex \cup {Idle, N}
  /\ v # Idle => active \subseteq DOMAIN ranks /\ \A u \in active : ranks[u] \in Rank
  /\ r \in Nat /\ mis_size \in Nat /\ joined \in Nat
  /\ finished \in BOOLEAN

\* No vertex of the set, and no neighbour of one, is in play.
Separate == \A u \in in_mis : u \notin active /\ neighbors[u] \cap active = {}

\* A vertex leaves the game only into the set or beside it.
Covered == \A u \in Vertex : u \in active \/ u \in in_mis \/ neighbors[u] \cap in_mis # {}

\* While no vertex joined in a round, those visited had a higher neighbour.
Outranked ==
  /\ v = Idle => joined = 0
  /\ v # Idle /\ joined = 0 => \A u \in active : u < v => ~LocallyMaximal(u)

\* The algorithm stops with no vertex in play.
Stopped == finished => v = Idle /\ active = {} /\ Dominators(dominator)

Inv == Typed /\ Independent /\ Separate /\ Covered /\ RoundsBounded /\ Outranked /\ Stopped

--------------------------------------------------------------------------------
\* Vertices that have integer ranks include one that no other one outranks.
LEMMA HighestRank ==
  ASSUME NEW S \in SUBSET Vertex, S # {}, NEW f, \A u \in S : f[u] \in Int
  PROVE  \E u \in S : \A w \in S : f[w] <= f[u]
<1> DEFINE Above(u) == {w \in S : f[w] > f[u]}
           Counts == {Cardinality(Above(u)) : u \in S}
<1>1. IsFiniteSet(S)
  BY FS_Subset, GraphAssumption
<1>2. \A u \in S : IsFiniteSet(Above(u)) /\ Cardinality(Above(u)) \in Nat
  <2> TAKE u \in S
  <2>1. Above(u) \in SUBSET S
    OBVIOUS
  <2>2. IsFiniteSet(Above(u))
    BY <1>1, <2>1, FS_Subset
  <2> QED BY <2>2, FS_CardinalityType
<1>3. Counts \in SUBSET Nat /\ Counts # {}
  BY <1>2
<1>4. PICK m \in Counts : \A c \in Counts : ~(<<c, m>> \in OpToRel(<, Nat))
  <2> HIDE DEF Counts
  <2> QED BY <1>3, NatLessThanWellFounded, WFMin
<1>5. PICK u \in S : m = Cardinality(Above(u))
  BY <1>4
<1>6. ASSUME NEW w \in S, f[w] > f[u] PROVE FALSE
  <2>1. Above(w) \in SUBSET Above(u)
    BY <1>6
  <2>2. w \in Above(u) /\ w \notin Above(w)
    BY <1>6
  <2>3. Cardinality(Above(w)) <= Cardinality(Above(u)) /\ Cardinality(Above(w)) # Cardinality(Above(u))
    <3>1. IsFiniteSet(Above(u))
      BY <1>2
    <3> HIDE DEF Above
    <3> QED BY <3>1, <2>1, <2>2, FS_Subset
  <2>4. Cardinality(Above(w)) \in Counts /\ Cardinality(Above(w)) \in Nat /\ m \in Nat
    BY <1>2, <1>5
  <2>5. <<Cardinality(Above(w)), m>> \in OpToRel(<, Nat)
    <3> HIDE DEF Above, Counts
    <3> QED BY <2>3, <2>4, <1>5 DEF OpToRel
  <2> QED BY <1>4, <2>4, <2>5
<1> QED
  BY <1>6

\* A round in which nobody joined began with nobody in play.
LEMMA SomeoneJoins ==
  ASSUME Inv, v = N, joined = 0
  PROVE  active = {}
<1> SUFFICES ASSUME active # {} PROVE FALSE
  OBVIOUS
<1>1. N \in Nat /\ Vertex = 0 .. N - 1
  BY GraphAssumption, FS_CardinalityType DEF N
<1>2. active \in SUBSET Vertex /\ \A u \in active : ranks[u] \in Int
  <2>1. v # Idle /\ Typed
    BY <1>1 DEF Inv, Idle
  <2>2. active \subseteq Vertex /\ \A u \in active : ranks[u] \in Rank
    BY <2>1 DEF Typed
  <2> QED BY <2>2, GraphAssumption
<1>3. PICK u \in active : \A w \in active : ranks[w] <= ranks[u]
  BY <1>2, HighestRank
<1>4. LocallyMaximal(u)
  BY <1>3 DEF LocallyMaximal
<1>5. u < v
  BY <1>1, <1>2
<1> QED
  BY <1>1, <1>4, <1>5 DEF Inv, Outranked, Idle

\* The initial state satisfies the invariant.
LEMMA InitInv == RoundInit /\ MisInit => Inv
<1> SUFFICES ASSUME RoundInit, MisInit PROVE Inv
  OBVIOUS
<1>1. Typed
  BY DEF RoundInit, MisInit, Typed, Idle
<1>2. RoundsBounded
  BY FS_EmptySet DEF RoundInit, MisInit, RoundsBounded
<1> QED
  BY <1>1, <1>2 DEF RoundInit, MisInit, Inv, Independent, Separate, Covered, Outranked, Stopped, Idle

\* Drawing ranks keeps the invariant.
LEMMA DrawKeepsInv ==
  ASSUME Inv, MisDraw, UNCHANGED neighbors
  PROVE  Inv'
<1> USE DEF Inv, MisDraw, Draw, misVars
<1>1. N \in Nat /\ Vertex = 0 .. N - 1
  BY GraphAssumption, FS_CardinalityType DEF N
<1>2. Typed'
  <2>1. ranks' \in [active -> Rank] /\ active' = active
    OBVIOUS
  <2>2. v' \in Vertex \cup {Idle, N}
    BY <1>1
  <2> QED BY <2>1, <2>2 DEF Typed
<1>3. Independent' /\ Separate' /\ Covered' /\ RoundsBounded'
  BY DEF Independent, Separate, Covered, RoundsBounded
<1>4. Outranked'
  BY <1>1 DEF Outranked, Typed, Idle
<1>5. Stopped'
  BY DEF Stopped
<1> QED
  BY <1>2, <1>3, <1>4, <1>5

\* Visiting a vertex keeps the invariant.
LEMMA VisitKeepsInv ==
  ASSUME Inv, MisVisit, UNCHANGED neighbors
  PROVE  Inv'
<1>1. N \in Nat /\ Vertex = 0 .. N - 1
  BY GraphAssumption, FS_CardinalityType DEF N
<1>2. /\ v \in 0 .. N - 1 /\ v \in Vertex /\ v # Idle /\ v' = v + 1
      /\ v' \in Vertex \cup {N} /\ v' # Idle
      /\ UNCHANGED <<ranks, r, mis_size, dominator, finished>>
  BY <1>1 DEF MisVisit, Idle
<1>3. ~finished /\ ~finished'
  BY <1>2 DEF Inv, Stopped, Typed
<1>4. Stopped'
  BY <1>3 DEF Stopped
<1>5. CASE v \in active /\ LocallyMaximal(v)
  <2>1. /\ in_mis' = in_mis \cup {v} /\ joined' = joined + 1
        /\ active' = active \ (neighbors[v] \cup {v})
    BY <1>5 DEF MisVisit, Deactivate
  <2>2. \A u, w \in Vertex : u \in neighbors[w] => w \in neighbors[u] /\ u # w
    BY GraphAssumption DEF Inv, Typed
  <2>3. /\ neighbors[v] \subseteq Vertex
        /\ \A u \in in_mis : v \notin neighbors[u] /\ u \notin neighbors[v]
    BY <1>2, <1>5, <2>2, GraphAssumption DEF Inv, Typed, Separate
  <2>4. Typed'
    <3>1. active' \subseteq active /\ active' \subseteq Vertex /\ in_mis' \subseteq Vertex
      BY <1>2, <2>1 DEF Inv, Typed
    <3>2. active' \subseteq DOMAIN ranks' /\ \A u \in active' : ranks'[u] \in Rank
      BY <1>2, <3>1 DEF Inv, Typed
    <3>3. r' \in Nat /\ mis_size' \in Nat /\ joined' \in Nat /\ neighbors' \in Graphs
      BY <1>2, <2>1 DEF Inv, Typed
    <3>4. finished' \in BOOLEAN
      BY <1>2 DEF Inv, Typed
    <3> QED BY <1>2, <3>1, <3>2, <3>3, <3>4 DEF Typed
  <2>5. Independent'
    BY <1>2, <2>1, <2>2, <2>3 DEF Inv, Independent
  <2>6. Separate'
    BY <2>1 DEF Inv, Separate
  <2>7. Covered'
    BY <1>2, <2>1, <2>2 DEF Inv, Covered, Typed
  <2>8. RoundsBounded'
    <3>1. IsFiniteSet(in_mis) /\ v \notin in_mis
      BY <1>5, GraphAssumption, FS_Subset DEF Inv, Typed, Separate
    <3>2. Cardinality(in_mis') = Cardinality(in_mis) + 1
      BY <3>1, <2>1, FS_AddElement
    <3> QED BY <3>2, <2>1, <1>2 DEF Inv, RoundsBounded, Typed
  <2>9. Outranked'
    BY <1>2, <2>1 DEF Inv, Outranked, Typed
  <2> QED
    BY <1>4, <2>4, <2>5, <2>6, <2>7, <2>8, <2>9 DEF Inv
<1>6. CASE ~(v \in active /\ LocallyMaximal(v))
  <2>1. UNCHANGED <<in_mis, joined, active>>
    BY <1>6 DEF MisVisit
  <2>2. Typed'
    BY <1>2, <2>1 DEF Inv, Typed
  <2>3. Independent' /\ Separate' /\ Covered' /\ RoundsBounded'
    BY <1>2, <2>1 DEF Inv, Independent, Separate, Covered, RoundsBounded
  <2>4. Outranked'
    <3> SUFFICES ASSUME joined = 0, NEW u \in active, u < v + 1 PROVE ~LocallyMaximal(u)'
      BY <1>2, <2>1 DEF Outranked
    <3>1. LocallyMaximal(u)' <=> LocallyMaximal(u)
      BY <1>2, <2>1 DEF LocallyMaximal
    <3>2. u < v \/ u = v
      BY <1>1, <1>2 DEF Inv, Typed
    <3> QED BY <1>2, <1>6, <3>1, <3>2 DEF Inv, Outranked
  <2> QED
    BY <1>4, <2>2, <2>3, <2>4 DEF Inv
<1> QED
  BY <1>5, <1>6

\* The end of a round keeps the invariant.
LEMMA EndRoundKeepsInv ==
  ASSUME Inv, MisEndRound, UNCHANGED neighbors
  PROVE  Inv'
<1>1. v = N /\ v' = Idle /\ joined' = 0 /\ UNCHANGED <<active, in_mis>>
  BY DEF MisEndRound
<1>2. joined = 0 => active = {}
  BY <1>1, SomeoneJoins
<1>3. ~finished
  <2>1. N \in Nat
    BY GraphAssumption, FS_CardinalityType DEF N
  <2> QED BY <1>1, <2>1 DEF Inv, Stopped, Idle
<1>4. Independent' /\ Separate' /\ Covered'
  BY <1>1 DEF Inv, Independent, Separate, Covered
<1>5. Outranked'
  BY <1>1 DEF Outranked
<1>6. CASE joined = 0
  <2>1. finished' = TRUE /\ Dominators(dominator') /\ UNCHANGED <<r, mis_size>>
    BY <1>2, <1>6 DEF MisEndRound
  <2>2. Typed'
    BY <1>1, <2>1 DEF Inv, Typed
  <2>3. RoundsBounded'
    BY <1>1, <1>6, <2>1 DEF Inv, RoundsBounded
  <2>4. Stopped'
    BY <1>1, <1>2, <1>6, <2>1 DEF Stopped, Dominators
  <2> QED BY <1>4, <1>5, <2>2, <2>3, <2>4 DEF Inv
<1>7. CASE joined # 0
  <2>1. r' = r + 1 /\ mis_size' = mis_size + joined /\ UNCHANGED <<finished, dominator>>
    BY <1>7 DEF MisEndRound
  <2>2. Typed'
    BY <1>1, <2>1 DEF Inv, Typed
  <2>3. RoundsBounded'
    <3>1. Cardinality(in_mis)' = Cardinality(in_mis)
      BY <1>1
    <3> QED BY <1>1, <1>7, <2>1, <3>1 DEF Inv, RoundsBounded, Typed
  <2>4. Stopped'
    BY <1>3, <2>1 DEF Stopped
  <2> QED BY <1>4, <1>5, <2>2, <2>3, <2>4 DEF Inv
<1> QED
  BY <1>6, <1>7

\* The limit on rounds stops the algorithm only on the graph without vertices.
LEMMA GiveUpKeepsInv ==
  ASSUME Inv, MisGiveUp, UNCHANGED neighbors
  PROVE  Inv'
<1> USE DEF MisGiveUp, roundVars
<1>1. N \in Nat /\ Vertex = 0 .. N - 1 /\ IsFiniteSet(Vertex)
  BY GraphAssumption, FS_CardinalityType DEF N
<1>2. Cardinality(in_mis) <= N /\ Cardinality(in_mis) \in Nat
  <2>1. in_mis \in SUBSET Vertex
    BY DEF Inv, Typed
  <2>2. IsFiniteSet(in_mis) /\ Cardinality(in_mis) <= Cardinality(Vertex)
    BY <1>1, <2>1, FS_Subset
  <2> QED BY <2>2, FS_CardinalityType DEF N
<1>3. r <= N
  BY <1>1, <1>2 DEF Inv, Typed, RoundsBounded
<1>4. N = 0
  BY <1>1, <1>3 DEF max_r
<1>5. Vertex = {} /\ active = {}
  BY <1>1, <1>4 DEF Inv, Typed
<1>6. Stopped'
  BY <1>5 DEF Stopped, Dominators
<1>7. Typed'
  BY DEF Inv, Typed
<1>8. Independent' /\ Separate' /\ Covered' /\ RoundsBounded' /\ Outranked'
  BY DEF Inv, Independent, Separate, Covered, RoundsBounded, Outranked, LocallyMaximal
<1> QED
  BY <1>6, <1>7, <1>8 DEF Inv

\* The invariant is inductive over the steps of a run on a fixed graph.
LEMMA StepInv == Inv /\ [MisNext /\ UNCHANGED neighbors]_<<roundVars, misVars, neighbors>> => Inv'
<1> SUFFICES ASSUME Inv, [MisNext /\ UNCHANGED neighbors]_<<roundVars, misVars, neighbors>> PROVE Inv'
  OBVIOUS
<1>1. CASE UNCHANGED <<roundVars, misVars, neighbors>>
  BY <1>1 DEF roundVars, misVars, Inv, Typed, Independent, Separate, Covered, RoundsBounded,
              Outranked, Stopped, LocallyMaximal, Dominators
<1>2. CASE MisNext /\ UNCHANGED neighbors
  BY <1>2, DrawKeepsInv, VisitKeepsInv, EndRoundKeepsInv, GiveUpKeepsInv DEF MisNext
<1> QED
  BY <1>1, <1>2

\* The invariant holds in every state of every run.
LEMMA AlwaysInv == MisSpec => []Inv
  BY InitInv, StepInv, PTL DEF MisSpec

--------------------------------------------------------------------------------
\* Luby's algorithm keeps its set independent, on every graph and for all draws.
THEOREM MisIndependent == MisSpec => []Independent
<1>1. Inv => Independent
  BY DEF Inv
<1> QED
  BY <1>1, AlwaysInv, PTL

\* Every round takes at least one vertex into the set, so the limit of 20 n
\* rounds is never what ends the algorithm, and its size is counted right.
THEOREM MisRounds == MisSpec => []RoundsBounded
<1>1. Inv => RoundsBounded
  BY DEF Inv
<1> QED
  BY <1>1, AlwaysInv, PTL

\* When it stops, its set is maximal and every other vertex knows a dominator.
THEOREM MisMaximal == MisSpec => []Maximal
<1>1. Inv => Maximal
  <2> SUFFICES ASSUME Inv, finished, NEW u \in Vertex \ in_mis
               PROVE  dominator[u] \in neighbors[u] \cap in_mis
    BY DEF Maximal
  <2>1. neighbors[u] \cap in_mis # {}
    BY DEF Inv, Stopped, Covered
  <2> QED BY <2>1 DEF Inv, Stopped, Dominators
<1> QED
  BY <1>1, AlwaysInv, PTL

--------------------------------------------------------------------------------
\* luby_style_coloring: no vertex beside one of the current colour is in play, and
\* no colour after the current one is used.
ColorInv ==
  /\ neighbors \in Graphs
  /\ colors \in [Vertex -> Int] /\ color \in Nat
  /\ unc \subseteq Vertex /\ active \subseteq unc
  /\ \A u \in Vertex : colors[u] <= color
  /\ \A u \in Vertex : colors[u] = color => u \notin active /\ neighbors[u] \cap active = {}
  /\ Proper

\* A visit of luby_style_coloring keeps the invariant.
LEMMA ColorVisitKeepsInv ==
  ASSUME ColorInv, ColorVisit, UNCHANGED neighbors
  PROVE  ColorInv'
<1>1. CASE v \in active /\ LocallyMaximal(v)
  <2>1. /\ colors' = [colors EXCEPT ![v] = color] /\ unc' = unc \ {v}
        /\ active' = active \ (neighbors[v] \cup {v})
        /\ UNCHANGED <<color, neighbors>> /\ v \in Vertex
    BY <1>1 DEF ColorVisit, Deactivate
  <2>2. /\ \A u, w \in Vertex : u \in neighbors[w] => w \in neighbors[u] /\ u # w
        /\ \A u \in Vertex : neighbors[u] \subseteq Vertex
    BY GraphAssumption DEF ColorInv
  <2>3. colors' \in [Vertex -> Int] /\ unc' \subseteq Vertex /\ active' \subseteq unc'
    BY <2>1 DEF ColorInv
  <2>4. \A u \in Vertex : colors'[u] = IF u = v THEN color ELSE colors[u]
    BY <2>1 DEF ColorInv
  <2>5. \A u \in Vertex : colors'[u] <= color'
    BY <2>1, <2>4 DEF ColorInv
  <2>6. \A u \in Vertex : colors'[u] = color' => u \notin active' /\ neighbors'[u] \cap active' = {}
    BY <2>1, <2>4 DEF ColorInv
  <2>7. \A w \in neighbors[v] : colors[w] # color
    BY <1>1, <2>1, <2>2 DEF ColorInv
  <2>8. Proper'
    <3> SUFFICES ASSUME NEW u \in Vertex, colors'[u] # NoColor, NEW w \in neighbors[u]
                 PROVE  colors'[w] # colors'[u]
      BY <2>1 DEF Proper, NoColor
    <3>1. w \in Vertex /\ u # w /\ u \in neighbors[w]
      BY <2>2
    <3>2. CASE u = v
      BY <2>4, <2>7, <3>1, <3>2
    <3>3. CASE w = v
      BY <2>4, <2>7, <3>1, <3>3
    <3>4. CASE u # v /\ w # v
      BY <2>4, <3>1, <3>4 DEF ColorInv, Proper, NoColor
    <3> QED BY <3>2, <3>3, <3>4
  <2> QED
    BY <2>1, <2>3, <2>5, <2>6, <2>8 DEF ColorInv
<1>2. CASE ~(v \in active /\ LocallyMaximal(v))
  BY <1>2 DEF ColorVisit, ColorInv, Proper, NoColor
<1> QED
  BY <1>1, <1>2

\* luby_style_coloring never gives neighbours the same colour.
THEOREM LubyProper == ColoringSpec => []Proper
<1>1. RoundInit /\ ColorInit => ColorInv
  BY DEF RoundInit, ColorInit, ColorInv, Proper, NoColor
<1>2. ColorInv /\ [LubyColoringNext /\ UNCHANGED neighbors]_<<roundVars, colorVars, neighbors>> => ColorInv'
  <2> SUFFICES ASSUME ColorInv, [LubyColoringNext /\ UNCHANGED neighbors]_<<roundVars, colorVars, neighbors>>
               PROVE  ColorInv'
    OBVIOUS
  <2> USE DEF ColorInv, Proper, NoColor
  <2>1. CASE ColorDraw /\ UNCHANGED neighbors
    BY <2>1 DEF ColorDraw, Draw, colorVars
  <2>2. CASE ColorVisit /\ UNCHANGED neighbors
    BY <2>2, ColorVisitKeepsInv
  <2>3. CASE ColorEndRound /\ UNCHANGED neighbors
    BY <2>3 DEF ColorEndRound
  <2>4. CASE NextColor /\ UNCHANGED neighbors
    <3>1. /\ color' = color + 1 /\ active' = unc
          /\ UNCHANGED <<colors, unc, neighbors>>
      BY <2>4 DEF NextColor
    <3>2. \A u \in Vertex : colors[u] # color'
      BY <3>1
    <3>3. \A u \in Vertex : colors[u] <= color'
      BY <3>1
    <3> QED BY <3>1, <3>2, <3>3
  <2>5. CASE UNCHANGED <<roundVars, colorVars, neighbors>>
    BY <2>5 DEF roundVars, colorVars
  <2> QED
    BY <2>1, <2>2, <2>3, <2>4, <2>5 DEF LubyColoringNext
<1>3. ColorInv => Proper
  BY DEF ColorInv
<1> QED
  BY <1>1, <1>2, <1>3, PTL DEF ColoringSpec

--------------------------------------------------------------------------------
\* randomized_delta_plus_one_coloring: what a vertex without a colour proposes in
\* a round is a colour.
ProposalInv ==
  /\ neighbors \in Graphs
  /\ colors \in [Vertex -> Int]
  /\ unc = {u \in Vertex : colors[u] = NoColor}
  /\ v # Idle => \A u \in unc : props[u] \in Nat
  /\ v \in Int
  /\ Proper

\* A vertex's decision keeps the invariant.
LEMMA DecideKeepsInv ==
  ASSUME ProposalInv, Decide, UNCHANGED neighbors
  PROVE  ProposalInv'
<1>1. v \in Vertex /\ v' = v + 1 /\ v' \in Int /\ v # Idle /\ UNCHANGED <<props, neighbors>>
  <2>1. Vertex = 0 .. Cardinality(Vertex) - 1 /\ Cardinality(Vertex) \in Nat
    BY GraphAssumption, FS_CardinalityType
  <2>2. \A u \in Vertex : u >= 0
    BY <2>1
  <2> QED BY <2>2 DEF Decide, ProposalInv, Idle
<1>2. CASE v \in unc /\ ~Conflict(v)
  <2>1. colors' = [colors EXCEPT ![v] = props[v]] /\ unc' = unc \ {v}
    BY <1>2 DEF Decide
  <2>2. props[v] \in Nat
    BY <1>1, <1>2 DEF ProposalInv
  <2>3. /\ \A u, w \in Vertex : u \in neighbors[w] => w \in neighbors[u] /\ u # w
        /\ \A u \in Vertex : neighbors[u] \subseteq Vertex
    BY GraphAssumption DEF ProposalInv
  <2>4. \A u \in Vertex : colors'[u] = IF u = v THEN props[v] ELSE colors[u]
    BY <2>1 DEF ProposalInv
  <2>5. colors' \in [Vertex -> Int] /\ unc' = {u \in Vertex : colors'[u] = NoColor}
    <3>1. colors' \in [Vertex -> Int]
      <4>1. colors \in [Vertex -> Int] /\ props[v] \in Int
        BY <2>2 DEF ProposalInv
      <4> QED BY <4>1, <2>1
    <3>2. \A u \in Vertex : u \in unc' <=> colors'[u] = NoColor
      <4> TAKE u \in Vertex
      <4>1. u \in unc <=> colors[u] = NoColor
        BY DEF ProposalInv
      <4>2. CASE u = v
        BY <2>1, <2>2, <2>4, <4>2 DEF NoColor
      <4>3. CASE u # v
        BY <2>1, <2>4, <4>1, <4>3
      <4> QED BY <4>2, <4>3
    <3>3. unc' \subseteq Vertex
      BY <2>1 DEF ProposalInv
    <3> QED BY <3>1, <3>2, <3>3
  <2>6. \A w \in neighbors[v] : colors[w] # props[v]
    BY <1>2, <2>2 DEF Conflict, Colored, NoColor
  <2>7. Proper'
    <3> SUFFICES ASSUME NEW u \in Vertex, colors'[u] # NoColor, NEW w \in neighbors[u]
                 PROVE  colors'[w] # colors'[u]
      BY <1>1 DEF Proper, NoColor
    <3>1. w \in Vertex /\ u # w /\ u \in neighbors[w]
      BY <2>3
    <3>2. CASE u = v \/ w = v
      BY <2>4, <2>6, <3>1, <3>2
    <3>3. CASE u # v /\ w # v
      BY <2>4, <3>1, <3>3 DEF ProposalInv, Proper, NoColor
    <3> QED BY <3>2, <3>3
  <2> QED
    BY <1>1, <2>1, <2>5, <2>7 DEF ProposalInv
<1>3. CASE ~(v \in unc /\ ~Conflict(v))
  <2>1. UNCHANGED <<colors, unc>>
    BY <1>3 DEF Decide
  <2> QED
    BY <1>1, <2>1 DEF ProposalInv, Proper, NoColor
<1> QED
  BY <1>2, <1>3

\* The randomized Delta + 1 colouring never gives neighbours the same colour.
THEOREM RandomProper == RandomSpec => []Proper
<1>1. RandomInit => ProposalInv
  BY DEF RandomInit, RoundInit, ColorInit, ProposalInv, Proper, NoColor, Idle
<1>2. ProposalInv /\ [RandomNext /\ UNCHANGED neighbors]_<<roundVars, colorVars, props, round, neighbors>>
        => ProposalInv'
  <2> SUFFICES ASSUME ProposalInv,
                      [RandomNext /\ UNCHANGED neighbors]_<<roundVars, colorVars, props, round, neighbors>>
               PROVE  ProposalInv'
    OBVIOUS
  <2> USE DEF ProposalInv, Proper, NoColor
  <2>1. CASE Propose /\ UNCHANGED neighbors
    <3>1. /\ props' \in [unc -> 0 .. K - 1] /\ v' = 0
          /\ UNCHANGED <<colors, unc, neighbors>>
      BY <2>1 DEF Propose, colorVars
    <3>2. \A u \in unc : props'[u] \in Nat
      BY <3>1
    <3> QED BY <3>1, <3>2
  <2>2. CASE Decide /\ UNCHANGED neighbors
    BY <2>2, DecideKeepsInv
  <2>3. CASE EndProposals /\ UNCHANGED neighbors
    BY <2>3 DEF EndProposals, colorVars, Idle
  <2>4. CASE UNCHANGED <<roundVars, colorVars, props, round, neighbors>>
    BY <2>4 DEF roundVars, colorVars
  <2> QED
    BY <2>1, <2>2, <2>3, <2>4 DEF RandomNext
<1>3. ProposalInv => Proper
  BY DEF ProposalInv
<1> QED
  BY <1>1, <1>2, <1>3, PTL DEF RandomSpec
================================================================================
