------------------------------ MODULE LubyColoring -----------------------------
(* luby_style_coloring (color_luby.c): for one colour after the other, Luby's   *)
(* rounds among the vertices that have none; the vertices that join get it.     *)
(* And randomized_delta_plus_one_coloring and randomized_color_trial            *)
(* (color_randomized.c): every vertex without a colour proposes one at random.  *)
EXTENDS LubyRound

VARIABLES colors, color,
          mr,         \* rounds so far for this color
          unc,        \* the vertices without a colour
          props,      \* the proposals of the round
          round       \* rounds of proposals so far

colorVars == <<colors, color, mr, unc>>

NoColor == -1         \* INVALID_COLOR

Degrees == {Cardinality(neighbors[u]) : u \in Vertex}

\* Delta + 1 colours
K == 1 + CHOOSE d \in Degrees : \A e \in Degrees : e <= d

ColorInit ==
  /\ colors = [u \in Vertex |-> NoColor]
  /\ color = 0
  /\ mr = 0
  /\ unc = Vertex

ColorDraw ==
  /\ color < K /\ active # {} /\ mr < 100
  /\ Draw
  /\ UNCHANGED colorVars

ColorVisit ==
  /\ v \in Vertex
  /\ IF v \in active /\ LocallyMaximal(v)
     THEN /\ colors' = [colors EXCEPT ![v] = color]
          /\ unc' = unc \ {v}
          /\ Deactivate(v)
     ELSE UNCHANGED <<colors, unc, active>>
  /\ v' = v + 1
  /\ UNCHANGED <<ranks, mr, color>>

ColorEndRound ==
  /\ v = N
  /\ v' = Idle /\ ranks' = <<>>
  /\ mr' = mr + 1
  /\ UNCHANGED <<active, colors, color, unc>>

\* Mutant: the next colour starts among the vertices left active by the last one.
NextColorStale ==
  /\ v = Idle
  /\ color < K /\ unc # {}
  /\ active = {} \/ mr = 100
  /\ color' = color + 1
  /\ mr' = 0
  /\ UNCHANGED <<active, v, ranks, colors, unc>>

NextColor ==
  /\ v = Idle
  /\ color < K /\ unc # {}
  /\ active = {} \/ mr = 100
  /\ color' = color + 1
  /\ active' = unc
  /\ mr' = 0
  /\ UNCHANGED <<v, ranks, colors, unc>>

LubyColoringNext == ColorDraw \/ ColorVisit \/ ColorEndRound \/ NextColor

ColoringSpec ==
  RoundInit /\ ColorInit /\ [][LubyColoringNext /\ UNCHANGED neighbors]_<<roundVars, colorVars, neighbors>>

--------------------------------------------------------------------------------
Colored(u) == colors[u] # NoColor

\* Mutant: the vertices coloured by earlier rounds are not asked.
ConflictNow(u) == \E w \in neighbors[u] \cap DOMAIN props : props[w] = props[u]

\* A neighbour counts with its colour when it has one, of this round or earlier,
\* and with its proposal when it waits for its visit or lost it.  (The trial also
\* compares the proposals of this round's coloured ones, which are their colours.)
Conflict(u) ==
  \E w \in neighbors[u] : IF Colored(w) THEN colors[w] = props[u] ELSE props[w] = props[u]

Propose ==
  /\ v = Idle
  /\ round < 10 * N /\ unc # {}
  /\ props' \in [unc -> 0 .. K - 1]
  /\ v' = 0
  /\ UNCHANGED <<active, ranks, round, colorVars>>

Decide ==
  /\ v \in Vertex
  /\ IF v \in unc /\ ~Conflict(v)
     THEN /\ colors' = [colors EXCEPT ![v] = props[v]]
          /\ unc' = unc \ {v}
     ELSE UNCHANGED <<colors, unc>>
  /\ v' = v + 1
  /\ UNCHANGED <<active, ranks, color, mr, props, round>>

EndProposals ==
  /\ v = N
  /\ v' = Idle /\ props' = <<>>
  /\ round' = round + 1
  /\ UNCHANGED <<active, ranks, colorVars>>

RandomInit == RoundInit /\ ColorInit /\ props = <<>> /\ round = 0

RandomNext == Propose \/ Decide \/ EndProposals

RandomSpec ==
  RandomInit /\ [][RandomNext /\ UNCHANGED neighbors]_<<roundVars, colorVars, props, round, neighbors>>

--------------------------------------------------------------------------------
\* Neighbours never have the same colour (coloring.h: proper vertex coloring).
Proper ==
  \A u \in Vertex : colors[u] # NoColor => \A w \in neighbors[u] : colors[w] # colors[u]

\* Delta + 1 colours suffice, whatever is drawn: after the last one no vertex is
\* left without a colour.
Complete == color = K => unc = {}
================================================================================
