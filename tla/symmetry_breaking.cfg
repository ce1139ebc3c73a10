SPECIFICATION Spec
CONSTANTS
  Vertex <- FourVertices
  Graphs <- SomeGraphs
  Rank = {0, 1, 2}
  LocalGraphs <- SmallGraphs
  Rings = {3, 4, 5, 6, 9, 17}
  Draw1 = {0, 1, 2}
  RoundBound = 3
  TaskGraphs <- WithHexagon
  TaskRings = {3, 4, 5}
  MaxRounds = 3
INVARIANTS Independent Maximal RoundsBounded Proper ProblemsSolved ColouringsDeliver StructureAgrees
\* the algorithms stop
CHECK_DEADLOCK FALSE
