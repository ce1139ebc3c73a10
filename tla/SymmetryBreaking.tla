---------------------------- MODULE SymmetryBreaking ---------------------------
(***************************************************************************)
(* The symmetry-breaking algorithms of mini-coloring-mis-lower-bounds and  *)
(* mini-local-model-port-numbering, one of which runs on one graph, and    *)
(* the graphs and numberings that they are built on.                       *)
(***************************************************************************)
EXTENDS LubyMis, LubyColoring, LocalProblems, SequentialColoring

VARIABLES algorithm,
          numbering          \* the ports of the nodes of a measured graph

vars == <<neighbors, algorithm, roundVars, misVars, colorVars, props, round, localVars, taskVars, numbering>>

LubyAlgorithms == {"mis_luby_randomized", "luby_style_coloring", "randomized_coloring"}
Algorithms == LubyAlgorithms \cup {"local_problems", "tasks", "measures", "builders"}

SomeGraph == CHOOSE g \in LocalGraphs : TRUE

LocalIdle ==
  /\ problem = "none" /\ graph = SomeGraph /\ out = <<>> /\ partner = <<>> /\ rounds = 0 /\ returned = TRUE
  /\ terminated = {} /\ terminated_count = 0 /\ current_round = 0

TaskIdle ==
  /\ task = "none" /\ links = SomeGraph /\ colorOf = <<>> /\ palette = 0 /\ mis = {} /\ dominatorOf = <<>>
  /\ known = <<>> /\ live = {} /\ simRound = 0 /\ done = TRUE

\* A graph with any numbering of its ports: shuffled, by number, by degree, or along a
\* breadth-first tree.
Measured ==
  UNION {{<<g, pns>> : pns \in port_assign_random(g) \cup {port_assign_id_ordered(g), port_assign_degree_ordered(g)}} :
           g \in LocalGraphs}

Init ==
  /\ algorithm \in Algorithms
  /\ RoundInit /\ (algorithm \notin LubyAlgorithms => neighbors = CHOOSE g \in Graphs : TRUE)
  /\ MisInit /\ ColorInit /\ props = <<>> /\ round = 0
  /\ IF algorithm = "local_problems" THEN LocalInit /\ numbering = <<>>
     ELSE IF algorithm = "measures"
     THEN \E m \in Measured :
            /\ problem = "none" /\ graph = m[1] /\ out = <<>> /\ partner = <<>> /\ rounds = 0 /\ returned = TRUE
            /\ terminated = {} /\ terminated_count = 0 /\ current_round = 0
            /\ numbering = m[2]
     ELSE LocalIdle /\ numbering = <<>>
  /\ IF algorithm = "tasks" THEN TaskInit ELSE TaskIdle

Next ==
  /\ \/ algorithm = "mis_luby_randomized" /\ MisNext /\ UNCHANGED <<colorVars, props, round, localVars, taskVars>>
     \/ algorithm = "luby_style_coloring" /\ LubyColoringNext /\ UNCHANGED <<misVars, props, round, localVars, taskVars>>
     \/ algorithm = "randomized_coloring" /\ RandomNext /\ UNCHANGED <<misVars, localVars, taskVars>>
     \/ algorithm = "local_problems" /\ LocalNext
        /\ UNCHANGED <<roundVars, misVars, colorVars, props, round, taskVars>>
     \/ algorithm = "tasks" /\ TaskNext
        /\ UNCHANGED <<roundVars, misVars, colorVars, props, round, localVars>>
  /\ UNCHANGED <<neighbors, algorithm, numbering>>

Spec == Init /\ [][Next]_vars

--------------------------------------------------------------------------------
\* The structural functions of the two families, written twice over and used by every
\* algorithm and verifier, agree with each other and with what they are named for: the
\* measures of a graph, the numberings of its ports, the builders.
StructureAgrees ==
  /\ algorithm = "measures" => PortsAgree(graph, numbering)
  /\ algorithm = "measures" /\ numbering = port_assign_id_ordered(graph) => MeasuresAgree(graph)
  /\ algorithm = "builders" => BuildersAgree

\* The sequential and deterministic algorithms solve what they can, and Luby's colour
\* classes leave no vertex without one of Delta + 1 colours.
ColouringsDeliver == SequentialSolved /\ (algorithm = "luby_style_coloring" => Complete)

--------------------------------------------------------------------------------
\* Instances: four vertices (and rings, and a cycle of six).
FourVertices == 0 .. 3

Edges4(edges) == local_build_from_edges(4, edges)

\* A path whose ends are visited first and second, a star around the vertex
\* visited last, a triangle with a tail, a cycle, and the complete graph.
SomeGraphs ==
  {Edges4({<<0, 2>>, <<2, 3>>, <<3, 1>>}), Edges4({<<3, 0>>, <<3, 1>>, <<3, 2>>}),
   Edges4({<<0, 1>>, <<1, 2>>, <<2, 0>>, <<2, 3>>}), local_make_cycle(4), local_make_clique(4)}

\* Also one that is not connected.
SmallGraphs == SomeGraphs \cup {Edges4({<<0, 2>>, <<1, 3>>})}

WithHexagon == SmallGraphs \cup {local_make_cycle(6)}
================================================================================
