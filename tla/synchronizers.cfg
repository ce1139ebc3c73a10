SPECIFICATION Spec
CONSTANTS
  Node = {0, 1, 2, 3}
  Graphs <- AllGraphs
  Synchronizer = {"ALPHA", "BETA", "GAMMA"}
  ClusterSize = {1, 2, 3, 4}
  MaxExecutions = 3
  MaxCrashes = 1
INVARIANTS AlphaTwoHop BetaParentLeads
PROPERTIES AlphaProgress TreesCarryRounds
\* the bound on executions stops the model
CHECK_DEADLOCK FALSE
