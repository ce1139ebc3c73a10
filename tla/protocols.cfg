SPECIFICATION ProtocolSpec
CONSTANTS
  Node = {0, 1, 2, 3}
  Graphs <- AllGraphs
  Synchronizer = {"ALPHA", "BETA"}
  ClusterSize = {1}
  MaxExecutions = 6
  MaxCrashes = 0
  Protocol = {"BFS", "LE_LANN", "FLOOD_SET", "BROADCAST", "CONVERGECAST", "SELF_STABILIZING"}
  Rounds = {0, 3}
INVARIANTS ProtocolOutcome
\* the bound on executions stops the model
CHECK_DEADLOCK FALSE
