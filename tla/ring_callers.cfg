CONSTANTS
  N = 4
  K = 3
  Variant = "3STATE"
  MaxSteps = 4
  FaultRounds = 2
  MaxClock = 4
  MaxAppRounds = 12
  Graphs <- FourNodeGraphs
SPECIFICATION CallersSpec
INVARIANTS AtMostRingMoves EveryFaultRecovered ExperimentsServe ChecksAgree ApplicationsRecover
PROPERTIES RecoveryTerminates
\* the loop, the experiment, the search and the applications end
CHECK_DEADLOCK FALSE
