CONSTANTS
  N = 4
  K = 5
  Variant = "KSTATE"
SPECIFICATION DaemonSpec
INVARIANTS NeverDeadlocked
PROPERTIES TokensNeverIncrease TokenMovesToNeighbour Convergence EveryMachineServed
