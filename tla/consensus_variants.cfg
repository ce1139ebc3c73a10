SPECIFICATION VariantsSpec
CONSTANTS
  Server = {0, 1, 2}
  Command = {x}
  MaxTerm = 3
  MaxLog = 3
  Acceptor = {0, 1, 2}
  Slot = {0, 1}
  PaxosValue = {7, 8}
  MaxTries = 2
  Faulty = 1
  Window = 3
  Primary = {0, 1, 2}
  Observed = {3}
  MaxSeq = 1
  MaxMessages = 6
  MaxView = 3
  Lieutenants = {2, 3, 4, 6}
  Relays = {0, 1, 2}
  Processes = 8
  Construction <- Constructions
  RegisterValue = {7, 8}
  MaxClock = 3
  ByzAcceptor = {0, 1, 2, 3}
  Liar = 3
  ByzProposer = {10, 11}
  MaxBallot = 2
  Miner = {0, 1}
  HonestCount = 2
  Difficulty = {0, 2}
  Stamp = {0, 1}
  MaxLength = 3
  Process = {0, 1}
  Capacity = 2
  MaxSent = 5
  MaxEntries = 2
  IndexRange = 16
INVARIANTS ElectionSafety LogsSurvive
PROPERTIES FaultBoundsHold DecisionsCertified HistoriesKept
\* every system stops at its bounds
CHECK_DEADLOCK FALSE
