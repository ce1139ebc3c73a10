CONSTANTS
  Proposer = {"p1", "p2"}
  Acceptor = {a1, a2, a3}
  Learner = {l1}
  Value = {v1, v2}
  NoValue = NoValue
  Ballot <- MCBallot
  Owner <- MCOwner
  MaxBallot = 2
SYMMETRY Symmetric
SPECIFICATION Spec
INVARIANTS SameBallotSameValue LearnedWasProposed
PROPERTIES ImplementsConsensus
CHECK_DEADLOCK FALSE
