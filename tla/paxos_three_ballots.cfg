CONSTANTS
  Proposer = {"p1", "p2"}
  Acceptor = {a1, a2, a3}
  Learner = {}
  Value = {v1, v2}
  NoValue = NoValue
  Ballot <- MCBallot
  Owner <- MCOwner
  MaxBallot = 3
SYMMETRY Symmetric
SPECIFICATION Spec
INVARIANTS Agreement
CHECK_DEADLOCK FALSE
