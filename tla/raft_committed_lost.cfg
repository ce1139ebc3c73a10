SPECIFICATION Spec
CONSTANTS
  Server = {s1, s2, s3}
  Command = {x}
  None = None
  MaxTerm = 2
  MaxLog = 1
  MaxMessages = 2
SYMMETRY Symmetric
VIEW MCView
INVARIANT LeaderCompleteness
CHECK_DEADLOCK FALSE
