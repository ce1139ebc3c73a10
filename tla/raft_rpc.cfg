SPECIFICATION Spec
CONSTANTS
  Server = {s1, s2, s3}
  Command = {x}
  None = None
  MaxTerm = 2
  MaxLog = 2
  MaxMessages = 2
SYMMETRY Symmetric
VIEW MCView
INVARIANTS TypeOK ElectionSafety LogMatching
PROPERTY LeaderAppendOnly
\* the term, log and message bounds stop the model
CHECK_DEADLOCK FALSE
