SPECIFICATION Spec
CONSTANTS
  Sizes <- SystemSizes
  Value = {0, 1}
  MaxRounds = 4
  Validators = 4
  MaxEpoch = 5
  MaxHeight = 3
  MaxTmRound = 2
  Block = {1, 2}
INVARIANTS AgreementAndValidity Dissemination
PROPERTIES SettledAndHeld FinalityRules
\* every protocol ends
CHECK_DEADLOCK FALSE
