SPECIFICATION Spec
CONSTANTS
  Browsers = {b1, b2}
  MaxTokens = 3
  MaxSessions = 2
  MaxTime = 1
SYMMETRY Symmetry
INVARIANTS
  TypeOK
PROPERTIES
  OldSessionsEnd
  AccountNeverGoesBack
CHECK_DEADLOCK FALSE
