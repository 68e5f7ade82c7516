SPECIFICATION Spec
CONSTANTS
  Accounts = {x, y}
  Codes = {c, d}
  NoCode = NoCode
  MaxSessions = 2
  MaxFlights = 2
  MaxQuiet = 1
SYMMETRY Symmetry
INVARIANTS
  TypeOK
  OwnData
CHECK_DEADLOCK FALSE
