SPECIFICATION Spec
CONSTANTS
  Processes = {p}
  Requests = {r1, r2}
  Max = 2
  MaxTime = 2
INVARIANTS
  TypeOK
  WithinLimit
  DrainedBeforeClosing
PROPERTIES
  NoRequestCut
  ShutdownEnds
