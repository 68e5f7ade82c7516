SPECIFICATION Spec
CONSTANTS
  Plans = {pro}
  Free = free
  Tabs = {t1, t2}
  Handlers = {h1}
  MaxRefs = 2
  MaxLinks = 1
  MaxEvents = 4
  Torn = FALSE
SYMMETRY TabSymmetry
INVARIANTS
  TypeOK
  OneAgreement
  PaidBeforeEntitled
PROPERTIES
  EndedStaysEnded
CHECK_DEADLOCK FALSE
