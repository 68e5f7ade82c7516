SPECIFICATION Spec
CONSTANTS
  Plans = {pro}
  Free = free
  Tabs = {t1}
  Handlers = {h1}
  MaxRefs = 3
  MaxLinks = 0
  MaxEvents = 5
  Torn = FALSE
INVARIANT OneAgreement
CHECK_DEADLOCK FALSE
