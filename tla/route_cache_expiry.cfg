SPECIFICATION Spec
CONSTANTS
  Kinds = {"route"}
  Procs = {p1, p2}
  NoProc = NoProc
  Requests = {r1}
  MaxLife = 3
  MaxPending = 2
  RouteTtl = 2
  ExpiredTtl = 1
  NegativeTtl = 1
  DomainTtl = 1
  PlanTtl = 1
  UsageTtl = 1
INVARIANTS
  ManualExpiryHolds
