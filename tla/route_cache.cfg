SPECIFICATION FairSpec
CONSTANTS
  Kinds = {"route", "domain", "entitlement", "usage"}
  Procs = {p1}
  NoProc = NoProc
  Requests = {r1, r2}
  MaxLife = 2
  MaxPending = 1
  RouteTtl = 1
  ExpiredTtl = 1
  NegativeTtl = 1
  DomainTtl = 1
  PlanTtl = 1
  UsageTtl = 1
INVARIANTS
  TypeOK
  NothingEndedIsServed
PROPERTIES
  CacheConverges
  RequestsEnd
