SPECIFICATION FairSpec
CONSTANTS
  Urls = {u1}
  NoUrl = NoUrl
  Primary = d0
  Fallbacks = {d1}
  Workers = {w1, w2}
  MaxJobs = 2
  MaxAttempts = 2
INVARIANTS
  OneActiveJobPerUrl
  CompletedByItsRefresh
PROPERTIES
  ImplementsRefreshes
  UrlLeaseIsExclusive
  EveryJobSettles
CHECK_DEADLOCK FALSE
