SPECIFICATION FairSpec
CONSTANTS
  MaxEvents = 1
  MaxAttempts = 5
  Workers = {w1, w2}
  u1 = u1
  u2 = u2
  c1 = c1
  Urls = {u1, u2}
  Counters = {c1}
  NoCounter = NoCounter
  NoRedirect = NoRedirect
  Redirects <- MCOneRedirect
PROPERTIES
  QueuedJobsRecover
CHECK_DEADLOCK FALSE
