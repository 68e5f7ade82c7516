SPECIFICATION FairSpec
CONSTANTS
  MaxEvents = 2
  MaxAttempts = 3
  Workers = {w1, w2}
  u1 = u1
  u2 = u2
  c1 = c1
  Urls = {u1, u2}
  Counters = {c1}
  NoCounter = NoCounter
  NoRedirect = NoRedirect
  Redirects <- MCRedirects
INVARIANTS
  CountersMatchEvents
  LastClickIsLatest
  CompletedIffRecorded
  OneCurrentClaim
PROPERTIES
  LeaseIsExclusive
  ImplementsLedger
  SettledUnlessAbandoned
CHECK_DEADLOCK FALSE
