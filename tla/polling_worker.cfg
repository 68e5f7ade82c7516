SPECIFICATION WorkerFairSpec
CONSTANTS
  BatchSize = 2
  MaxReady = 2
  MaxRuns = 2
INVARIANTS
  WorkerTypeOK
  OneRunAtATime
  NoLostWakeup
  QuietAfterStop
PROPERTIES
  PollsForEver
