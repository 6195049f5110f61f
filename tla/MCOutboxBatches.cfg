SPECIFICATION FairSpec
CONSTANTS
  Events = {1, 2}
  w1 = w1
  w2 = w2
  Workers = {w1, w2}
  Unknown = {2}
  NHandlers = 1
  MaxAttempts = 2
  BatchSize = 1
  Lease = 1
  Backoff <- Backoff1
  Lag = 0
  Retain = 0
  MaxRequeues = 0
  None = None
INVARIANTS
  LeaseIsExclusive
  AttemptBudget
PROPERTIES
  AtLeastOnce
  EventuallySettled
