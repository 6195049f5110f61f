SPECIFICATION Spec
CONSTANTS
  Events = {1}
  w1 = w1
  w2 = w2
  Workers = {w1, w2}
  Unknown = {}
  NHandlers = 2
  MaxAttempts = 2
  BatchSize = 2
  Lease = 2
  Backoff <- Backoff2
  Lag = 1
  Retain = 0
  MaxRequeues = 1
  None = None
INVARIANTS
  Inv
  OutcomeOwnership
PROPERTIES
  TerminalIsFinal
SYMMETRY WorkerSymmetry
