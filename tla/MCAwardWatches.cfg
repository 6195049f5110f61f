SPECIFICATION Spec
CONSTANTS
  w1 = w1  w2 = w2  u1 = u1  u2 = u2  r1 = r1  r2 = r2
  None = None  Chat = Chat
  Watches = {w1, w2}
  Users = {u1, u2}
  Owner <- MCOwner
  Rates = {1, 2, 3}
  Thresholds = {2}
  Runs = {r1, r2}
  MaxTime = 1
  MaxChecks = 2
SYMMETRY Symmetric
INVARIANTS
  EachImprovementOnce
  AlertedOnce
PROPERTIES
  DeletedIsSilent
  TimeNeverRunsBack
CHECK_DEADLOCK FALSE
