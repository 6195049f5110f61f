SPECIFICATION Spec
CONSTANTS
  p1 = p1  p2 = p2  p3 = p3
  c1 = c1  a1 = a1
  m1 = m1  m2 = m2
  None = None
  Calls = {p1, p2, p3}
  Menu <- MCMenu
  Pages = {c1}
  Agents = {a1}
  Reading <- MCReading
  MaxPoints = 15
  Members = {m1, m2}
  TokenExpiry = 1
  GrantTTL = 1
  ReviewTTL = 1
  MaxCompleted = 1
  MaxGrants = 2
  MaxTime = 1
INVARIANTS
  RecordedOnce
  NothingForgotten
  SavedIsSaved
  NoLockCycle
PROPERTIES
  AuthorityHolds
  ReviewOnBaseline
CHECK_DEADLOCK FALSE
SYMMETRY Alike
