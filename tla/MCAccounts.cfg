SPECIFICATION Spec
CONSTANTS
  c1 = c1  c2 = c2  c3 = c3
  g1 = g1
  m1 = m1  m2 = m2
  None = None
  Programs = {1, 2}
  Goals = {g1}
  Members = {m1, m2}
  Calls = {c1, c2, c3}
  Menu <- MCMenu
  Window = 1
  MaxIds = 2
  MaxTime = 2
  MaxJobs = 4
INVARIANTS
  Inv
PROPERTIES
  SameMembership
  ExpiryKeepsUp
  NoLostUpdate
  GoalsNameLinked
CHECK_DEADLOCK FALSE
