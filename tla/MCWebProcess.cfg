SPECIFICATION FairSpec
CONSTANTS
  r1 = r1  r2 = r2  r3 = r3
  u1 = u1  u2 = u2
  None = None
  Users = {u1, u2}
  Calls = {r1, r2, r3}
  Menu <- MCMenu
  TTL = 1
  MaxEntries = 1
  MaxVersion = 1
  MaxTime = 1
  Window = 1
  RateLimit = 2
  ChatLimit = 1
  OwnerLimit = 1
  TotalLimit = 2
  Capacity = 1
INVARIANTS
  Inv
  ReadYourWrites
  SingleFlight
  LeasesCounted
PROPERTIES
  LeaseReturns
