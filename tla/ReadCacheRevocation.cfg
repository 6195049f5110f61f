SPECIFICATION CacheSpec
CONSTANTS
  None = None
  Users = {u1}
  Calls = {r1, r2, r3}
  TTL = 1
  MaxEntries = 2
  MaxVersion = 1
  MaxTime = 1
INVARIANTS
  RevokedAtOnce
