SPECIFICATION Spec
CONSTANTS
  a1 = a1
  r1 = r1
  r2 = r2
  m1 = m1
  m2 = m2
  Actions = {a1}
  Balances = {a1}
  Requests = {r1, r2}
  Memberships = {m1, m2}
  Atomic = FALSE
  Ttl = 2
  Lease = 2
  Page = 1
  None = None
PROPERTIES
  AtMostOnce
