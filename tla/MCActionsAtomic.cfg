SPECIFICATION FairSpec
CONSTANTS
  a1 = a1
  a2 = a2
  r1 = r1
  r2 = r2
  m1 = m1
  m2 = m2
  Actions = {a1, a2}
  Balances = {a1}
  Requests = {r1, r2}
  Memberships = {m1, m2}
  Atomic = TRUE
  Ttl = 1
  Lease = 1
  Page = 1
  None = None
INVARIANTS
  Inv
  OutcomeExact
  ReviewedIdentity
PROPERTIES
  DeadlineHolds
  EventuallyDecided
