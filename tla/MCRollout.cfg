SPECIFICATION Spec
CONSTANTS
  r1 = r1  r2 = r2  h1 = h1
  main = main  next = next  branch = branch
  m0 = m0  m1 = m1  b1 = b1
  None = None  Inactive = Inactive  Old = Old
  Candidates = {main, next, branch}
  Migrations = {m0, m1, b1}
  Manifest <- MCManifest
  When <- MCWhen
  First = m0
  Releases = {r1, r2}
  Hands = {h1}
  Tasks = {r1, r2, h1}
INVARIANTS
  ActivatedIsMigrated
  HistoryNeverForks
PROPERTIES
  PromotionIsDeliberate
CHECK_DEADLOCK FALSE
SYMMETRY ReleaseSymmetry
