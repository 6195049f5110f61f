SPECIFICATION Spec
CONSTANTS
  me = me  other = other  s1 = s1  plus = plus  gold = gold
  None = None
  Programs = {1, 2, 3, 4}
  Edges <- MCEdges
  EligibleCards = {plus}
  EffectiveFrom = 1
  Cpp <- MCCpp
  DefaultIncrement = 3
  Spots <- MCSpots
  Viewer = me
  Portfolios <- MCPortfolios
  Edits <- MCEdits
  Bonuses <- MCBonuses
  Goals <- MCGoals
  Routes <- MCRoutes
  Deals <- MCDeals
  Shares = {s1}
  Lifetimes = {None, 1}
  MaxTime = 2
  MaxChanges = 2
INVARIANTS
  PlansAreSound
  QuotesAgree
  BonusesLive
PROPERTIES
  RevokedIsHidden
CHECK_DEADLOCK FALSE
