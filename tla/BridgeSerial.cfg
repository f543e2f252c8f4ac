SPECIFICATION Spec
CONSTANTS
  c1 = c1  d1 = d1
  Candidates = {c1}
  Requests = {r1}
  Reviewers = {v1}
  Workers = {w1}
  Delegations = {}
  Links <- MCLinks
  InitialLevel <- MCInitialLevel
  Rule <- MCRule
  ReviewInputs <- TimedReviews
  GrantPeriods = {}
  MaxReviews = 2
  MaxAborts = 1
INVARIANTS TypeOK PromoteIdempotent PromotionDurable NeverLeftBehind
PROPERTIES ImplementsPromotion
CHECK_DEADLOCK FALSE
