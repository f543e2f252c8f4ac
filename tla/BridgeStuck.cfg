SPECIFICATION FairSpec
CONSTANTS
  c1 = c1  d1 = d1
  Candidates = {c1}
  Requests = {r1}
  Reviewers = {v1}
  Workers = {}
  Delegations = {}
  Links <- MCLinks
  InitialLevel <- MCInitialLevel
  Rule <- MCRule
  ReviewInputs <- ApproveOnly
  GrantPeriods = {}
  MaxReviews = 1
  MaxAborts = 1
PROPERTIES PromotionCompletes
CHECK_DEADLOCK FALSE
