SPECIFICATION FairSpec
CONSTANTS
  c1 = c1  d1 = d1
  Candidates = {c1}
  Requests = {r1, r2}
  Reviewers = {v1}
  Workers = {}
  Delegations = {d1}
  Links <- MCLinks
  InitialLevel <- MCFinalLevel
  Rule <- MCRule
  ReviewInputs <- ApproveDismiss
  GrantPeriods = {"future"}
  MaxReviews = 2
  MaxAborts = 0
INVARIANTS PromotionAuthorised LaterReviewPrevails
PROPERTIES PromotionCompletes
CHECK_DEADLOCK FALSE
