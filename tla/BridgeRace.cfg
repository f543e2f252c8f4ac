SPECIFICATION Spec
CONSTANTS
  c1 = c1  d1 = d1
  Candidates = {c1}
  Requests = {r1, r2}
  Reviewers = {v1}
  Workers = {}
  Delegations = {}
  Links <- MCLinks
  InitialLevel <- MCInitialLevel
  Rule <- MCRule
  ReviewInputs <- ApproveOnly
  GrantPeriods = {}
  MaxReviews = 1
  MaxAborts = 0
PROPERTIES ProofLineageAppendOnly
CHECK_DEADLOCK FALSE
