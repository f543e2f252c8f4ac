SPECIFICATION FairSpec
CONSTANTS
    s1 = s1  s2 = s2  s3 = s3  v1 = v1  v2 = v2  fixed = fixed  unfixed = unfixed
    Scenarios = {s1, s2, s3}
    Records = {v1, v2}
    Source <- MCSource
    Blocked = {}
    Seeded = {s1}
    Policies = {p}
    Requests = {k1}
    Promoters = {q1}
    Editors = {w1}
    Fixes = {fixed, unfixed}
    Outcome <- MCOutcome
    RequiredInputs <- SomeRequired
    MaxEdits = 3
    MaxFaults = 1
INVARIANTS TypeOK PassIsEarned AnswersAgree OneScenarioPerRecord
PROPERTIES GateAnswered PassedChecksAreCertified
CHECK_DEADLOCK FALSE
