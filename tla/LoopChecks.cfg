SPECIFICATION Spec
CONSTANTS
    v1 = v1
    v2 = v2
    v3 = v3
    v4 = v4
    f1 = f1
    f2 = f2
    deny = deny
    approve = approve
    Records = {v1, v2, v3, v4}
    Evidence <- EvidenceOfAll
    Supported = {v1, v2, v3}
    Fixes = {f1, f2}
    Outcomes = {deny, approve}
    Decide <- Agent
    Labels = {deny}
    Submitted = {approve}
    Requests = {k1, k2}
    Creators = {q1}
    MaxRecords = 1
    MaxIncidents = 1
    MaxPosts = 4
SYMMETRY Slots
INVARIANTS
    TypeOK
    ProofIsSound
    IncidentProofIsSound
    StatusIsBacked
    PromotionIsComplete
PROPERTIES
    ImplementsProof
CHECK_DEADLOCK FALSE
