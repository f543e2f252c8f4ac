SPECIFICATION IntakeSpec
CONSTANTS
    r1 = r1
    r2 = r2
    w1 = w1
    w2 = w2
    s1 = s1
    sys = sys
    None = None
    Missing = Missing
    Orgs = {"o1", "o2"}
    ResourceIds = {r1, r2}
    ProviderIds = {"p1"}
    Bodies = {"b1", "b2"}
    Deliveries <- MCDeliveries
    MaxRequests = 3
    MaxDeaths = 1
    Tenants = {"o1"}
    SourceIds = {s1}
    Fields = {"status", "case_id", "note"}
    DEP_FIELDS <- MCDepFields
    Score <- MCScore
    Samples <- MCSamples
    Edits <- MCEdits
    MaxProfiles = 2
    MaxMappings = 3
    Workers = {w1, w2}
    Systems = {sys}
    PlanTypes = {"refund_or_policy_answer", "lending", "custom"}
    WORKFLOW_TEMPLATES <- MCTemplates
    DefaultRules <- MCDefaultRules
    DefaultSources <- MCDefaultSources
    RowPosts <- MCRowPosts
    Patches <- MCPatches
    ImportPosts <- MCImports
    SampleEvery = 2
    SetupSlots = {w1, w2}
    MaxPlans = 1
    MaxWorkflows = 2
    MaxSaves = 3
    MaxCommits = 2
    MaxDropped = 1
    SavedRows = {"vr"}
    ListedRows = {"plan"}
    ListRows = {"rules"}
    VolatileRows = {"payload"}
    Savers = {w1, w2}
    MaxPuts = 3
    MaxRestarts = 2
INVARIANTS
    IntakeTypeOK
    ReceiptsHold IndexIsBacked
    VersionsDistinct CoverageAddsUp
    RulesAreOneSave WorkflowsAreAttached ImportsFollowForecast
    AnsweredIsSaved IncidentIdsStand
PROPERTIES
    FirstRegistrationStands ConfirmedEditsStand OnlyNamedFieldsChange
CHECK_DEADLOCK FALSE
