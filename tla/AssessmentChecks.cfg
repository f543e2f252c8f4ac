SPECIFICATION AssessmentSpec
CONSTANTS
    ra = ra
    rb = rb
    alias = alias
    w1 = w1
    w2 = w2
    l1 = l1
    bA = bA
    bB = bB
    bC = bC
    d1 = d1
    Unset = Unset
    Absent = Absent
    ResourceNames = {ra, rb, alias}
    LinkPosts <- MCLinkPosts
    BindingPosts <- MCBindingPosts
    Namespaces <- MCNamespaces
    BuildPosts <- MCBuildPosts
    DepArtifacts = {"dep"}
    Builders = {w1, w2}
    MaxRecords = 2
    MaxBindings = 3
    MaxCrashes = 1
    DefinitionIds = {d1}
    DefinitionPosts <- MCDefinitionPosts
    Contracts <- MCContracts
    Evidence <- MCEvidence
    Parameters <- MCParameters
    Budgets <- MCBudgets
    SweepSlots = {w1, w2}
    MaxRuns = 2
    MaxEvidence = 2
    MaxAssessed = 1
    MaxFailures = 1
    NoRequest = NoRequest
    Recordings <- MCRecordings
    Calls <- MCCalls
    MaxCalls = 3
INVARIANTS
    AssessmentTypeOK
    LeftOutIsExplained LinkedDecisionsAgree
    PlanIsWhole CandidatesAreBacked RulesAgree ReplayIsFaithful
CHECK_DEADLOCK FALSE
