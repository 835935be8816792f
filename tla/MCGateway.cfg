INIT MCInit
NEXT MCNext
CONSTANTS
    c1 = c1
    c2 = c2
    PoolCandidates = {c1, c2}
    PoolAccounts = {c1, c2}
    Models = {"m1", "m2"}
    Supports <- MCServes
    Requests = {r1, r2}
    Guards = {}
    Keys = {}
    Lanes = {"Text"}
    Policies <- MCPolicies
    Availabilities = {}
    Blockable = {}
    Reasons = {"Transient", "Mandatory"}
    CooldownAfter = 1
    PoolMaxTime = 2
    Tasks = {t1, t2}
    MaxToken = 4
    MaxGen = 5
    MaxSlots = 1
    FpSecond = 1
    FpTransient = 1
    FpLong = 2
    FpHintMax = 8
    AeAccounts = {"a1", "a2"}
    AeModels = {"m1"}
    AeRequests = {"r1", "r2", "r3"}
    AeTeam = {"a1", "a2"}
    AeInputs <- MCInputs
    AeRefusals <- MCRefusals
    AeRepairs = {"fc"}
    AeMaxRetry = 2
    AeOwnerLimit = 3
    AeMaxNow = 2
    AeMaxFailures = 1
    SaResponses = {"k1", "k2"}
    SaPrompts = {"p1"}
    SaCandidates = {"a", "b"}
    SaReqs = {"q1", "q2"}
    SaCap = 1
    SaTtl = 1
    SaPromptTtl = 1
    SaMaxNow = 1
    SaMaxBegun = 3
    SaMaxRuntimes = 2
    SaMaxFaults = 1
    TuAccounts = {"a", "b"}
    TuReqs = {"q1", "q2"}
    TuTtl = 2
    TuMaxNow = 3
    TuMaxBegun = 4
    RpIds = {1, 2, 3, 4, 5}
    RpKind <- MCKind
    RpSource <- MCSource
    RpPriority <- MCPriority
    RpExpiry <- MCExpiry
    RpRank <- MCRank
    RpStrategies = {"adaptive", "quota_highest", "subscription_expiry", "subscription_plan"}
    RpStarts <- MCStarts
    RpQuotas <- MCQuotas
    RpResets <- MCResets
    RpReserves = {2}
    RpNear = 2
    RpSlack = 3
    RpWindow = 1
    RpOpen = 2
    RpThreshold = 3
    RpMaxNow = 4
    RpMaxFlight = 2
    RpMaxDispatch = 4
    RpMaxRefresh = 1
    AgRequests = {"r1", "r2"}
    AgJobs = {"j"}
    AgDiscoveries = {"m"}
    AgMaxTasks = 3
    AgMaxRuntimes = 2
    AgMaxTokens = 2
    AgMaxFaults = 1
CHECK_DEADLOCK FALSE
INVARIANTS ChoiceSafe AuthoritySafe EndpointSafe
PROPERTIES CooldownSteps EndpointSteps RoutingSteps ContinuationFindsOwner
