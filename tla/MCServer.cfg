INIT MCInit
NEXT MCNext
CONSTANTS
    AdmAccounts = {a1}
    AdmSources = {s1}
    AdmSessions = {i1}
    AdmScenes <- MCScenes
    AdmMaxOps = 2
    AdmMaxFaults = 1
    SuReqs = {r1}
    SuAccounts = {"a1"}
    SuSources = {"s1"}
    SuAttempts = 3
    SuMaxEvents = 3
    SuCapacity = 2
    SuBatchSize = 2
    SuMaxRaw = 0
    SuMaxNow = 2
    SuMaxOps = 2
    SuMaxFaults = 1
    PrSides = {"desktop", "server"}
    PrMaxAge = 3
    PrJitter = 1
    PrDelays <- MCPrDelays
    PrMaxNow = 4
    PrMaxRevision = 2
    PrMaxForced = 1
    PrMaxFaults = 1
    EqMax = 9
    EqUnit = 4
    EqRecords <- MCRecords
    EqMaxRecords = 3
    EqUsages <- MCUsages
    EqMaxRows = 1
    EqContexts <- MCContexts
    EqModels <- MCModels
    BkObjects = {o1, o2}
    BkMaxOps = 4
    BkMaxFaults = 2
    BkMaxCrashes = 2
    BkMaxJobs = 2
    SmTop = 3
    SmMaxWrites = 2
    SmMaxStops = 3
    PoolCandidates = {c1}
    PoolAccounts = {c1}
    Models = {"m1"}
    Supports <- MCServes
    Requests = {r1, r2}
    Guards = {g1, g2}
    Keys = {k1}
    Lanes = {"Text", "Image"}
    Policies <- MCPolicies
    Availabilities <- MCAvailabilities
    Blockable <- MCBlockable
    Reasons = {"Transient", "Mandatory"}
    CooldownAfter = 1
    PoolMaxTime = 1
CHECK_DEADLOCK FALSE
INVARIANTS  ServerUsageSafe PricingSafe  LeasesAreExact
 
