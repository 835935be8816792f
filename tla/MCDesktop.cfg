INIT MCInit
NEXT MCNext
CONSTANTS
    PfMaxEdits = 1
    PfMaxFaults = 1
    PfMaxCommands = 2
    PfProviderEdits = FALSE
    PsRollouts = {r1, r2}
    PsMaxCommands = 3
    PsMaxFaults = 2
    OaAccts = {"a1", "a2"}
    OaNew = "a2"
    OaIdents <- MCOaIdents
    OaMaxFlows = 1
    OaMaxToks = 3
    OaMaxFaults = 2
    DcTasks = {t1, t2}
    DcMaxToks = 3
    DcMaxNow = 2
    DcMaxFaults = 1
    AiContents <- MCAiContents
    AiOwners = {1, 2, 3}
    AiMaxTok = 6
    AiMaxCommands = 2
    AiMaxFaults = 1
    GcSources = {s1}
    GcAccounts = {a1, a2}
    GcUnsigned = {a2}
    GcMaxOps = 2
    GcMaxFaults = 2
    ArAccounts = {a1, a2}
    ArProfiles = {p1}
    ArUrls = {u1, u2}
    ArMaxEntries = 2
    ArMaxOps = 2
    ArMaxFaults = 1
    ArMaxGen = 1
    DuRequests = {r1, r2}
    DuAccounts = {a1}
    DuSources = {s1}
    DuSamples <- MCSamples
    DuWindows = {1, 2}
    DuMaxAttempt = 2
    DuMaxOps = 2
    DuMaxNow = 2
    DuReaders = {"quota"}
    RfRefreshers = {"worker", "manual", "wake", "models"}
    RfAnswers <- MCRfAnswers
    RfProbes <- MCRfProbes
    RfSubs <- MCRfSubs
    RfKinds = {"refresh", "access"}
    RfModels = {"ok", "models_transport"}
    RfInterval = 1
    RfMaxOps = 3
    RfMaxNow = 1
    RfMaxFaults = 0
    WcSides = {"desktop", "server"}
    WcActors = {"one", "two"}
    WcLength = 1
    WcMaxCredits = 2
    WcMaxNow = 2
    WcMaxRounds = 2
    WcMaxFaults = 1
    VtRefs = {r1, r2}
    VtValues = {1, 2}
    VtLimit = 1
    VtMaxOps = 3
    VtMaxFaults = 2
    VtMaxCrashes = 2
    KsShort = {"s1"}
    KsLong = {"l1", "l2"}
    KsChunks = 2
    KsMaxOps = 3
    KsMaxFaults = 2
    KsMaxCrashes = 1
CHECK_DEADLOCK FALSE
INVARIANTS   ConfigSafe RemovalSafe   StoresSafe
 
