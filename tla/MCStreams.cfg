INIT MCInit
NEXT MCNext
CONSTANTS
    WsCands = {"c1", "c2"}
    WsRetryLimit = 2
    WsOwnerLimit = 3
    WsMaxRequests = 2
    WsMaxAttempts = 4
    RsApis = {"responses", "messages", "gemini", "bridged"}
    RsMaxEvents = 3
    ImAccounts = {"c1", "c2"}
    ImSources = {"s1"}
    ImRetryLimit = 2
    ImMaxEvents = 3
    MbIndices = {0, 1, 2}
    MbIds = {1, 2}
    MbMaxEvents = 6
    GbPieces <- MCPieces
    GbNames = {"f", "g"}
    GbMaxParts = 4
    BcMessages = {"m1", "m2"}
    BcGemini = {"g1"}
    BcNative = {"n1"}
    BcTools = {"t"}
    BcCatalogs <- MCCatalogs
    BcChoices <- MCChoices
    BcMaxEntries = 2
    BcMaxSize = 6
    BcTtl = 0
    BcMaxNow = 1
    BcMaxTurns = 3
    BcMaxFlights = 1
    ScRoutes = {1, 2}
    ScBridged = {2}
    ScSays <- MCSays
    ScMapped = {1, 2, 3, 4}
    ScMax = 3
    ScUltra = 4
    ScPrefetches = {"p"}
    ScForced = {"f"}
    ScRequests = {"q"}
    ScTtl = 1
    ScMaxNow = 2
    ScMaxVersion = 2
    ScMaxBegun = 3
    SdModels = {"a", "b"}
    SdPrices = {1, 2}
    SdAnswers <- MCAnswers
    SdRecords <- MCRecords
CHECK_DEADLOCK FALSE
INVARIANTS SocketSafe StreamSafe ProviderAnswersSafe  
