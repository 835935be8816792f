INIT MCInit
NEXT MCNext
CONSTANTS
    a1 = a1
    a2 = a2
    Accounts = {a1, a2}
    MaxEntries = 2
    MaxTime = 2
    MaxClock = 1
    MaxGeneration = 3
    BatchSize = 2
    ExecCandidates = {a1, a2, s1}
    ExecAccounts = {a1}
    Native = {a1, a2}
    Repairs = {"fc"}
    MaxRetry = 2
    OwnerLimit = 3
    OwnAccounts = {a1, a2}
    OwnBatch = 1
    OwnMaxOps = 2
    OwnMaxFaults = 2
    WakeAccounts = {"a", "b"}
    MaxWindows = 1
    Tasks = {t1}
    MaxCycles = 2
    MaxAttempts = 2
    Limits = {2}
    SwBatchSize = 2
    MaxCrashes = 1
    PuMaxVersion = 3
    PuMaxTries = 3
    PuMaxFaults = 2
    PuMaxCrashes = 1
PROPERTY ServerConfirmedIsFinal
CHECK_DEADLOCK FALSE
