SPECIFICATION GcSpec
CONSTANTS
    GcSources = {s1}
    GcAccounts = {a1, a2}
    GcUnsigned = {a2}
    GcMaxOps = 3
    GcMaxFaults = 0
INVARIANT ScopeCoversPool
CHECK_DEADLOCK FALSE
