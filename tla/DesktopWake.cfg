SPECIFICATION Spec
SYMMETRY WorkerSymmetry
CONSTANTS
    WakeAccounts = {"a", "b"}
    MaxWindows = 1
    Tasks = {t1}
    MaxCycles = 1
    MaxAttempts = 2
    Limits = {2}
    Workers = {w1, w2}
    MaxFaults = 2
INVARIANT WakeSafe
PROPERTY ConfirmedIsFinal
