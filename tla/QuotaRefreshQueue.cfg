SPECIFICATION Spec
CONSTANTS
    Accounts = {a1, a2, a3}
    MaxEntries = 2
    MaxTime = 1
    MaxGeneration = 5
SYMMETRY AccountSymmetry
INVARIANTS
    TypeOK
    PendingIsQueued
    StorageBounded
    InFlightHeldOnce
PROPERTIES
    DirtyMarkSurvives
    ImplementsSchedule
