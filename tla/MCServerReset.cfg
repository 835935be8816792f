SPECIFICATION WcSpec
CONSTANTS
    WcSides = {"server"}
    WcActors = {"one", "two"}
    WcLength = 1
    WcMaxCredits = 2
    WcMaxNow = 2
    WcMaxRounds = 3
    WcMaxFaults = 0
INVARIANT CreditAtZero
CHECK_DEADLOCK FALSE
