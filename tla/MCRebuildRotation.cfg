SPECIFICATION RebuildSpec
CONSTANTS
    Tasks = {t1, t2}
    MaxToken = 3
    MaxGen = 3
    MaxSlots = 2
INVARIANT NoSpentTokenPresented
CHECK_DEADLOCK FALSE
