SPECIFICATION AdmSpec
CONSTANTS
    AdmAccounts = {a1}
    AdmSources = {s1}
    AdmSessions = {i1}
    AdmScenes = {{"update_account", "refresh", "delete_account"}}
    AdmMaxOps = 2
    AdmMaxFaults = 0
PROPERTY BackgroundKeepsConfig
CHECK_DEADLOCK FALSE
