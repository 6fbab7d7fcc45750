SPECIFICATION MCSpec
CONSTANTS
    MaxHeight = 2
    Buffer = 2
    MaxActive = 2
    Firsts = {1}
    MaxCrashes = 1
    Accounts = {}
    StateOps <- MCStateOps
    Body <- MCBody
    Updates <- NoUpdates
    Final = {d1}
    Forks = {f1}
    Channel = 1
    MaxReports = 1
PROPERTY
    HookReturns
CHECK_DEADLOCK FALSE
