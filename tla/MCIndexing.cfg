SPECIFICATION MCSpec
CONSTANTS
    MaxHeight = 3
    Buffer = 2
    MaxActive = 2
    Firsts = {1, 2}
    MaxCrashes = 2
    Accounts = {}
    StateOps <- MCStateOps
    Body <- MCBody
    Updates <- NoUpdates
    Final = {d1}
    Forks = {f1}
    Channel = 1
    MaxReports = 2
INVARIANTS
    CapturedForGood
    QueueFollowsTheStore
    PublishedIsWhole
    CertificatesPaired
PROPERTIES
    PublishesEverything
CHECK_DEADLOCK FALSE
