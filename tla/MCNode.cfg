SPECIFICATION MCSpec
CONSTANTS
    n1 = n1
    n2 = n2
    Nodes = {n1, n2}
    Mode <- OneSyncs
    Indexers = {n1}
    Quorum = 1
    Cadence = 2
    Boundary <- Boundaries
    MaxHeight = 3
    MaxCrashes = 1
    Leaders <- TwoLeaders
    Txs = {"t1", "t2"}
    MaxRetryViews = 1
    PinnedRetries = 2
    Ahead = 2
    RelayHeight = 1
    MarshalSync = MarshalSync
    SecondarySeedOffset = 1000000
    Bootstrappers = 2
    PortCount = 22
    BasePort = 1
    BaseHttpPort = 6
    BaseMetricsPort = 16
    ChainPort = 11
    MetadataPort = 12
    QmdbPort = 13
    Sizes = {0, 1, 2, 3, 4}
    AccountCounts = {1, 2}
INVARIANTS
    Recoverable
    AnswerIsTrue
    ClusterFits
PROPERTIES
    ValidatorsRun
    SubmissionIsAnswered
CHECK_DEADLOCK FALSE
