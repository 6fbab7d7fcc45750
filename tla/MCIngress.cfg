SPECIFICATION MCSpec
CONSTANTS
    c1 = c1
    c2 = c2
    MaxBatchBytes = 8
    MinTxBytes = 2
    MinPrefix = 1
    MaxPrefix = 2
    Window = 1
    Capacity = 1
    MaxU64 = 12
    Accounts <- Seeds
    NoKey = NoKey
    DefaultBalance = 1
    Submitters = 2
    Ring = 2
    Value = 1
    SeedOffset = 1
    Extra = 1
    Presigned = 2
    MaxBatches <- ThreeAndOne
INVARIANTS
    StreamsKeepGoing
    AdmitsWhatFits
    BlocksInOrder
PROPERTIES
    EveryRequestIsAnswered
CHECK_DEADLOCK FALSE
