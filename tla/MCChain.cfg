SPECIFICATION Spec
CONSTANTS
    a = a
    b = b
    v1 = v1
    v2 = v2
    v3 = v3
    NoKey = NoKey
    Accounts <- MCAccounts
    Validators <- MCValidators
    Pool <- MCPool
    Forged <- MCForged
    Capacity = 2
    MaxU64 = 5
    DefaultBalance = 2
    Quorum = 2
    MaxBody = 2
    MaxBlocks = 3
    MaxFaulty = 1
    MaxClock = 2
    MaxTimestamp = 2
SYMMETRY Symmetry
INVARIANTS
    DatabasesMatchHeader
    NeverPanics
    RangesCoverTwoBlocks
    TimestampsGrow
    ProposalsVerify
CHECK_DEADLOCK FALSE
