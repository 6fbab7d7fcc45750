SPECIFICATION MCSpec
CONSTANTS
    a = a
    b = b
    c = c
    NoKey = NoKey
    Accounts <- MCAccounts
    Pool <- MCPool
    MaxBody = 3
    Capacity = 3
    MaxU64 = 9
    DefaultBalance = 4
INVARIANTS
    RefusesOnlySpent
    ExecutesOnce
    SupplyConserved
    ProposalReplays
    PathsAgree
PROPERTIES
    NoReplay
    SkipOnlyByJump
