SPECIFICATION LiveSpec
CONSTANTS
    TxSize = 4
    SigSize = 2
    LenSize = 1
    AuthMin = 1
    AuthMax = 2
    ClientMax = 2
    Parallelism = 2
    Bytes = {0, 255}
    MaxTogether = 3
    Bodies <- MCBodies
INVARIANTS
    AcceptedIffGenuine
    CertifiedApplies
PROPERTIES
    EveryBlockIsAnswered
CHECK_DEADLOCK FALSE
