SPECIFICATION Spec
CONSTANTS
    d1 = d1
    d2 = d2
    d3 = d3
    b1 = b1
    b2 = b2
    b3 = b3
    Digests <- MCDigests
    Batches = {b1, b2, b3}
    Content <- MCContent
    TxBytes <- MCTxBytes
    MaxPoolBytes = 3
    MaxProposeBytes = 2
    Grace = 1
    MaxStatus = 2
    Waiters = {w1}
    Shared = {d1}
    Lookahead = 2
    MaxRound = 0
INVARIANTS
    PoolAccounted
    NoStuckBatch
    IndexesAgree
    VerdictsHold
PROPERTIES
    VerdictsStay
