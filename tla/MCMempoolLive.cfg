SPECIFICATION LiveSpec
CONSTANTS
    d1 = d1
    d2 = d2
    d3 = d3
    b1 = b1
    b2 = b2
    b3 = b3
    Digests <- MCDigests
    Batches = {b1, b2, b3}
    Content <- MCContent
    TxBytes <- MCTxBytes
    MaxPoolBytes = 3
    MaxProposeBytes = 2
    Grace = 1
    MaxStatus = 3
    Waiters = {w1}
    Shared = {}
    Lookahead = 1
    MaxRound = 1
PROPERTIES
    BatchesResolve
