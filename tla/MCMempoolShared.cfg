SPECIFICATION LiveSpec
CONSTANTS
    d1 = d1
    d2 = d2
    d3 = d3
    b1 = b1
    b2 = b2
    b3 = b3
    Digests <- MCDigests
    Batches = {b1}
    Content <- MCSingle
    TxBytes <- MCTxBytes
    MaxPoolBytes = 3
    MaxProposeBytes = 2
    Grace = 1
    MaxStatus = 2
    Waiters = {w1}
    Shared = {d1}
    Lookahead = 1
    MaxRound = 0
PROPERTIES
    DroppedIsNotFinalized
