SPECIFICATION PartsSpec
CONSTANTS
    k = k
    a = a
    d = d
    e = e
    f = f
    n = n
    zero = zero
    Tx <- MCTx
    Inputs <- MCInputs
    Outputs <- MCOutputs
    ZeroHash = zero
    Wrap = 100
    MaxBatch = 3
    CoinSets <- MCCoinSets
    None = None
    r1 = r1
    r2 = r2
    Request = {r1, r2}
    m1 = m1
    m2 = m2
    Method = {m1, m2}
    MaxStarts = 2
    MaxVersion = 2
INVARIANTS
    BatchSpendsOnce
    BatchIsPaid
    ScannedInOrder
    NoConflicts
    RefusalsHaveCause
    ServerTypeOK
    BaseOutlivesLoop
    HandlerNotReplaced
PROPERTIES
    RequestsAnswered
    StopEndsWithNextRequest
CHECK_DEADLOCK FALSE
