SPECIFICATION Spec
CONSTANTS
    g = g
    c = c
    a = a
    b = b
    d = d
    e = e
    n = n
    o = o
    w = w
    m = m
    MaxSupply = 10
    zero = zero
    Tx <- CapTx
    Inputs <- CapInputs
    Outputs <- CapOutputs
    ZeroHash = zero
    Wrap = 100
    MaxTime = 3
    Nonces = {0, 1}
    GoodNonces = {1}
    TxLists <- CapTxLists
    GenesisTx = g
INVARIANT SupplyIsCapped
