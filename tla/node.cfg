SPECIFICATION Spec
CONSTANTS
    g = g
    c = c
    a = a
    b = b
    d = d
    e = e
    n = n
    o = o
    w = w
    zero = zero
    Tx <- MCTx
    Inputs <- MCInputs
    Outputs <- MCOutputs
    ZeroHash = zero
    Wrap = 100
    MaxTime = 3
    Nonces = {0, 1}
    GoodNonces = {1}
    TxLists <- MCTxLists
    GenesisTx = g
INVARIANTS
    TypeOK
    CoinsAreLive
    ChainSpendsOnlyLive
    SupplyIssued
PROPERTIES
    ExactWhenClean
    AppliedInOrder
    LossOnlyOfMarked
    ImplementsLedger
