SPECIFICATION FairSpec
CONSTANTS
    g = g
    x = x
    y = y
    zero = zero
    None = None
    m1 = m1
    m2 = m2
    Miner = {m1, m2}
    Tx <- MCTx
    Inputs <- MCInputs
    Outputs <- MCOutputs
    ZeroHash = zero
    Wrap = 100
    MaxTime = 2
    Nonces = {0, 1}
    GoodNonces = {1}
    TxLists = {}
    GenesisTx = g
    Reward <- MCReward
    CoinbaseOf <- MCCoinbaseOf
    MaxFaults = 1
INVARIANTS
    TypeOK
    EmissionSchedule
    CountedAreOnChain
    CoinsOfThisChain
PROPERTIES
    ChainKeepsUp
    ImplementsLedgerInLives
CHECK_DEADLOCK FALSE
