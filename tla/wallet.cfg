SPECIFICATION Spec
CONSTANTS
    zero = zero
    short = short
    Empty = Empty
    long = long
    hashA = hashA
    hashB = hashB
    hashC = hashC
    zeros = zeros
    nobody = nobody
    None = None
    w1 = w1
    w2 = w2
    Caller = {w1, w2}
    Address <- MCAddress
    Written <- MCWritten
    Read <- MCRead
    Request <- MCRequest
    Pays <- MCPays
    Coinbase <- MCCoinbase
    MaxIssued = 2
    Tx <- MCTx
    Inputs <- MCInputs
    Outputs <- MCOutputs
    ZeroHash = zero
    Wrap = 16
    MaxTime = 4
    Nonces = {0}
    GoodNonces = {0}
    TxLists = {}
    GenesisTx <- MCGenesis
SYMMETRY Symmetry
INVARIANTS
    IssuedAreAccepted
    SpentNoMoreThanCreated
    WalletsMakeNoMoney
CHECK_DEADLOCK FALSE
