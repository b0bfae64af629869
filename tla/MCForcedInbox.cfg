CONSTANTS
    a = a
    b = b
    c = c
    d = d
    NoEntry = NoEntry
    Null = Null
    Senders = {a, b, c, d}
    MaxQueueSize = 3
    MaxProofAge = 0
    MaxILCount = 2
    TxMaxGasLimit = 2
    MaxNonce = 5
    GasBudget = 3
    BlockGasLimit = 2
    BaseFees = {1, 2}
    MaxBlocks = 2
CONSTANT Txs <- MCTxs
CONSTANT Balances <- MCBalances
SPECIFICATION InboxSpec
CHECK_DEADLOCK FALSE
INVARIANT ListIsTheQueue
PROPERTY ImplementsQueue
