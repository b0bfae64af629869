CONSTANTS
    a = a
    b = b
    c = c
    NoEntry = NoEntry
    Senders = {a, b, c}
    MaxQueueSize = 2
    MaxProofAge = 1
    MaxILCount = 2
    TxMaxGasLimit = 2
    MaxNonce = 5
    GasBudget = 3
    BlockGasLimit = 2
    BaseFees = {1, 2}
    MaxBlocks = 2
CONSTANT Txs <- MCTxs
CONSTANT Balances <- MCBalances
SPECIFICATION FairSpec
CHECK_DEADLOCK FALSE
INVARIANT TypeOK
INVARIANT ExecutableOrPrunable
INVARIANT WithinCapacity
PROPERTY LeavesForCause
PROPERTY StaleEntryLeaves
