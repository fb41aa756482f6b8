SPECIFICATION Spec
CONSTANTS
    Senders = {"alice", "bob"}
    Denoms = {"udgt", "udrt"}
    GasDenom = "udgt"
    Txs <- MCTxs
    MaxTxs = 3
    MaxBytes = 5
    MaxTxBytes = 4
    MinGasPrice = 1
    IntrinsicGas = 1
    BlockTxs = 2
    MaxClones = 1
    InitBalance <- MCBalance
INVARIANT DeferredUntilGapFree
