SPECIFICATION Spec
CONSTANTS
    Txs <- RivalTxs
    Senders = {"alice"}
    Requests = {1, 2}
    AssetCalls = {}
    EmptyBlocks = TRUE
    MaxTx = 2
    MaxHeight = 2
    MaxBlocks = 3
    MaxCrashes = 1
    None = None
INVARIANTS
    TypeOK
    ChainReadable
    AccountsAheadOfChain
    SuccessIncluded
PROPERTIES
    ImplementsChain
CHECK_DEADLOCK FALSE
