SPECIFICATION Spec
CONSTANTS
    Txs <- RivalTxs
    Senders = {"alice"}
    Requests = {1, 2}
    AssetCalls = {}
    EmptyBlocks = TRUE
    MaxTx = 2
    MaxHeight = 2
    MaxBlocks = 2
    MaxCrashes = 0
    None = None
INVARIANTS
    IncludedHasReceipt
CHECK_DEADLOCK FALSE
