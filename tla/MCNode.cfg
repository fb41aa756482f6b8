SPECIFICATION FairSpec
CONSTANTS
    Txs <- SingleTxs
    Senders = {"alice", "bob"}
    Requests = {1}
    AssetCalls <- SameAsset
    EmptyBlocks = FALSE
    MaxTx = 2
    MaxHeight = 2
    MaxBlocks = 2
    MaxCrashes = 1
    None = None
INVARIANTS
    Linked
    AssetsOnce
PROPERTIES
    SuccessLeadsToBlock
CHECK_DEADLOCK FALSE
