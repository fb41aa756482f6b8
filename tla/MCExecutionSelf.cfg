SPECIFICATION Spec
CONSTANTS
    Accounts = {"alice", "bob"}
    Denoms = {"udgt", "udrt"}
    GasDenom = "udgt"
    Txs <- SelfTxs
    InitBalance <- PlainBalance
    MaxCrashes = 0
    MaxHeight = 1
    TransferBase = 1
    PerByte = 0
    PerSignature = 1
    GasOf <- MCGasOf
    Seeds = {}
    BurnBps = 2500
    BurnThreshold = 5
    None = None
INVARIANT TransfersConserve
