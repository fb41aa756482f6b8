SPECIFICATION Spec
CONSTANTS
    Accounts = {"alice", "bob"}
    Denoms = {"udgt", "udrt"}
    GasDenom = "udgt"
    Txs <- SwitchTxs
    InitBalance <- SwitchBalance
    MaxCrashes = 1
    MaxHeight = 3
    TransferBase = 1
    PerByte = 0
    PerSignature = 1
    GasOf <- MCGasOf
    Seeds <- BootSeeds
    BurnBps = 2500
    BurnThreshold = 5
    None = None
INVARIANTS
    TypeOK
    NoncesCountPayments
    BurnedMatchesReceipts
    SilenceBeforeClaim
    
PROPERTIES
    ImplementsLedger
