SPECIFICATION BridgeSpec
CONSTANTS
    MsgIds = {"m1"}
    MsgAmount <- OneAmount
    MsgAsset <- OneAsset
    BridgeValidators = {"v1", "v2"}
    Signers = {"v1", "v2"}
    MaxSignatures = 2
    U128Max = 100
    Ingests = {1, 2}
    MaxToggles = 0
    MaxBridgeCrashes = 0
INVARIANTS
    CountedOnce
