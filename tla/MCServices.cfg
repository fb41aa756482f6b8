SPECIFICATION FairSpec
CONSTANTS
    MsgIds = {"m1", "m2"}
    MsgAmount <- TwoMessages
    MsgAsset <- OneAsset
    BridgeValidators = {"v1", "v2", "v3"}
    Signers = {"v1", "v2", "other"}
    MaxSignatures = 3
    U128Max = 2
    Ingests = {1}
    MaxToggles = 1
    MaxBridgeCrashes = 1
    Hashes = {"h1", "h2"}
    Peers = {"p1"}
    SeenTtl = 2
    MaxOutbound = 2
    Throttle = 1
    BatchSize = 1
    MaxClock = 4
    MaxCleanups = 1
    TpsWindowSecs = 2
    TpsThreshold = 2
    TxCounts = {0, 1}
    Consecutive <- OnceOrTwice
    MaxSeconds = 3
    MaxBlocks = 3
    MaxEvaluations = 3
    ScoredTxs = {"t1", "t2"}
    BadTxs = {"bad"}
    Scores = {1}
    BadScores = {2}
    ScoreCalls = {1}
    MaxSamples = 1
    MaxScored = 2
    NoScore = NoScore
    Sdks = {"rust", "typescript"}
    WaitTimeout = 3
    PollTime = 1
    MaxCopies = 2
    Senders = {"s1", "s2"}
    FileHashes = {"f1", "f2"}
    Uris = {"u1", "u2"}
    MaxAssets = 3
    Workers = {"w1", "w2"}
INVARIANTS
    QuorumBacked
    CustodyAccounted
    GossipPaced
    AlertsJustified
    ScoresSigned
    WaitTruthful
    RegistryConsistent
    NoDeadlock
PROPERTIES
    AnswersCome
CHECK_DEADLOCK FALSE
