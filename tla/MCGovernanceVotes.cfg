SPECIFICATION Spec
CONSTANTS
    Voters = {"staker", "holder"}
    Stake <- MCStake
    InitBalance <- MCBalance
    BootCached = {"holder"}
    Ids = {1}
    MinDeposit = 3
    DepositPeriod = 1
    VotingPeriod = 1
    Quorum = 3333
    Threshold = 5000
    VetoThreshold = 3333
    Changes <- BothChanges
    Acceptable <- GoodChange
    DefaultValue <- MCDefault
    Amounts = {1, 2}
    MaxSubmit = 1
    MaxHeight = 4
    MaxLag = 1
    MaxCrashes = 0
    None = None
INVARIANT
    AllVotesCounted
CHECK_DEADLOCK FALSE
