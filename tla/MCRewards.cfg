SPECIFICATION Spec
CONSTANTS
    Heights = {0, 1, 2}
    Schedule <- Phases
    Pools = {"block_rewards", "staking_rewards", "bridge_operations"}
    Percent <- DefaultPercent
    InitialSupply = 0
    Bootstrap = 4
    PerYear = 2
    Floor = 1
    None = None
    Delegators = {"gen", "new"}
    Scale = 4
    Absent = Absent
    Genesis <- OneDelegation
    Amounts = {1, 2}
    EmptyBlocks = FALSE
    Withdrawals <- StakingPool
    MaxRequests = 3
    MaxStake = 3
    MaxSkips = 1
    MaxCrashes = 1
INVARIANTS
    TypeOK
    EmissionAccounted
    StakeCounted
    Solvent
CHECK_DEADLOCK FALSE
