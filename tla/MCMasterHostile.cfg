SPECIFICATION MCSpec
CONSTANTS
    MaxRecent = 2
    NumChart = 2
    MaxLag = 2
    MaxBlocks = 3
    MaxTime = 3
    Rewards = {r1, r2}
INVARIANTS
    FoundKept
    ChartAscends
PROPERTY SharesAreStored
CHECK_DEADLOCK FALSE
