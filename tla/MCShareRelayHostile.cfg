SPECIFICATION FairSpec
CONSTANTS
    Wallet = {typo, fee}
    Valid = {fee}
    Banned = {}
    FeeAddress = fee
    Diffs = {1}
    Counts = {0}
    MaxFound = 1
    MaxBlocks = 1
    MaxConns = 2
    MaxWire = 2
    MaxFaults = 1
INVARIANTS
    NothingInvented
    NothingLost
    NoGhostConns
PROPERTY EventuallyStored
CHECK_DEADLOCK FALSE
