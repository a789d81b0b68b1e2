SPECIFICATION Spec
CONSTANTS
    fee = fee
    pool = pool
    alice = alice
    bob = bob
    carol = carol
    Addr = {alice, fee}
    KeyRank <- MCKeyRank
    FeeAddress = fee
    PoolAddress = pool
    Banned = {}
    OldBalance = 2
    MinWithdrawal = 1
    MaxDestinations = 1
    MaxAttempts = 2
    Amounts = {2}
    Pendings <- MCPendings
    MaxEarned = 4
    MaxSent = 8
    ReplyMayBeLost = TRUE
    MayCrash = TRUE
INVARIANT PaidIsPaidOut
