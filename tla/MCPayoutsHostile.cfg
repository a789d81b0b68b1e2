SPECIFICATION FairSpec
CONSTANTS
    fee = fee
    pool = pool
    alice = alice
    bob = bob
    carol = carol
    Addr = {alice, bob, carol, fee}
    KeyRank <- MCKeyRank
    FeeAddress = fee
    PoolAddress = pool
    Banned = {bob}
    OldBalance = 2
    MinWithdrawal = 1
    MaxDestinations = 2
    MaxAttempts = 2
    Amounts = {0, 2}
    Pendings <- MCPendings
    MaxEarned = 2
    MaxSent = 4
    ReplyMayBeLost = TRUE
    MayCrash = TRUE
INVARIANTS
    PaidWasSent
    Conserved
    FalseMeansPaidOut
PROPERTY
    EventuallyPaid
    ImplementsAccounts
