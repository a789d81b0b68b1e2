SPECIFICATION Spec
CONSTANTS
    alice = alice
    fee = fee
    pool = pool
    StartHeight = 2
    MaxHeight = 4
    SafetyMargin = 1
    MinConfs = 0
    OrphanGrace = 0
    StableDepth = 0
    Cycles = {c1, c2}
    WalletMayLag = FALSE
    WalletMayLead = TRUE
    RpcMayFail = TRUE
    MayCrash = TRUE
    Addr = {alice, fee}
    KeyRank <- MCKeyRank
    FeeAddress = fee
    PoolAddress = pool
    Banned = {}
    OldBalance = 0
    MinWithdrawal = 2
    MaxDestinations = 1
    MaxAttempts = 1
    Amounts = {0}
    Pendings = {}
    MaxEarned = 100
    MaxSent = 8
    ReplyMayBeLost = TRUE
    Reward = 10
    SideReward = 6
    FeePercent = 10
    WithdrawalFee = 1
    TxFee = 1
    DebtHigh = 15
    DebtLow = 4
    Windows <- MCOneWindow
SYMMETRY CycleSymmetry
INVARIANTS
    NotOverpaid
    Solvent
CHECK_DEADLOCK FALSE
