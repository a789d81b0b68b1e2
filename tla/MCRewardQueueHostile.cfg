SPECIFICATION Spec
CONSTANTS
    StartHeight = 2
    MaxHeight = 5
    SafetyMargin = 1
    MinConfs = 0
    OrphanGrace = 1
    StableDepth = 0
    Cycles = {c1, c2}
    WalletMayLag = TRUE
    WalletMayLead = TRUE
    RpcMayFail = TRUE
    MayCrash = TRUE
SYMMETRY CycleSymmetry
INVARIANTS
    CountedOnce
    InOnePlace
    NothingForgotten
    CreditIsFinal
CHECK_DEADLOCK FALSE
