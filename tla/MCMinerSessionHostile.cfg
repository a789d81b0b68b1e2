SPECIFICATION FairSpec
CONSTANTS
    FirstTemplate = 1
    MaxTemplate = 2
    MaxJob = 3
    MaxShares = 2
    MaxPastJobs = 2
    InitialCap = 1
    Nonces = {1}
    Diffs = {1, 5}
    FirstDiff = 1
    TrustScore = 1
    MayMisbehave = TRUE
INVARIANTS
    BlocksVerified
    TrustIsEarned
    NonceOnceUnlessRaced
    WorksOnLatest
PROPERTIES
    FirstJobArrives
    EventuallyDecided
CHECK_DEADLOCK FALSE
