SPECIFICATION MCSpec
CONSTANTS
    Ip = {a}
    Port = {p}
    Costs = {1, 2}
    MaxScore = 2
    ResetInterval = 2
    BanDuration = 5
    MaxTime = 6
    ScoreBound = 4
    BlockTime = 1
    OneHour = 4
    TwoDays = 5
    NaNWindows = {0, 99}
    Rates = {0, 1, 3}
    MaxShares = 2
    MaxClock = 6
    Base = 4
    HashLen = 4
    MaxDiff = 260
    Half = 2
    MaxVarint = 4
    IntLen = 2
    Samples <- MCSamples
INVARIANTS
    BurstBounded
    ReadsWhatWasWritten
    CheckDiffIsExact
    SplitIsOverTheWindow
PROPERTY BanHolds
CHECK_DEADLOCK FALSE
