SPECIFICATION StratumSpec
CONSTANTS
    Conn = {m1, m2, m3}
    MaxPerIp = 1
    MaxQueue = 1
    MaxJob = 2
INVARIANTS
    StratumSlotsAreExact
    StratumMinersAreListed
PROPERTY StratumJobsReachMinersUnlessStale
CHECK_DEADLOCK FALSE
