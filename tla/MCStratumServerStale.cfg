SPECIFICATION FairSpec
CONSTANTS
    Conn = {m1, m2}
    MaxPerIp = 1
    MaxJob = 1
PROPERTY JobsReachMiners
CHECK_DEADLOCK FALSE
