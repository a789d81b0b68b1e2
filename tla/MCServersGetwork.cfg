SPECIFICATION GetworkSpec
CONSTANTS
    Conn = {m1, m2}
    MaxPerIp = 1
    MaxQueue = 1
    MaxJob = 2
INVARIANTS
    GetworkSlotsAreExact
    GetworkWorksOnLatest
PROPERTY GetworkSlotsComeBack
CHECK_DEADLOCK FALSE
