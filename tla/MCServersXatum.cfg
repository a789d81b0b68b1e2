SPECIFICATION XatumSpec
CONSTANTS
    Conn = {m1, m2, m3}
    MaxPerIp = 1
    MaxQueue = 1
    MaxJob = 1
INVARIANTS
    XatumSlotsAreExact
    XatumServedIsListed
PROPERTIES
    XatumAcceptedIsHandled
    XatumSlotsComeBack
CHECK_DEADLOCK FALSE
