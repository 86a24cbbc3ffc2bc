SPECIFICATION TsSpec
CONSTANTS
    RING = 3
    EventId = {e1}
    FIFO = 2
    MaxEvents = 4
    MaxConfig = 2
    CPU = e1
    NONE = NONE
INVARIANTS FifoDrained NoSleepOnEvents EventsInOrder
PROPERTY EventsDelivered
CHECK_DEADLOCK FALSE
