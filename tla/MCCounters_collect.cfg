SPECIFICATION CountersSpec
CONSTANTS
    MODULUS = 4
    User = {u1, u2}
    MaxCount = 4
    MaxCalls = 3
INVARIANTS Accounted OneCounterThread SyncAlone
PROPERTY Collected
CHECK_DEADLOCK FALSE
