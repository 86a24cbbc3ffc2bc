SPECIFICATION Spec
CONSTANTS
    Buf = {b1, b2, b3}
    NULL = NULL
    NDESC = 2
    MaxChunks = 1
    CNT = 4
PROPERTIES QueueDrains RingRefilled
