SPECIFICATION Spec
CONSTANTS
    Buf = {b1, b2, b3, b4}
    NULL = NULL
    NDESC = 2
    MaxChunks = 2
    CNT = 5
SYMMETRY Symmetry
INVARIANT QueueMatchesCount
