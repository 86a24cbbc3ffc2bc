SPECIFICATION Spec
CONSTANTS
    Buf = {b1, b2, b3, b4, b5}
    NULL = NULL
    NDESC = 3
    MaxChunks = 1
    CNT = 6
SYMMETRY Symmetry
INVARIANTS
    BufferConservation
    NoLostWakeup
    NoStrandedFrame
    CreditsMatchOwnership
PROPERTY
    RxPathOK
