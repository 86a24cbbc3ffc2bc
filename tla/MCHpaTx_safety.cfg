SPECIFICATION Spec
CONSTANTS
    Buf = {b1, b2, b3, b4, b5}
    NULL = NULL
    NDESC = 3
SYMMETRY Symmetry
CHECK_DEADLOCK FALSE
INVARIANTS
    NoUseAfterFree
    EngineWindow
