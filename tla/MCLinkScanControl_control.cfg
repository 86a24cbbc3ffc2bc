SPECIFICATION Spec
CONSTANTS
    App = {a1, a2}
    Thread = {t1, t2}
    NULL = NULL
    ZERO = ZERO
INVARIANTS
    OneThread
    StoppedMeansStopped
    SemaphoreExists
PROPERTY
    ScansWhileEnabled
