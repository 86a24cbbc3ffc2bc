SPECIFICATION Spec
CONSTANTS
    QUEUE = 3
    Buf = {b1, b2, b3}
    NULL = NULL
INVARIANTS NoSleepOnWork MessagesInOrder BuffersLiveUnlapped
PROPERTY MessagesProcessed
