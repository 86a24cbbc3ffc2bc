SPECIFICATION Spec
CONSTANTS
    Client = {c1, c2, c3}
    Node = {n1, n2, n3}
    Priority = {0, 1}
    NULL = NULL
    FlagSets <- MCFlags
    Packet <- MCPackets
SYMMETRY Symmetry
INVARIANTS ListsWellFormed NoUseAfterFree EveryoneAsked DetachSafe
