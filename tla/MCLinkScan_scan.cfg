SPECIFICATION ScanSpec
CONSTANTS
    NPorts = 2
    LagMember <- LastPort
    LAG = LAG
    Handler = {h1, h2}
    Entry = {e1, e2}
    NONE = NONE
INVARIANTS
    HandlersKnowLinks
    StpMatchesLinks
PROPERTY
    ChangesReported
