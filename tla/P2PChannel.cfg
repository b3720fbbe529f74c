SPECIFICATION FairSpec
CONSTANTS
    N = 5
    Slots = 2
    Lanes = {0, 1}
    Width = 8
    First = 6
    Inflight = 2
    Sessions <- MCSessions
INVARIANTS SizesCompared WindowExact
PROPERTIES IsAPipe Delivers FailsTogether
CHECK_DEADLOCK FALSE
