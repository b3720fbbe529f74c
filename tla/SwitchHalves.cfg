SPECIFICATION MCFairSpec
CONSTANTS
    Procs = {p1, p2}
    Positions = {0, 1}
    Ring = Ring
    NoGrant = NoGrant
    None = None
    older = older
    newer = newer
    ring = ring
    lower = lower
    upper = upper
    p1 = p1
    Dirs = {older, newer, lower, upper}
    DirSlot <- Placed
    MaxFaults = 2
    Commands = {"install", "up", "down", "restart", "cancel"}
    Serving = {}
    Worlds <- EndingWorlds
INVARIANTS HeldStartsApart
PROPERTIES CommandsEnd
CHECK_DEADLOCK FALSE
