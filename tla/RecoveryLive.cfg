SPECIFICATION MCFairSpec
CONSTANTS
    Procs = {check, operator}
    Positions = {0, 1}
    Ring = Ring
    NoGrant = NoGrant
    None = None
    Dirs = {d1}
    DirSlot <- WholeRing
    MaxFaults = 3
    Checkers = {check}
    Commands = {"on", "restart"}
    MaxCommands = 1
    FailureLimit = 2
    RestartLimit = 2
    Serving = d1
    check = check
    d1 = d1
    Worlds <- LiveWorlds
INVARIANTS RestartsBounded AttemptsBounded
PROPERTIES Recovers
