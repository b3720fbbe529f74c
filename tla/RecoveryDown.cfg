SPECIFICATION MCSpec
CONSTANTS
    Procs = {check, operator}
    Positions = {0, 1}
    Ring = Ring
    NoGrant = NoGrant
    None = None
    Dirs = {d1}
    DirSlot <- WholeRing
    MaxFaults = 2
    Checkers = {check}
    Commands = {"down"}
    MaxCommands = 1
    FailureLimit = 2
    RestartLimit = 2
    Serving = d1
    check = check
    d1 = d1
    Worlds <- DownWorlds
PROPERTIES ManualDownKept
