SPECIFICATION MCSpec
CONSTANTS
    Procs = {check, operator}
    Positions = {0, 1}
    Ring = Ring
    NoGrant = NoGrant
    None = None
    Dirs = {d1, d2}
    DirSlot <- WholeRing
    MaxFaults = 3
    Checkers = {check}
    Commands = {"up", "down", "restart", "on", "off", "hold", "release"}
    MaxCommands = 2
    FailureLimit = 2
    RestartLimit = 1
    Serving = d1
    check = check
    d1 = d1
    Worlds <- SafeWorlds
PROPERTIES OffIsRespected LoneDownKept HoldRespected
