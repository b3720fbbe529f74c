SPECIFICATION FairSpec
CONSTANTS
    Ranks = {r1, r2}
    Objects = {0, 1}
    MaxFaults = 1
INVARIANTS HealthyIsShared KernelsServed OnePending ArenaOutlivesKernels
PROPERTIES ClosesEnd
CHECK_DEADLOCK FALSE
