SPECIFICATION FairSpec
CONSTANTS
    Procs = {p1, p2}
    NumPhases = 4
    Rows <- MCRows
    Changing <- MCChanging
    Workers = 2
    Times = {1, 2}
    None = None
    Absent = Absent
    Unknown = Unknown
INVARIANTS TypeOK MutationsOnce CompleteMeansSeen
PROPERTIES PhaseBarrier CompletedAtKept InvocationsEnd
