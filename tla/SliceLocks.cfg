SPECIFICATION FairSpec
CONSTANTS
    Procs = {p1, p2, p3}
    Positions <- MCPositions
    Requests <- MCRequests
    Ring = Ring
    NoGrant = NoGrant
    None = None
INVARIANTS
    TypeOK
    LockInv
    BodiesDisjoint
PROPERTIES
    EveryCallAnswered
    ImplementsAdmission
    RefusedOnlyByWork
    RowsNameLiveWork
