SPECIFICATION MCSpec
CONSTANTS
    n1 = n1  n2 = n2
    all = all  byN2 = byN2
    Call = {c1, c2, c3}
    Job <- EveryJob
    Id <- MCId
    Name <- MCName
    Search <- MCSearch
    NoSearch = all
    Like <- MCLike
    Absent = Absent
    NoEntry = NoEntry
    MaxInt = 7
    Fault = {"db", "redis", "expire", "drop"}
SYMMETRY Symmetry
INVARIANTS
    TypeOK
    AnswersWereStored
    DeletedStaysDeleted
    AtMostOneDeleteSucceeds
    UpdateAnswerIsFresh
    AckedWriteReachesCache
    ListAnswersItsQuery
    ListTotalFitsPage
CHECK_DEADLOCK FALSE
