SPECIFICATION Spec
CONSTANTS
    p1 = p1  t1 = t1  t2 = t2
    Call = {c1, c2, c3}
    Job <- EveryJob
    Id = {1}
    Post <- MCPost
    Text <- MCText
    Absent = Absent
    Stub = Stub
    NoEntry = NoEntry
    Fault = {"db", "redis", "expire", "drop"}
SYMMETRY Symmetry
INVARIANTS
    TypeOK
    AnswersWereStored
    AckedWritesAreRead
    NoCommentWithoutPost
PROPERTIES
    UpdatesReviveNothing
CHECK_DEADLOCK FALSE
