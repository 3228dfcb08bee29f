SPECIFICATION Spec
CONSTANTS
    n1 = n1  n2 = n2
    all = all  byN2 = byN2
    Call = {c1, c2}
    Job <- ListJobs
    Id <- MCId
    Name <- MCName
    Search <- MCSearch
    NoSearch = all
    Like <- MCLike
    Absent = Absent
    NoEntry = NoEntry
    MaxInt = 7
    Fault = {}

INVARIANTS
    CreateAnswersCreated
CHECK_DEADLOCK FALSE
