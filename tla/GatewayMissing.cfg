SPECIFICATION GateSpec
CONSTANTS
    n1 = n1  n2 = n2  all = all
    Call = {c1, c2, c3}
    Job <- RowJobs
    Id = {1}
    Name <- MCName
    Search <- MCSearch
    NoSearch = all
    Like <- MCLike
    Absent = Absent
    NoEntry = NoEntry
    MaxInt = 7
    Fault = {}
    GateFault = {}

INVARIANTS
    MissingCategoryIs404
CHECK_DEADLOCK FALSE
