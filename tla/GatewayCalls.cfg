SPECIFICATION FairGateSpec
CONSTANTS
    n1 = n1  n2 = n2  all = all
    Call = {c1, c2}
    Job <- RowAndListJobs
    Id = {1}
    Name <- MCName
    Search <- MCSearch
    NoSearch = all
    Like <- MCLike
    Absent = Absent
    NoEntry = NoEntry
    MaxInt = 7
    Fault = {"db", "redis", "drop"}
    GateFault = {"hangup", "crash"}

INVARIANTS
    CacheIsCurrent
PROPERTIES
    ImplementsTable
    EveryRequestIsServed
    StaleHeals
CHECK_DEADLOCK FALSE
