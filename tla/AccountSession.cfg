SPECIFICATION MCSpec
CONSTANTS
    n1 = n1  e1 = e1  e2 = e2  p1 = p1  all = all
    Call = {c1, c2, c3}
    Visitor = c1  Reader = c2
    Job <- SessionJobs
    MaxId = 2
    Name <- MCName
    Email <- MCEmail
    Password <- MCPassword
    Search = {all}
    Like <- MCLike
    MaxInt = 7
    Blank = Blank
    Omitted = Omitted
    Absent = Absent
    NoEntry = NoEntry
    Fault = {"drop"}
    GateFault = {"hangup", "crash"}
    Life = 1
    Leeway = 1
    MaxTime = 2
    NoToken = NoToken
    BadToken = BadToken
INVARIANTS
    OnlyLoggedInReachServer
    MeIsWhoLoggedIn
PROPERTIES
    EveryRequestIsServed
    StaleUserHeals
CHECK_DEADLOCK FALSE
