SPECIFICATION MCSpec
CONSTANTS
    n1 = n1  e1 = e1  e2 = e2  p1 = p1  p2 = p2  all = all
    Call = {c1, c2, c3}
    Job <- EveryJob
    MaxId = 2
    Name <- MCName
    Email <- MCEmail
    Password <- MCPassword
    Search = {all}
    Like <- MCLike
    MaxInt = 7
    Blank = Blank
    Omitted = Omitted
    Absent = Absent
    NoEntry = NoEntry
    Fault = {"db", "redis", "expire", "drop"}
SYMMETRY Symmetry
INVARIANTS
    TypeOK
    OneAccountPerEmail
    LoginChecksPassword
    IdNamesOneAccount
    UsersShownWereStored
CHECK_DEADLOCK FALSE
