SPECIFICATION FairGateSpec
CONSTANTS
    cat1 = cat1  user1 = user1  t1 = t1  img0 = img0  all = all  Creator = r1
    Req = {r1, r2}
    Call <- MCCall
    Job <- EveryJob
    Asked <- EveryJob
    Id = {1, 2}
    Category = {cat1}
    User = {user1}
    Title = {t1}
    Image <- MCImage
    Search = {all}
    Like <- MCLike
    Absent = Absent
    NoEntry = NoEntry
    MaxInt = 7
    Fault = {"db", "redis", "drop"}
    Big = {}
    GateFault = {"hangup", "crash", "disk", "form"}
INVARIANTS
    PostsHaveTheirImage
PROPERTIES
    EveryRequestIsServed
CHECK_DEADLOCK FALSE
