SPECIFICATION FairSpec
CONSTANTS
    cat1 = cat1  user1 = user1  t1 = t1  img1 = img1  img2 = img2  all = all
    Call = {c1, c2}
    Job <- EveryJob
    Id = {1, 2}
    Category = {cat1}
    User = {user1}
    Title = {t1}
    Image = {img1, img2}
    Search = {all}
    Like <- MCLike
    Absent = Absent
    NoEntry = NoEntry
    MaxInt = 7
    Fault = {"db", "redis", "drop"}
INVARIANTS
    TypeOK
    NoPostWithoutRefs
    AckedDeleteReachesCache
PROPERTIES
    StaleHeals
CHECK_DEADLOCK FALSE
