SPECIFICATION MCSpec
CONSTANTS
    p1 = p1  t1 = t1  t2 = t2  t3 = t3
    Call <- MCCall
    Job <- EveryJob
    Id = {1}
    Post <- MCPost
    Text <- MCText
    Absent = Absent
    Stub = Stub
    NoEntry = NoEntry
    Fault = {"db", "redis", "drop"}
    GateFault = {"hangup", "crash"}
INVARIANTS
    NoOlderThanAcked
    UpdateAnswersItself
PROPERTIES
    EveryRequestIsServed
    StaleHeals
CHECK_DEADLOCK FALSE
