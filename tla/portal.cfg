\* A session, three calls, two monitors that come and go; picom may die.
CONSTANTS
    Sessions = {h1}
    Calls = {t1, t2, t3}
    left = left
    right = right
    Monitors = {left, right}
    Options <- SomeOptions
    MayFail = TRUE
    MayCrash = TRUE
    None = None
SPECIFICATION FairSpec
INVARIANTS TypeOK StreamsRecorded NoDeadlock
PROPERTIES RemovalClosesStreams CallsEnd
CHECK_DEADLOCK FALSE
