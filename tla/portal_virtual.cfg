\* Start on a session that wants the whole screen.
CONSTANTS
    Sessions = {h1}
    Calls = {t1, t2}
    left = left
    right = right
    Monitors = {left, right}
    Options <- SomeOptions
    MayFail = FALSE
    MayCrash = FALSE
    None = None
SPECIFICATION Spec
INVARIANT AllReported
CHECK_DEADLOCK FALSE
