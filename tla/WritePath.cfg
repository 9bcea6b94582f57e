SPECIFICATION WritePathSpec
CONSTANTS
    Project = {"p", "q"}
    Scopes <- ScopesOfTwo
    MaxTime = 7
    Stated = {5, 6, 10}
    MinBlock = 2
    MaxPairs = 5
    Releases = {1, 2}
CHECK_DEADLOCK FALSE
INVARIANTS
    RetiredTwiceRead CircumstanceIsIdle 
    WindowsAgree CalibrationIsEarned
