SPECIFICATION FairSpec
CONSTANTS
    Procs = {p1, p2}
    Limits <- MCLimits
    Second = 2
    EventDriven = {TRUE, FALSE}
    CallbackRaises = TRUE
INVARIANT GoneIsRight
INVARIANT AliveIsRight
INVARIANT ReturnsInTime
PROPERTY WaitProcsEnds
PROPERTY DividesTheInput
CHECK_DEADLOCK FALSE
