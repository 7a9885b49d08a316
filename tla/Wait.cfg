SPECIFICATION FairSpec
CONSTANTS
    Threads = {t1, t2}
    Timeouts <- AllTimeouts
    EventDriven = TRUE
    OpenMayFail = TRUE
    Statuses <- TwoWays
    Child = {TRUE, FALSE}
    NewChild = {TRUE, FALSE}
    MaxProcs = 2
INVARIANT ExitCodeIsRight
INVARIANT EndsInTime
PROPERTY KeepsPromise
PROPERTY TimedWaitEnds
PROPERTY GoneEndsWait
