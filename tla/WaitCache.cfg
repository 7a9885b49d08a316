SPECIFICATION FairSpec
CONSTANTS
    Threads = {t1, t2}
    Timeouts <- OneTimeout
    EventDriven = TRUE
    OpenMayFail = FALSE
    Statuses <- OneWay
    Child = {TRUE}
    NewChild = {FALSE}
    MaxProcs = 1
PROPERTY ExitCodeKept
