SPECIFICATION Spec
CONSTANTS
    Threads = {t1}
    CtimeReadable = {TRUE}
    MaxClock = 3
INVARIANT RecycledPidIsSafe
