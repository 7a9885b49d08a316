SPECIFICATION FairSpec
CONSTANTS
    Pids = {1, 2, 3}
    InitPid = 1
    MaxTime = 5
INVARIANT TreeIsRight
PROPERTY WalkEnds
