SPECIFICATION Spec
CONSTANTS
    Threads = {t1, t2}
    Getters = {"cpu_times", "ppid", "name"}
    Memoized = {"cpu_times", "ppid"}
    MaxDepth = 2
    MaxTime = 1
INVARIANT Snapshot
INVARIANT CachesFollowBlocks
SYMMETRY ThreadSymmetry
