SPECIFICATION Spec
CONSTANTS
    g1 = g1
    g2 = g2
    Pids = {1, 2}
    Generators <- MCGenerators
    Scenarios <- MCScenarios
INVARIANT ReusedLeaveCache
INVARIANT PassCoversRunning
INVARIANT CreatedOnce
INVARIANT PrefetchIsFresh
