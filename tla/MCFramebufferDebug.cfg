\* Two tasks, two driver buffers, NULL returns, statistics reset.
CONSTANTS
    t1 = t1  t2 = t2
    Tasks <- MCTasks
    FbCount = 2
    LeakThreshold = 1
    StaleTimeout = 1
    MaxTime = 3
    MaxCount = 3
SYMMETRY Symmetry
SPECIFICATION Spec
INVARIANT TypeOK
INVARIANT OutstandingMatchesHeld
