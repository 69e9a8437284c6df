\* The prunes of DocSnapshotPruner: no retry, a minimal delay between prunes,
\* and every request restarts the timer.
SPECIFICATION Spec
CONSTANTS
    Keys = {k1, k2}
    Waiters = {w1}
    Drain = drain
    Delay = 0
    MinDelay = 2
    Retry = FALSE
    FromFirstAdd = FALSE
    SlowdownCap = 1
SYMMETRY Symmetric
PROPERTIES MinDelayKept
