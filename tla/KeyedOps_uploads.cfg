\* The uploads of HostedStorageManager: retry, schedule from the first add.
SPECIFICATION FairSpec
CONSTANTS
    Keys = {k1, k2}
    Waiters = {w1}
    Drain = drain
    Delay = 1
    MinDelay = 0
    Retry = TRUE
    FromFirstAdd = TRUE
    SlowdownCap = 1
INVARIANTS TypeOK NothingLost ChangedHasTimer CallersAnswered
PROPERTIES ChangeTakenUp CallersReturn WaitEnds EventuallySaved
