\* Two webhooks, batches of two, a queue that is full at two events; a crash, a
\* restart or a failed command, one clearing; endpoints may fail for good.
SPECIFICATION FairSpec
CONSTANTS
    Hooks = {h1, h2}
    MaxEvents = 3
    MaxPerCall = 2
    BatchSize = 2
    MaxQueueSize = 2
    MaxTroubles = 1
    MaxClears = 1
    Races = {}
INVARIANTS TypeOK BackedUp NotForgotten FifoPerHook
PROPERTIES CallersProceed EventuallySent
CHECK_DEADLOCK FALSE
