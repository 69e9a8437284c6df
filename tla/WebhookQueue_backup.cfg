SPECIFICATION Spec
CONSTANTS
    Hooks = {h1, h2}
    MaxEvents = 3
    MaxPerCall = 2
    BatchSize = 2
    MaxQueueSize = 2
    MaxTroubles = 1
    MaxClears = 1
    Races = {"clear"}
INVARIANTS BackedUp
CHECK_DEADLOCK FALSE
