SPECIFICATION Spec
CONSTANTS
    MaxClients = 5
    MaxRequests = 1
    MaxLives = 2
    MaxBreaks = 2
    MaxEvents = 1
    MaxMissed = 1
    EarlySends = TRUE
    FirstDialLost = FALSE
INVARIANTS WaitingIsJustified
CHECK_DEADLOCK FALSE
