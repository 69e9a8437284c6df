\* One page with one request per load and one event; two disturbances among
\* cuts, interruptions, failed dials and reloads by the user.
SPECIFICATION FairSpec
CONSTANTS
    MaxClients = 5
    MaxRequests = 1
    MaxLives = 2
    MaxBreaks = 2
    MaxEvents = 1
    MaxMissed = 1
    EarlySends = FALSE
    FirstDialLost = FALSE
INVARIANTS TypeOK AtMostOnce MessagesInOrder WaitingIsJustified NeverStranded
PROPERTIES RequestsSettle
CHECK_DEADLOCK FALSE
