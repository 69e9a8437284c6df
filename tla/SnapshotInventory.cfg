\* Faults at every step but in the windows that the code leaves open.
SPECIFICATION FairSpec
CONSTANTS
    Nothing = Nothing
    MaxVersions = 3
    MaxFaults = 3
    MaxRequests = 1
    Windows = {}
CHECK_DEADLOCK FALSE
INVARIANTS TypeOK CurrentKept NothingMissed SavedIsTrue
PROPERTIES ClosingEnds
