\* The removal of unlisted versions after a crash.
SPECIFICATION Spec
CONSTANTS
    Nothing = Nothing
    MaxVersions = 2
    MaxFaults = 2
    MaxRequests = 1
    Windows = {"kept"}
CHECK_DEADLOCK FALSE
INVARIANTS CurrentKept
