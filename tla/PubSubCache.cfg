\* Connections are lost; subscriptions, fetches and publications fail.
SPECIFICATION FairSpec
CONSTANTS
    Others = {o1}
    MaxChanges = 2
    MaxFetches = 3
    MaxFaults = 1
    LateFailures = FALSE
CHECK_DEADLOCK FALSE
INVARIANTS TypeOK StaleIsTold Watched
PROPERTIES StaleIsDropped
