\* A worker may crash when something is stored, but not between an upload and the sharing of its checksum.
SPECIFICATION Spec
CONSTANTS
    w1 = w1
    w2 = w2
    e1 = e1
    e2 = e2
    e3 = e3
    Nothing = Nothing
    Workers <- MCWorkers
    Edits <- MCThreeEdits
    MaxVersions = 4
    EarlyCrashes = FALSE
    UnsharedFaults = FALSE
SYMMETRY MCSymmetry
INVARIANTS TypeOK SavedReachedStore OpensCanonical ChecksumsNameVersions
PROPERTIES ImplementsDurable
