\* Two workers that start, shut down and crash, one home server, one request.
SPECIFICATION Spec
CONSTANTS
    Workers = {w1, w2}
    Docs = {d1}
    Homes = {h1}
    Requests = {r1}
    g1 = g1
    g2 = g2
    GroupOrder <- OneGroup
    Wanted <- WantsNone
    Preset <- NonePreset
    DocGroups = {g1}
    Default = Default
    NoWorker = NoWorker
    ShutdownTurns = 1
SYMMETRY Symmetric
INVARIANTS TypeOK AssignmentListed AssignedToRegistered
PROPERTIES ImplementsAssignment
