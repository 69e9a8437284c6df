SPECIFICATION FairSpec
CONSTANTS
    Workers = {w1}
    Docs = {d1}
    Homes = {h1, h2}
    Requests = {r1}
    g1 = g1
    g2 = g2
    GroupOrder <- OneGroup
    Wanted <- WantsOne
    Preset <- NonePreset
    DocGroups <- AnyGroup
    Default = Default
    NoWorker = NoWorker
    ShutdownTurns = 1

PROPERTIES DeadWorkersLoseDocs
