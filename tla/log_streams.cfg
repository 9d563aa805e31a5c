SPECIFICATION FairSpec
CONSTANTS
    r1 = r1
    r2 = r2
    Requests = {r1, r2}
    MaxStreams = 1
    MaxTasks = 3
    MaxLosses = 1
INVARIANTS
    StreamsTypeOK
    ActiveIsTracked
    ActiveWithinLimit
    NoProcessForgotten
    EndedIsFinal
PROPERTIES
    TeardownEnds
