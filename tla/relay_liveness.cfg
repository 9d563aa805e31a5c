SPECIFICATION SpecRestarts
CONSTANTS
    c1 = c1
    Commands = {c1}
    MaxCompleted = 1
    MaxRequests = 0
    MaxFaults = 2
    MaxLives = 3
INVARIANTS
    OneVerdict
PROPERTIES
    EveryCommandAnswered
    StopEnds
    RepeatedIsTold
