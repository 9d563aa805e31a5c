SPECIFICATION Spec
CONSTANTS
    c1 = c1
    c2 = c2
    Commands = {c1, c2}
    MaxCompleted = 1
    MaxRequests = 2
    MaxFaults = 2
SYMMETRY Symmetry
INVARIANTS
    TypeOK
    NoFrameLost
    WrittenInOrder
    ResultsAreTrue
