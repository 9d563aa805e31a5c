SPECIFICATION FairSpec
CONSTANTS
    InitialDelay = 1
    MaxDelay = 6
    MaxAttempts = 3
    MaxBackoffs = 4
INVARIANTS
    PolicyTypeOK
    OverlapBounded
    LateBounded
    BackoffDoubles
PROPERTIES
    NeverSilent
    StopCompletes
