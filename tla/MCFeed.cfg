SPECIFICATION FairSpec
CONSTANTS
    Endpoints <- MCEndpoints
    Skew <- MCSkew
    MaxSkew = 1
    Tolerance = 1
    Floor = 1
    Cap = 2
    Flips = FALSE
    MaxValue = 2
    MaxTime = 3
    MaxFaults = 2
    MaxWire = 1
CHECK_DEADLOCK FALSE
INVARIANTS
    NoTimeTravel
    KeepsServing
    AuthIsSound
    DeniedLearnsNothing
    ReadersAreExact
    VersionMoves
PROPERTIES
    Converges
    ReadyIsKept
