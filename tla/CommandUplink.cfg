SPECIFICATION FairSpec
CONSTANTS
    Input <- MCInput
    Recycled <- MCRecycled
    MayCut = TRUE
    MaxTries = 3
INVARIANTS
    TypeOK
    PassedWereHanded
    InOrder
    AtMostTwice
PROPERTIES
    BuffersReleased
    FaultFreeRelay
CHECK_DEADLOCK FALSE
