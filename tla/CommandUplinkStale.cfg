SPECIFICATION Spec
CONSTANTS
    Input <- MCThreeBursts
    Recycled <- NothingElse
    MayCut = FALSE
    MaxTries = 3
INVARIANTS
    OnlyWhatArrived
CHECK_DEADLOCK FALSE
