SPECIFICATION FairPathSpec
CONSTANTS
    MaxCommands = 2
    MaxLosses = 1
    Input <- MCInput
    Buttons <- MCButtons
    Recycled <- MCRecycled
    MayCut = FALSE
    MaxTries = 3
    Capacity = 2
INVARIANTS
    WrittenInOrder
PROPERTIES
    ImplementsRemoteControl
    PressMovesRobot
CHECK_DEADLOCK FALSE
