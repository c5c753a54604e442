SPECIFICATION Spec
CONSTANTS
    Frames <- MCFrames
    MaxFrames = 3
INVARIANTS
    PublishedWereSent
    DropIsAlarmed
CHECK_DEADLOCK FALSE
