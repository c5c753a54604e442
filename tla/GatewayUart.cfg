SPECIFICATION FairSpec
CONSTANTS
    HeapBlocks = 4
    MaxChunks = 3
    MaxFrames = 5
INVARIANTS
    TypeOK
    BlocksAccounted
    OneRestart
    HeardInOrder
    OvertakenOnce
PROPERTIES
    HeardReachesLoop
    ReceiverRestarts
CHECK_DEADLOCK FALSE
