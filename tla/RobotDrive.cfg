SPECIFICATION FairSpec
CONSTANTS
    Byte <- MCByte
    Writes <- AllWrites
    ChunkMax = 5
    HeapSlots = 3
INVARIANTS
    TypeOK
    HeapAccounted
    NoShootThrough
    MotionMatchesHeading
PROPERTIES
    ImplementsDrive
    CommandsAreRun

