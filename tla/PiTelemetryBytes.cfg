SPECIFICATION Spec
CONSTANTS
    Frames <- RealFrames
    MaxFrames = 3
INVARIANTS
    WholeFramesReadable
CHECK_DEADLOCK FALSE
