SPECIFICATION FairSpec
CONSTANTS
    Readings <- MCReadings
    ZeroReading <- MCZero
    READING_MAX_SIZE = 3
    IntRange = 1048576
INVARIANTS
    TypeOK
    FrameWithinReadings
PROPERTIES
    ImplementsReadingWindow
    SamplingNeverStops
    TelemetryFlows
