SPECIFICATION FairSpec
CONSTANTS
    Robots = {r1, r2, r3}
INVARIANTS
    TypeOK
    OneReference
    IdleOnlyAfterFailure
    TelemetryNeedsHandles
PROPERTIES
    LinkIsUsed
CHECK_DEADLOCK FALSE
