SPECIFICATION Spec
CONSTANTS
    MaxCommands = 4
    MaxLosses = 2
INVARIANTS
    SubscribedWhenConnected
CHECK_DEADLOCK FALSE
