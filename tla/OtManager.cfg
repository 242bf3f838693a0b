SPECIFICATION Spec
CONSTANTS
    Timeouts = {0, 3, 4, 9, 13, 14}
    PollInterval = 2
    WordSize = 16
    MaxInits = 3
INVARIANTS TypeOK JoinedOrUndone
PROPERTY InitReturns
