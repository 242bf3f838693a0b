SPECIFICATION Spec
CONSTANT MaxRetries = 2
INVARIANT
    ConnectedMeansAddress
CHECK_DEADLOCK FALSE
