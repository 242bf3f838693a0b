SPECIFICATION Spec
CONSTANT MaxRetries = 8
INVARIANTS
    TypeOK
    AttemptsBounded
    GivingUpIsFinal
PROPERTIES
    InitComesBack
    ImplementsService
CHECK_DEADLOCK FALSE
