SPECIFICATION Spec
CONSTANTS
    Cap = 6
    ChunkSizes = {0, 1, 3, 7}
    MaxBody = 10
INVARIANTS
    TypeOK
    BodyIsPrefix
