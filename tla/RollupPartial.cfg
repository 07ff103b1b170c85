CONSTANTS
    LastMinute = 4
    MaxRows = 1
    MaxStarts = 1
    Chunk = 2

SPECIFICATION Spec

INVARIANT
    FallsBackUntilBackfilled

CHECK_DEADLOCK FALSE
