CONSTANTS
    LastMinute = 4
    MaxRows = 1
    MaxStarts = 3
    Chunk = 2

SPECIFICATION FairSpec

INVARIANTS
    TypeOK
    PassedMinutesAgree

PROPERTIES
    EventuallyRolled

CHECK_DEADLOCK FALSE
