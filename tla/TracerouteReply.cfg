CONSTANTS
    MaxHops = 2
    Queries = 2
    MaxDistance = 3
    MaxForeign = 1

SPECIFICATION WalkSpec

INVARIANTS
    StopsAtReply

CHECK_DEADLOCK FALSE
