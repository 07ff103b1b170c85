CONSTANTS
    m1 = m1
    k1 = k1
    k2 = k2
    t1 = t1
    t2 = t2
    t3 = t3
    Off = Off
    NoToken = NoToken
    Ids = {m1}
    Keys = {k1, k2}
    Tasks = {t1, t2, t3}
    MaxChanges = 4

SPECIFICATION FairSpec

PROPERTIES
    Settles
    KeepsProbing
    ShutdownEnds

CHECK_DEADLOCK FALSE
