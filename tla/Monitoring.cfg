CONSTANTS
    m1 = m1
    k1 = k1
    t1 = t1
    t2 = t2
    Off = Off
    NoToken = NoToken
    Ids = {m1}
    Keys = {k1}
    Tasks = {t1, t2}
    MaxChanges = 3

SPECIFICATION MonitoringFairSpec

INVARIANTS
    MonitoringTypeOK
    PurgeComplete

PROPERTIES
    RetentionReaches

