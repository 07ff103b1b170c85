CONSTANTS
    r1 = r1
    r2 = r2
    a = a
    b = b
    good = good
    NoMonitor = NoMonitor
    NoRequest = NoRequest
    Requests = {r1, r2}
    Names = {a, b}
    Settings = {good}
    ValidSettings = {good}
    MaxId = 2
    MaxDrops = 1

SPECIFICATION Spec

INVARIANT
    UpdatePersists
