CONSTANTS
    a = a
    b = b
    NoFile = NoFile
    Names = {a, b}
    MaxCuts = 2
    MaxIds = 2

SPECIFICATION StartupSpec

INVARIANTS
    ImportedOnce

CHECK_DEADLOCK FALSE
