CONSTANTS
    a = a
    b = b
    NoFile = NoFile
    Names = {a, b}
    MaxCuts = 2
    MaxIds = 2
    h1 = h1
    h2 = h2
    MaxCards = 2
    RingSize = 1
    MaxPolls = 2
    MaxEvents = 2
    Edited = {1, 2}
    Hidden = {h1, h2}
    MaxChanges = 2
    MaxFetches = 2
    Milli = 2
    Minute = 2
    Outcomes <- ProbeOutcomes
    Gaps = {1, 3, 4}
    MaxRows = 3
    MaxBuckets = 3
    Instants = {0, 1, 3, 4, 5, 8, 9, 12}
    Absent = Absent
    MaxWord = 31
    SecondMillis = 2
    HourMillis = 3
    DayHours = 3
    Floor = 2
    BuiltInInterval = 6
    BuiltInTimeout = 4
    BuiltInTries = 3
    Representable = 10
    Given <- GivenSettings
    GivenDefaults <- ConfiguredDefaults
    RetentionDays = {0, 1, 4, 20}

SPECIFICATION FairSpec

INVARIANTS
    PartsTypeOK
    EntriesKept
    ImportedWhole
    SeriesExact
    SegmentsExact

PROPERTIES
    HistoryRekeyed
    StartServesInTheEnd
    EditKeeps
    SurvivesRestart
    PrunesOnlyOld
    PageCatchesUpInTheEnd

CHECK_DEADLOCK FALSE
