CONSTANTS
    m1 = m1
    m2 = m2
    k1 = k1
    k2 = k2
    t1 = t1
    t2 = t2
    t3 = t3
    t4 = t4
    Off = Off
    NoToken = NoToken
    Ids = {m1, m2}
    Keys = {k1, k2}
    Tasks = {t1, t2, t3, t4}
    MaxChanges = 3
    a1 = a1
    a2 = a2
    p1 = p1
    p2 = p2
    l1 = l1
    l2 = l2
    w = w
    t = t
    Silent = Silent
    NoAddr = NoAddr
    MaxHops = 2
    Queries = 2
    MaxDistance = 3
    MaxForeign = 1
    Monitors = {m1, m2}
    Addrs = {a1, a2}
    Paths <- TracePaths
    MaxRuns = 3
    Probers = {p1, p2}
    Private = {l1, l2}
    Public = {w}
    Target = t
    WalkHops = 3
    MaxExpiries = 2
    ip1 = ip1
    ip2 = ip2
    ip3 = ip3
    Ips = {ip1, ip2, ip3}
    NoIp = NoIp
    IpTasks = {p1, p2}
    Services = 2
    MaxReadings = 3
    Pingers = {p1, p2}
    Count = 2
    Idents = 3
    MaxEchoes = 4

SPECIFICATION ProbesSpec
SYMMETRY Symmetry

INVARIANTS
    TypeOK
    NoLeakedTask
    NothingMissed
    ProbesTypeOK
    HopsOwnTheirAnswers
    ReachedByTarget
    ReferencesHold
    AnswersAreOwn
    WalksBounded
    VerdictExplains
    NotesAreTrue
    TallyOwn

PROPERTIES
    UnchangedUndisturbed
    DetectionKept

CHECK_DEADLOCK FALSE
