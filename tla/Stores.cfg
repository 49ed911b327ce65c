SPECIFICATION SuiteSpec
CONSTANTS
    Seats = {0, 1}
    Hero = 0
    Hands <- MCHands
    Boards <- MCBoards
    RangesTried <- MCRanges
    Ids = {s1, s2}
    Processes = {p1, p2}
    Contents = {k1, k2}
    Titles = {t1, t2}
    MaxRevision = 3
    MaxRuns = 1
    Profiles = {"anna", "ben"}
    Questions = {s1, s2}
    Concepts = {t1, t2}
    Servers = {p1, p2}
    Postgres = FALSE
    RecentKept = 2
    MaxAnswers = 3
    Clients = {"client"}
    Keys = {k1, k2}
    Scenarios = {s1, s2}
    Requests = {t1, t2}
    Limit = 2
    Window = 3
    MaxTime = 10
    MaxComputed = 3
    p1 = p1
    p2 = p2
    s1 = s1
    s2 = s2
    k1 = k1
    k2 = k2
    t1 = t1
    t2 = t2
    NoKey = NoKey
SYMMETRY Symmetry
INVARIANTS StoreSound PracticeSound GateSound SpecSound
PROPERTY NoSaveIsLost
CHECK_DEADLOCK FALSE
