SPECIFICATION SuiteSpec
CONSTANTS
    w1 = w1
    w2 = w2
    c1 = c1
    c2 = c2
    c3 = c3
    Workers = {w1, w2}
    Ids = {c1, c2, c3}
    NoId = NoId
    SequenceRange = 1000000
    MaxHands = 2
    MaxBatches = 4
    MaxRequests = 4
    MaxCrashes = 2
    Endpoints = {"insights", "advisor", "reconciliation"}
    Seats = {c1, c2, c3}
    HeroMenus = {{"check", "bet"}, {"fold", "call"}}
    MaxDealt = 2
    MaxEvents = 3
    Amounts = {2, 5, 18}
    Pots = {3, 30}
    Ordinals = {13, 18, 23, 28}
    Holes <- MCHoles
    Boards <- MCBoards
    Spots <- MCSpots
SYMMETRY Symmetry
INVARIANTS RequestsHold TableServes ReadsAgree BotsSound
PROPERTY RevisionGrows
CHECK_DEADLOCK FALSE
