SPECIFICATION Spec
CONSTANTS
    k1 = k1
    k2 = k2
    NoSeat = NoSeat
    BigBlind = 2
    RiverStacks = {1, 2, 3}
    Iterations = 2
    MaxEntries = 1
    MaxHands = 2
SYMMETRY Symmetry
INVARIANTS TheorySound SolverSound TraceSound BeliefsSound
CHECK_DEADLOCK FALSE
